# TLA+ models of privacy-engine

privacy-engine is a local proxy. It accepts CONNECT, transparent TLS and plain
HTTP connections, intercepts TLS where it may, filters the first HTTP/1.1
response of an intercepted connection, answers DNS for a filtered network, and
remembers the hosts it must leave alone. This directory models the parts whose
correctness depends on interleavings, failures and boundaries, checks them with
TLC and proves the central properties with TLAPS.

## The system's parts

| part | source | model |
|---|---|---|
| pinned-host store | `src/host_store.rs` | `HostStore`, abstract `PinList` |
| connection routing, auto-pinning, fallback, plain HTTP proxy | `src/main.rs` 817-1653 | `Routing` |
| TLS interception sequence | `src/mitm.rs` 294-421 | `Interception`; with its errors, states of `Routing` |
| TOFU certificate pins | `src/cert_pin.rs` | `CertPins` |
| CA files, leaf certificate cache and log | `src/mitm.rs` 190-291, 423-497, 1751-1826 | `LeafCerts` |
| HTTP/1.1 relay with header policy and body rewriting | `src/mitm.rs` 500-1322 | `Relay` |
| chunked bodies, in the relay and in downloads | `src/mitm.rs` 1223-1258, `src/filter_list.rs` 255-295 | `ChunkParser` |
| UDP DNS filter, CNAME uncloaking, DoH upstream | `src/dns_filter.rs` | `DnsFilter` |
| DoH server and its client statistics | `src/dns_filter.rs` 34-132, 379-622 | `DohServer` |
| SNI parser | `src/tls_parser.rs`, `src/main.rs` 868-879 | `SniParser` |
| dashboard reset of the pinned hosts | `src/dashboard.rs` 298-320 | `Routing` |
| privacy receipts and their flush | `src/receipts.rs`, `src/main.rs` 618-661 | `Receipts` |
| policy engine, hot reload, the plans of a connection | `src/policy.rs`, `src/main.rs` 344-414, `src/mitm.rs` | `Policy` |
| filter lists, their cache and refresh | `src/filter_list.rs`, `src/main.rs` 416-512 | `FilterLists` |
| rules of a filter list | `src/filter_list_parser.rs`, `src/filter_list.rs` 80-140 | `ListParser` |
| metrics | `src/metrics.rs` | counters inside the modules above |
| HTML rewriting, reports, dashboard pages, configuration | several | not modelled |

A connection task looks its host up in the store, asks the interception engine,
and on a TLS rejection writes to the store; a dashboard request clears it. The
relay runs inside one intercepted connection, after the upstream's certificate
was checked against the pins and a leaf was made for the client. The DNS filter
is a task of its own that shares the policy and the counters; the DoH server
answers each request in a task. Three more tasks run beside the
connections: one flushes the receipts, one reloads the policy when its file
changes, and one refreshes the filter lists, whose rules the policy combines
with its own.

## Modules

**`PinList`** is what the store promises: a set in memory, a saved copy that is
only ever replaced by the whole set, and a restart that brings the copy back.

**`HostStore`** has the set in memory (`hosts`), the write lock, the list file
and its temporary file, and per task the position in a call. `add_and_persist`
and `clear_and_persist` start a call; `AddLocked`/`ClearLocked` are the change
under the lock; `WriteTmp`, `Rename`, `RenameRefused`, `RemoveDestination` and
the failing variants are the file operations of `persist_pinned_hosts`, one
action each, because a crash may fall between any two. `Crash` and `load` are
the end and the start of the process. `acked` and `stale` are history variables.
`RenameReplaces` distinguishes the two kinds of `rename` the code handles.

**`Routing`** extends `HostStore`: a connection's calls into the store are the
store's own actions. `conn[t]` holds where the task is, the routing decision in
the receipt, the status lines the proxy wrote itself, the result of the
interception and the counters it added. Peeked bytes, handshakes and connection
attempts are choices of their results. A name that normalises to nothing and two
spellings of one host are among the names.

**`Relay`** numbers the bytes of a request and of a response and lets a read
return any 1 to `ReadSize` of them, so that every way of cutting the streams is
covered. A response has a header block, a body framed by length, chunks
(well-formed or not) or close, and possibly the start of the next response. It
may announce a length that is not its framing (chunks win, but the size limit is
tested on the announced length). The upstream may answer before it has a
request.
`rewritable` stands for the content type, encoding and policy tests. What the
HTML rewriter does to a body is not modelled, only which bytes it was given and
whether the result or the original was sent.

**`CertPins`** is a store like `HostStore`, of one certificate per host:
`check_and_update` looks under the read lock (`ReadPins`), and takes the write
lock to count a match (`TouchLocked`) or to insert a first sighting after a
second look (`InsertLocked`); the actions of `persist` follow under that lock,
one per file operation. `kept` is a history variable: the pins that a call
reported as recorded.

**`LeafCerts`** has the two CA files, the engine with the position of its
start-up, and the leaf cache with the connections that look up, generate and
insert. A CA is a number. The certificate's file counts as loadable even when
cut off, as `load_or_create_ca` only looks for its first line. `unlogged` is a
history variable: leaves whose log line could not be written.

**`Interception`** composes the two into `intercept_tls_tunnel`: start-up of
both, then per connection the upstream probe, the check, the alert, the leaf,
the client's handshake and the relay, with crashes, restarts and an operator who
removes CA files while the program is down. `installed` and `removed` are
history variables: the CA whose exported certificate clients trust.

**`DnsFilter`** has the loop's position, the queries the upstream still owes,
the receive buffer of the shared socket, and per query the answer and the
counters. A reply that does not parse matches no query that has a key, and has
no CNAME targets. The network may lose, delay, repeat and reorder replies. Whether the
upstream is DoH or UDP is chosen at the start. The policy's verdict for a name
and for the CNAME targets of its answer are constants; mixing reported and blocked targets in one answer covers a reload of
the policy mode.

**`DohServer`** extends it. Each HTTPS request is a task: it is counted in
`DohStats` (the number is taken before the lock, the entry under it, and every
`PruneEvery`th call prunes), checked by the same `process_dns_query`, and sent
over DoH or from a socket whose port is free at that time. The reply is not
compared with the query. `older`, `lastAsk` and `dropped` are history variables.
A task may wait for the lock while the clock moves, by `MaxLag` at most, so
queries and snapshots overtake each other and a `last_seen` may be set back.
`front`
chooses at the start whether clients come over UDP or HTTPS: the two servers
share nothing but the policy and counters that are only added to.

**`Receipts`** has the map in memory as a count of updates per host, the dirty
flag, the position of the flush task in `flush_if_dirty` and of each writer in
`persist_receipts`. The writer is not awaited, so the writers of two flushes may
overlap; they open one temporary name, so truncating it, writing to it and
renaming it with its writer mean what they do in a file system. `Faults` selects
the file operations that may fail. `last_write` is the one the code cannot see:
the `BufWriter` is dropped, not flushed. `failed`, `copied` and `spoiled` are
history variables; `spoiled` says that writers have overlapped or a last write
was lost since the process started.

**`Policy`** has the plans as operators (`session_plan`, `dns_plan`,
`body_plan`) over a configuration and the filter-list rules, the reload task in
three steps (look at the modification time, read, swap), and intercepted
connections that ask for a plan at interception, at the first request and at
the first response. Hosts are sequences of labels. Requests and responses are
what matters for a plan: whether it is an upgrade, and a response that sets a
cookie, has cache-tracking headers and a body. How the bytes are cut and the
header limit are the subject of `Relay`. `steady` is a history variable: the
policy has not changed since the connection asked first.

**`FilterLists`** has what each source publishes, the cache with its temporary
files, the load or refresh that is running, and the lists the active rules come
from. A list is a source and a version. Whether the cache directory can be
relied on is chosen at the start. `Framed` are the sources whose answers have a
length or chunks, or come over TLS, so that a cut-off answer is an error.

**`SniParser`**, **`ChunkParser`** and **`ListParser`** are the parsers as
functions, next to a reference that goes the other way: the bytes of a hello or
of a chunked body, the spellings of a rule. `StreamParsers` (the first two) and
`Parsers` (all three) state what they must do for an `input` that never changes.
Bytes are numbers; `Bytes` has what both stream parsers need of them, among it
which byte sequences `from_utf8` accepts. The loops of the two are recursive
functions of the position (and, for chunks, of the body so far), so that they can
be reasoned about. The two decoders of chunked bodies share one loop: they differ
only on size lines that are not text, which are not among the inputs. A list's
line is a sequence of tokens such as `||`, `##` and `a`. Domain and path
characters that the code treats alike are one token (`?` and `{` are `*`, `[` is
`!`). `ChunksRead` is what lets `Relay` say `ChunksComplete` instead of decoding
bytes.

`RoutingProofs` (the host store and the connections), `RelayProofs`,
`DohServerProofs` (the UDP loop and both servers together), `ReceiptsProofs`,
`PolicyProofs` (the policy and the filter lists), `InterceptionProofs` (the pins,
the leaves and both together), `SniProofs` and `StreamProofs` hold the theorems,
the `MC*` modules the constants for TLC.
Operators whose comment starts with "Mutant" are plausible wrong versions of the
definition that follows them; each property is refuted by one of them, and none
is used by the specifications.

## Runs

| run | configuration | result |
|---|---|---|
| host_store | 3 tasks, 2 hosts, 4 spellings, rename replaces, crashes | invariants, `PinnedOnce`, refinement of `PinList` hold |
| routing_safety | 2 connections, 1 reset, crashes, rename that does not replace | all hold |
| routing_fallback | 1 connection, 1 reset | **violated**, finding 1 |
| relay_safety | reads of 1-3, header limit 5, body limit 2 | all hold |
| relay_held | reads of 1-2, connections kept alive, fair | **violated**, finding 2 |
| dns | 5 queries, one with a reply that does not parse, buffer of 2 replies, UDP and DoH upstream, fair; or 3 concurrent HTTPS requests of 2 clients on 2 ports | all hold |
| receipts | 2 hosts, 2 writers that may overlap, every failure, crashes, fair | all hold |
| receipts_last_write | 1 writer, lost last writes | **violated**, finding 3 |
| policy | 1 connection, 2 edits, reloads, a refresh, fair; or a small configuration and rule set, part of a ClientHello, part of a chunked body, list | all hold: plans and parsers agree with their references |
| policy_report_only | as policy | **violated**, finding 4 |
| lists | 2 URLs, one of them framed, 1 local file, working or failing cache, crashes, fair | all hold |
| interception | 2 connections, 1 host in 2 spellings, 2 certificates, 2 CAs, failed writes, crashes | all hold |

What the properties say is in the comment above each. The violated ones state
what a comment or a document of the repository says:

1. After an upstream TLS failure the connection falls back to passthrough "so
   the browser never sees an error" (`src/main.rs:1264`). If writing the pinned
   host to disk fails, `?` at line 1292 ends the connection before the fallback.
2. "BufferingBody -> rewrite + send" (`src/mitm.rs:527`). A body that is
   complete in the read that ends the headers is buffered without a test for
   completion (line 941) and waits for bytes that a kept-alive connection does
   not send.
3. "Flushing is best-effort and uses an atomic temp-file+rename write"
   (`docs/RECEIPTS.md:56`). The last buffer is written when the `BufWriter` is
   dropped inside `to_writer_pretty` (`src/receipts.rs:217`); if that fails, a
   cut-off document is renamed into place and the next start refuses it.
4. "`report_only` logs what would have been blocked without actually blocking
   it" (`README.md:209`). A WebSocket upgrade to a tracker is answered with 403
   in every mode but `disabled` (`src/mitm.rs:563`).

Seven more behaviours are in the models and limit what the properties can say:

- The end-of-stream path of the relay (`src/mitm.rs:697`) has no body limit, so
  a body without a length that exceeds `max_body_bytes` within the read that
  ends the headers is rewritten when the stream ends.
- Only the first read of a request is looked at for an upgrade
  (`src/mitm.rs:553`); one that comes in two reads is forwarded.
- The receipts writer is spawned and not awaited (`src/receipts.rs:1656`): a
  flush that takes longer than the interval shares its temporary file with the
  next one, and what is still being written may be renamed into place. This is
  why `FileWhole` and `CleanMeansSaved` stop at `spoiled`.
- The DoH server does not compare a reply with its query, so a socket that gets
  the port of a request that timed out can read that one's late reply
  (`src/dns_filter.rs:564`). `ServedItsOwn` therefore allows the reply of a
  request that was over when the socket was bound.
- A first sighting whose `persist` fails stays in memory: the call reports an
  error, and a check that was waiting for the lock reports a match without
  writing (`src/cert_pin.rs:144-168`). The next match on the fast path writes
  it. `PinsDurable` speaks of pins that a call wrote.
- A download over plain HTTP without a length or chunks that is cut off is taken
  for a whole list and replaces the cached one (`src/filter_list.rs:365`).
  `CacheWhole` therefore speaks of framed sources.
- The list parser cuts off the options of a rule and keeps the rule
  (`src/filter_list_parser.rs:163`; the test `parse_domain_block_with_options`
  expects it), although the module's first lines say that options are skipped: a
  rule that an option restricts to some requests blocks the whole domain, and an
  exception with options exempts it. `ListRead` compares what is blocked and
  exempted with the line in front of its options.

### Bounds

Three tasks let one hold the lock, one wait with the same host and one reset.
Two hosts are needed for a file that holds some pins but not others. Two
connections are enough for every pair of rejections of a host; a task runs one
connection and there is no reuse, so the bound on tasks bounds the behaviours.
The relay limits are chosen so that header blocks and bodies fall below, at and
above each of them, and a read can straddle the end of the headers, the end of
the body and both. The DNS instance has two questions with one id, a retry, a
blocked name and a message that is no query; a buffer of two holds a late reply
in front of the right one.

Two hosts let an update of one fall into any step of a flush that the other
caused, and one of them may go stale and be pruned (`Quiet`). A count is present
or absent: a second update of the same host is a case of the theorems of
`ReceiptsProofs`, which hold for any `MaxCount`. Two writers are enough for one
to truncate, move or overwrite what the other writes.
The policy configurations differ in what a connection can see of them, one does
not validate, and two edits let one fall into the middle of a reload. Every
consent rule is combined with rule sets that make no host, both hosts or one of
them a tracker, which is all that consent sees of the lists; the other
configurations meet every rule set. Two URLs
with a local file between them let a refresh fail in part; versions 0 and 1
tell an older list from a newer one.

Two connections give every race of two first sightings and of two leaves for
one cache entry. The second CA is generated after files were removed, the case
in which a key and a certificate could come apart. For the DoH server two ports
for three requests force a port to be used again, and `PruneEvery` 2 with
`MaxAge` 2 and `MaxLag` 1 lets entries be pruned while others are written, with
times that are no longer the present one. The hellos have up
to two extensions with up to two names, one of them with a character of two bytes
that may be cut, the chunked bodies up to two chunks with data that looks like a line end or a last chunk, and every prefix of each is
tried; the lists are all lines of a prefix and four tokens, and every spelling of
each kind of rule. The `policy` run has 45,705 initial states, most of them
such inputs.

Deadlock is not checked where the system may stop: a relay ends, the queries and
the connections of a run are finite, and a receipts file that does not parse or
one CA file of two keeps the program from starting. The other runs check it.
`host_store`, `routing_safety` and `interception` use permutations of tasks,
connections and certificates as symmetry, which leave their properties unchanged; no liveness is checked under symmetry.

### Fairness

`Relay`: weak fairness of both reads, which is the `select!` loop plus peers that
finish what they send; neither has to close. `DnsFilter` and `DohServer`: weak
fairness of the UDP loop's timeout only. `Receipts`: the interval timer ticks and each blocking thread goes
on. `Policy`: the reload task is polled. `FilterLists`: a request is answered or
fails, which its timeout guarantees. Nothing is assumed of the publishers of
lists or of the file system's success.

## Proofs

All theorems are for arbitrary values of the constants that satisfy the named
assumptions.

`RoutingProofs`, the store. `StoreInv` is inductive: a task is in a file operation
exactly when it holds the lock; from the write to the rename the temporary file
is all of memory; a host being added is in memory and not acknowledged; and the
three properties. Loadability alone is not inductive, since a rename copies the
temporary file, which has to be known complete, which needs the lock.
`FileAlwaysLoadable`, `AckedAlwaysDurable` and `FileAlwaysMatchesMemory` follow,
`PinnedOnlyOnce` uses it for an action property, and `StoreImplementsPinList`
maps every action to a step of `PinList` or a stutter. They rest on
`StoreAssumption`: the markers for "no host" and "no task" are neither, and
names normalise to hosts or to nothing.

`RoutingProofs`, the connections. `GraceIsRespected`: while the grace period runs, no task is
waiting to add a host, because the only way there tests it and it never starts
again without a restart, which ends all tasks. The other four rest on
`RoutingInv`. A task keeps no history, so its `Ledger` says for each place what
has been answered, recorded and counted by then; that a fallback does not answer
again, for instance, needs that every rejected CONNECT client has its 200.
`PinInv` ties the connections to the store: a connection `Claims` its host from
the moment it has the lock, memory holds every claimed host, and no two
connections claim one host until a reset. That is what makes the auto-pin
counter exact (`MetricsAddUp`) and rejections stick (`RejectionIsRemembered`).
`StoreInv` is kept because connections change the store only by its own steps.

`RelayProofs`. The relay has no variable for where it is in the response: that
is spread over two flags and three buffers. `RelayInv` says that they always
describe one of three phases (`Heading`, `Buffering`, `Passing`) and gives the
exact units each buffer holds in it. Lemmas about runs of units (`UnitsJoin`,
`UnitsCut`) and one lemma per function of the code (`BufferBody`,
`FilterHeaders`, `UpstreamBytes`, `Flushed`) show that a read of any size leads
from phase to phase, also when it crosses several. All six properties of the
relay follow for every size of a read and of both limits.

`DohServerProofs`, the UDP loop. `DnsInv` records for every forwarded reply that it matched
the query and named no blocked target, and that blocked names are neither asked
nor in flight; `CountInv` adds that a query in progress is unanswered and
uncounted. `LoopIsSound` follows for the UDP loop on its own.

The rest of `DohServerProofs` does the same for both servers. `ServerInv` has the invariants
of the loop, `SocketInv`, which says whose replies can be on their way to the
port of a request (its own, and those of requests in `older`), and `StatInv`,
the balance of the statistics: an entry is at most `MaxLag` behind what its
client asked last, because a task is at most that far behind the clock. `Counted` is a fold over a finite set; what it
returns after an entry is added, changed or pruned is proved by induction on
cardinality (`SumExists`, `SumTakes`, `SumSame`). `CleanQueriesAreAnswered` is an
action property: as long as `clean` holds, only the query's own reply can be in
the buffer.

`ReceiptsProofs`. `FlagCovers` needs no more than itself: every step that changes
the map outside a flush raises the flag, and a flush ends with a copy.
`FileStaysWhole` and `CleanIsSaved` rest on `ReceiptsInv`: until `spoiled`, a
writer at work is alone, has the temporary file, and what it is about to rename
is the whole of the map last copied. A whole file alone is not inductive,
because the rename takes whatever the temporary name stands for.

`PolicyProofs`. `ConnectionsFollowPolicy` rests on `ConnInv`, which says for each
position of a connection what has been done to it so far and, as long as the
policy is `steady`, that this is what the plan says. `ConsentIsRespected` and
`BlocksComeFromRules` rest on `ReloadInv`: the configuration in force, and the
one the reload task is about to swap in, validate. The rest of these two is
about the operators, for hosts of any number of labels: the walk of
`domain_in_set_or_parent` through the parents finds what `Covers` says, and the
override is that of the longest configured parent, which exists by the least
number principle. The last three theorems are about the filter lists and rest on
`ListsInv`: what is in the temporary file is the whole text of the running
download (`TaskInv`), a cached copy is the one of its URL and not newer than what
was published (`CacheInv`), and with a working cache the copy is at least as new
as the rules in force, and the results collected so far cover every URL passed
(`FreshInv`). `NeverOlder` alone is not inductive: the fallback takes the copy,
which has to be known to be as new as the rules, and a second download can only
replace it by a newer one because publication never goes back.

`InterceptionProofs`. `PinsKept` rests on `PinsInv`: who holds the write lock,
that the temporary file is all of memory from the write to the rename, and that
memory has every pin that was ever kept, which the rename then writes.
`ChecksInv` is `PinsInv` with two parts of its own.
`AlertInv` says that an alert is a mismatch and that a mismatch is with a pin
that is still there; with `QuietMeansPinned` of `PinsInv` it gives
`ChangesAreAlerted`, as two quiet connections saw the one pin of their host.
`CaInv` says that a whole key file is beside its own certificate or alone,
which needs the order of the two writes. `StepsOfPins` shows that interception
takes only steps of `CertPins` on the pins, so that `PinsInv` is kept by
`PinsInvStep`, proved once, and `PinsStayDurable` follows. `InterceptionInv` adds
`LeafInv`: every leaf in the cache or with a connection is of the running
engine's CA, fits its key and is logged or known to be refused by the log. With
`CaInv`, by which that CA is the one clients were given, it gives `LeavesVerify`
and `LeavesFit`.

`SniProofs` and `StreamProofs`. The stream parsers have no state to be invariant:
`PeekedHelloRead` and `StreamsRead` say what they return for every input, of any
length. Three facts carry the argument. A loop that a measure of its state brings
to an end has a result (`LoopHasResult`), so that the recursive function which
stands for it exists and satisfies its equation. In a concatenation of any number
of parts, each part begins where the lengths of those before it end
(`ConcatLayout`). And a search that goes on from item to item returns what it
makes of the first hit (`SearchReturnsFirst`).

For a hello, `NameStep` and `ExtensionStep` show that a whole entry is taken or
stepped over, `NamesRead` and `ExtensionsRead` that the first of type 0 is found
whatever is around it, and `CursorAtExtensions` that the skips over a part of a
hello either end at its extensions or fail. Since the lengths that are read are
those of the whole hello, a cut anywhere makes one of the reads fail.

For a chunked body, `Agrees` says that the data has the bytes of the body as far
as both go. `LineEnds` finds the end of a size line, `ChunkStep` and `LastStep`
take a chunk that has arrived and stop at one that has not, and `ChunksDecoded`
follows the loop to the last chunk; its data may hold line ends or what looks
like a last chunk, as it is stepped over by its length. `TrailersEnd` shows that
the first empty line behind the last chunk is the one that ends the trailers: a
carriage return in them ends a line, and the next line is not empty.

The inputs are `HelloInputs` and `ChunksInputs`: all hellos of the form the
reference writes (one record, one compression method, type 0 for a server name
list), and all bodies whose size lines are text without a carriage return that
says how long the data is, with trailer lines that are not empty and have no
carriage return. Lengths are not bounded by what one or two bytes can hold; this
only adds inputs. TLC checks the same property on small ones, among them spellings
of a size with a sign, a blank, an extension or a leading zero, for which
`chunk_size` has to be computed.

The assumptions are those on the constants, named in the module that declares
them: markers such as "no host" are not values of the kind they mark, names
normalise to hosts, limits are natural numbers (positive where a zero would stop
the program), configurations and rules are of their types, hosts are sequences
of labels, and the list of sources is not empty (with an empty one `main()`
starts neither a load nor the refresh task, `src/main.rs:450`).

Induction over data is done by hand where it was needed: the library's induction
schemes take a predicate as a parameter, which the provers cannot instantiate,
but `WFMin` gives a least counterexample of a set (`Steps`).

Every invariant and action property that a passing run checks is a theorem, with
one exception. Only model-checked are:

- the liveness properties (`LoopReturns`, `UpdatesReachFile`, `ReloadCatchesUp`,
  `RefreshEnds`): fairness and `ENABLED` are outside the prover's reach;
- the parser of filter lists (`ListRead`): the rules of a list are picked by
  `SelectSeq`, of which the prover knows nothing.

## Not modelled

- TLS and certificate cryptography: a handshake or a signature is a choice of
  its results. A ClientHello over several TLS records is not among the inputs of
  `parse_sni`.
- The HTML rewriter and compression, done by external libraries on bytes no
  property speaks of.
- Configuration files and the command line (`src/engine_config.rs`, the first
  part of `main()`): field by field parsing before there is any state.
- Reports, dashboard pages and log lines: text that only reads state.
- URL, header and authority parsing of requests and downloads: the models start
  from their results.
- Loss of power. A crash is the death of the process: what was written or renamed
  by then stays. The code calls no `fsync`, so a file system that loses or
  reorders its last writes is outside of what it handles.
- Bounded socket buffers in the relay. While one direction waits in `write_all`
  the other is not read (`src/mitm.rs:640`); whether two peers can stop each
  other depends on buffer sizes outside the program.
- CA files that an operator supplies (they are signed anew when loaded, and what
  clients trust is then up to the operator), and two programs that start on the
  same files.
- `CertPinDb::add_fingerprint`, which nothing calls.
- Poisoned locks (a panic while holding one).

## Plan

The parser of filter lists in a form that can be proved for lists of any length;
a ClientHello over several records; a relay with bounded buffers.
