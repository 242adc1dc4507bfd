---------------------------- MODULE FilterLists ----------------------------
(***************************************************************************)
(* The filter lists of src/filter_list.rs: the load at startup in          *)
(* src/main.rs, the refresh task, the download with its redirects and      *)
(* timeout, the cache on disk and the fallback to it, and the aggregation  *)
(* that replaces the active rules. A list is the source it comes from, a   *)
(* version, and whether all of it is there; ListParser reads its lines.    *)
(***************************************************************************)
EXTENDS Naturals, Sequences

CONSTANTS
    sources,         \* the configured sources, in order
    Urls,            \* the sources that are URLs; the others are local files
    Framed,          \* URLs whose answers show their end: by a length, by
                     \* chunks, or by the close of TLS
    Files,           \* names in the cache directory
    cache_filename,  \* [Urls -> Files]
    MaxRedirects,    \* MAX_REDIRECTS
    MaxVersion,      \* bound: no list changes once one has this version
    RefreshEnabled   \* args.filter_list_refresh_secs > 0

Sources == {sources[i] : i \in 1..Len(sources)}

ASSUME ListsAssumption ==
    /\ sources \in Seq(Sources) \ {<<>>}
    /\ {"none", "cut"} \cap Sources = {}
    /\ Urls \subseteq Sources
    /\ Framed \subseteq Urls
    /\ cache_filename \in [Urls -> Files]
    /\ MaxRedirects \in Nat
    /\ MaxVersion \in Nat
    /\ RefreshEnabled \in BOOLEAN

VARIABLES
    CacheFails, \* the cache directory may refuse reads and writes; never changes
    published,  \* the version each source has now
    cache,      \* the cache directory: the list each file holds, NoList, or Cut
    tmp,        \* the same of the temporary file beside it
    installed,  \* the lists whose aggregate PolicyEngine::filter_list_rules is
    task,       \* the load or refresh that is running
    spawned,    \* the refresh task exists
    up          \* the process is running

listVars == <<CacheFails, published, cache, tmp, installed, task, spawned, up>>

Lists == [source : Sources, version : 0..MaxVersion, whole : BOOLEAN]

NoList == [source |-> "none", version |-> 0, whole |-> FALSE]

Cut == [source |-> "cut", version |-> 0, whole |-> FALSE]

List(s) == [source |-> s, version |-> published[s], whole |-> TRUE]

(* The beginning of a list. *)
Part(s) == [List(s) EXCEPT !.whole = FALSE]

Idle == [pc |-> "idle", next |-> 1, hops |-> 0, text |-> NoList, results |-> {}]

Task == [pc : {"idle", "load", "download", "write", "rename", "rename_again",
              "fallback", "aggregate"},
         next : 1..(Len(sources) + 1), hops : 0..MaxRedirects,
         text : Lists \cup {NoList}, results : SUBSET Lists]

ListsTypeOK ==
    /\ CacheFails \in BOOLEAN
    /\ published \in [Sources -> 0..MaxVersion]
    /\ cache \in [Files -> Lists \cup {NoList, Cut}]
    /\ tmp \in [Files -> Lists \cup {NoList, Cut}]
    /\ installed \in SUBSET Lists
    /\ task \in Task
    /\ spawned \in BOOLEAN
    /\ up \in BOOLEAN

ListsInit ==
    /\ CacheFails \in BOOLEAN
    /\ published = [s \in Sources |-> 0]
    /\ cache = [f \in Files |-> NoList]
    /\ tmp = [f \in Files |-> NoList]
    /\ installed = {}
    /\ task = [Idle EXCEPT !.pc = "load"]
    /\ spawned = FALSE
    /\ up = TRUE

(* A list changes where it is published, or a local file is edited. *)
Publish(s) ==
    /\ \A x \in Sources : published[x] < MaxVersion
    /\ published' = [published EXCEPT ![s] = @ + 1]
    /\ UNCHANGED <<CacheFails, cache, tmp, installed, task, spawned, up>>

-----------------------------------------------------------------------------
(* load_source for the source that is next *)

Source == sources[task.next]

File == cache_filename[Source]

(* The source is done, with a list or without, and the next one is up. *)
Loaded(found) ==
    task' = [Idle EXCEPT !.pc = IF task.next < Len(sources) THEN "load" ELSE "aggregate",
                         !.next = task.next + 1,
                         !.results = task.results \cup found]

(* A local file is read or skipped. *)
LoadLocal ==
    /\ task.pc = "load"
    /\ Source \notin Urls
    /\ Loaded({List(Source)}) \/ Loaded({})
    /\ UNCHANGED <<CacheFails, published, cache, tmp, installed, spawned, up>>

StartDownload ==
    /\ task.pc = "load"
    /\ Source \in Urls
    /\ task' = [task EXCEPT !.pc = "download", !.hops = 0]
    /\ UNCHANGED <<CacheFails, published, cache, tmp, installed, spawned, up>>

(* Mutant: redirects are followed without a limit. *)
redirected_forever ==
    /\ task.pc = "download"
    /\ task' = [task EXCEPT !.hops = IF @ < MaxRedirects THEN @ + 1 ELSE 0]
    /\ UNCHANGED <<CacheFails, published, cache, tmp, installed, spawned, up>>

(* A 3xx answer with a Location; one more than the limit is an error. *)
Redirected ==
    /\ task.pc = "download"
    /\ task' = IF task.hops < MaxRedirects
                 THEN [task EXCEPT !.hops = @ + 1]
                 ELSE [task EXCEPT !.pc = "fallback"]
    /\ UNCHANGED <<CacheFails, published, cache, tmp, installed, spawned, up>>

(* Mutant: a body that is too short is taken as well. *)
body_of_any_length(u) == {List(u), Part(u)}

(* What parse_http1_response takes for the body of an answer that may have *)
(* been cut off: too few bytes for the length and chunks without their end *)
(* are errors, but a plain connection that closes looks like the end.      *)
parse_http1_response(u) == IF u \in Framed THEN {List(u)} ELSE {List(u), Part(u)}

(* A 2xx answer. *)
Downloaded ==
    /\ task.pc = "download"
    /\ \E text \in parse_http1_response(Source) :
          task' = [task EXCEPT !.pc = "write", !.text = text]
    /\ UNCHANGED <<CacheFails, published, cache, tmp, installed, spawned, up>>

(* Any other status, an answer cut off, a connection error or the timeout. *)
DownloadFails ==
    /\ task.pc = "download"
    /\ task' = [task EXCEPT !.pc = "fallback"]
    /\ UNCHANGED <<CacheFails, published, cache, tmp, installed, spawned, up>>

(* cache_to_disk writes the temporary file, *)
WriteTmp ==
    /\ task.pc = "write"
    /\ tmp' = [tmp EXCEPT ![File] = task.text]
    /\ task' = [task EXCEPT !.pc = "rename"]
    /\ UNCHANGED <<CacheFails, published, cache, installed, spawned, up>>

(* Mutant: a cached copy is kept once there is one. *)
rename_once ==
    /\ task.pc \in {"rename", "rename_again"}
    /\ cache' = [cache EXCEPT ![File] = IF @ = NoList THEN tmp[File] ELSE @]
    /\ tmp' = [tmp EXCEPT ![File] = NoList]
    /\ Loaded({task.text})
    /\ UNCHANGED <<CacheFails, published, installed, spawned, up>>

(* and renames it over the cached copy; *)
Rename ==
    /\ task.pc \in {"rename", "rename_again"}
    /\ cache' = [cache EXCEPT ![File] = tmp[File]]
    /\ tmp' = [tmp EXCEPT ![File] = NoList]
    /\ Loaded({task.text})
    /\ UNCHANGED <<CacheFails, published, installed, spawned, up>>

(* where that is refused, the cached copy is removed first, if it can be;  *)
RenameRefused ==
    /\ CacheFails
    /\ task.pc = "rename"
    /\ cache' \in {cache, [cache EXCEPT ![File] = NoList]}
    /\ task' = [task EXCEPT !.pc = "rename_again"]
    /\ UNCHANGED <<CacheFails, published, tmp, installed, spawned, up>>

(* and an error of the write or of the last rename is only logged. *)
CacheError ==
    /\ CacheFails
    /\ task.pc \in {"write", "rename", "rename_again"}
    /\ tmp' \in {tmp} \cup (IF task.pc = "write" THEN {[tmp EXCEPT ![File] = Cut]} ELSE {})
    /\ Loaded({task.text})
    /\ UNCHANGED <<CacheFails, published, cache, installed, spawned, up>>

(* Mutant: a failed download is not made up for. *)
skip_cache ==
    /\ task.pc = "fallback"
    /\ Loaded({})
    /\ UNCHANGED <<CacheFails, published, cache, tmp, installed, spawned, up>>

(* load_from_cache: the copy, whoever's it is, or nothing. *)
Fallback ==
    /\ task.pc = "fallback"
    /\ \/ Loaded({cache[File]} \ {NoList})
       \/ CacheFails /\ Loaded({})
    /\ UNCHANGED <<CacheFails, published, cache, tmp, installed, spawned, up>>

-----------------------------------------------------------------------------
(* refresh_filter_lists *)

(* aggregate_rules, and the rules are replaced; after the load at startup  *)
(* the refresh task is spawned.                                            *)
Install ==
    /\ task.pc = "aggregate"
    /\ task.results # {}
    /\ installed' = task.results
    /\ spawned' = (spawned \/ RefreshEnabled)
    /\ task' = Idle
    /\ UNCHANGED <<CacheFails, published, cache, tmp, up>>

(* Every source failed: the rules stay, and at startup that is the end of  *)
(* it.                                                                     *)
AllFailed ==
    /\ task.pc = "aggregate"
    /\ task.results = {}
    /\ task' = Idle
    /\ UNCHANGED <<CacheFails, published, cache, tmp, installed, spawned, up>>

(* A tick of the refresh task. *)
RefreshTick ==
    /\ up
    /\ spawned
    /\ task.pc = "idle"
    /\ task' = [Idle EXCEPT !.pc = "load"]
    /\ UNCHANGED <<CacheFails, published, cache, tmp, installed, spawned, up>>

(* The process ends; what was being written is cut off. *)
Crash ==
    /\ up
    /\ up' = FALSE
    /\ installed' = {}
    /\ spawned' = FALSE
    /\ task' = Idle
    /\ tmp' \in {tmp} \cup (IF task.pc = "write" THEN {[tmp EXCEPT ![File] = Cut]} ELSE {})
    /\ UNCHANGED <<CacheFails, published, cache>>

(* The load at startup. *)
Restart ==
    /\ ~up
    /\ up' = TRUE
    /\ task' = [Idle EXCEPT !.pc = "load"]
    /\ UNCHANGED <<CacheFails, published, cache, tmp, installed, spawned>>

RefreshStep ==
    \/ LoadLocal
    \/ StartDownload
    \/ Redirected
    \/ Downloaded
    \/ DownloadFails
    \/ WriteTmp
    \/ Rename
    \/ RenameRefused
    \/ CacheError
    \/ Fallback
    \/ Install
    \/ AllFailed

ListsNext ==
    \/ \E s \in Sources : Publish(s)
    \/ RefreshStep
    \/ RefreshTick
    \/ Crash
    \/ Restart

ListsSpec == ListsInit /\ [][ListsNext]_listVars

(* A refresh under way runs on: every single request is answered or fails. *)
FairListsSpec == ListsSpec /\ WF_listVars(RefreshStep)

-----------------------------------------------------------------------------
(* Properties *)

Distinct == \A u, v \in Urls : cache_filename[u] = cache_filename[v] => u = v

(* A cached copy is never cut off by a crash of cache_to_disk, and is the  *)
(* whole list of the URL it is looked up for, where no two URLs share a    *)
(* file name and the answers of this one show their end.                   *)
CacheWhole ==
    /\ ListsTypeOK
    /\ \A f \in Files :
          /\ cache[f] # Cut
          /\ Distinct /\ cache[f] # NoList
               => \E u \in Urls :
                     /\ cache_filename[u] = f
                     /\ cache[f].source = u
                     /\ u \in Framed => cache[f].whole

(* While the process runs, a URL whose list is active stays active and is  *)
(* never replaced by an older version, whichever downloads of later        *)
(* refreshes fail, if the cache works: the fallback returns at least what  *)
(* the last download brought.                                              *)
NeverOlder ==
    [][~CacheFails /\ Distinct /\ up' =>
         \A l \in installed : l.source \in Urls =>
            \E m \in installed' : m.source = l.source /\ m.version >= l.version]_listVars

(* A refresh never empties the rules in force, even if no source and no    *)
(* cache answers; and a load that ends, after a restart without a network  *)
(* as well, leaves every URL with a cached copy in the rules.              *)
ListsStayActive ==
    [][/\ up' /\ installed # {} => installed' # {}
       /\ ~CacheFails /\ Distinct /\ up' /\ task.pc = "aggregate" /\ task'.pc = "idle" =>
            \A u \in Urls : cache[cache_filename[u]] # NoList =>
               \E l \in installed' : l.source = u]_listVars

(* The inductive invariant. Where the task is, what it holds and what the  *)
(* temporary file holds agree;                                             *)
TaskInv ==
    /\ ~up => task.pc = "idle"
    /\ task.pc = "idle" => task.next = 1
    /\ task.pc = "aggregate" => task.next = Len(sources) + 1
    /\ task.pc \notin {"idle", "aggregate"} => task.next \in 1..Len(sources)
    /\ task.pc \notin {"idle", "aggregate", "load"} => Source \in Urls
    /\ task.pc \in {"write", "rename", "rename_again"} =>
          /\ task.text \in Lists
          /\ task.text.source = Source
          /\ Source \in Framed => task.text.whole
          /\ task.text.version <= published[Source]
    /\ task.pc \in {"rename", "rename_again"} => tmp[File] = task.text

(* a cached copy is of the URL that its file is named for, and not newer   *)
(* than what has been published;                                           *)
CopyOK(u) ==
    LET l == cache[cache_filename[u]] IN
    /\ l # Cut
    /\ l # NoList => /\ l.source = u
                     /\ l.version <= published[u]
                     /\ u \in Framed => l.whole
                     /\ task.pc \in {"write", "rename", "rename_again"} /\ Source = u
                          => l.version <= task.text.version

(* a file of the cache that no URL has is never written;                   *)
CacheInv ==
    /\ \A f \in Files : /\ cache[f] # Cut
                        /\ cache[f] # NoList => \E u \in Urls : cache_filename[u] = f
    /\ Distinct => \A u \in Urls : CopyOK(u)

(* and the cache is at least as new as the rules, and the results so far   *)
(* are at least as new as the rules for every URL that was done and has a  *)
(* copy.                                                                   *)
AtLeast(S, u, l) == \E m \in S : m.source = u /\ m.version >= l.version

FreshInv ==
    ~CacheFails /\ Distinct => \A u \in Urls :
        /\ \A l \in installed \cup task.results :
              l.source = u => AtLeast({cache[cache_filename[u]]}, u, l)
        /\ \A j \in 1..(task.next - 1) :
              sources[j] = u /\ cache[cache_filename[u]] # NoList =>
                 /\ \E m \in task.results : m.source = u
                 /\ \A l \in installed : l.source = u => AtLeast(task.results, u, l)

ListsInv == ListsTypeOK /\ TaskInv /\ CacheInv /\ FreshInv

(* Every load and every refresh comes to an end, whatever the servers      *)
(* answer: redirects are followed MAX_REDIRECTS times at most.             *)
RefreshEnds == task.pc # "idle" ~> task.pc = "idle"
=============================================================================
