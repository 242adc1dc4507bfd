------------------------------ MODULE LeafCerts ------------------------------
(***************************************************************************)
(* The certificate authority and the leaf certificates of src/mitm.rs: at  *)
(* start-up load_or_create_ca takes the CA from its two files or generates *)
(* one and writes them, certificate first; server_config_for_host then     *)
(* makes one leaf per host and ALPN mode, looked up and inserted in a      *)
(* cache under a mutex that is not held while the leaf is generated and    *)
(* logged. Either write may fail or be cut off by a crash.                 *)
(***************************************************************************)
EXTENDS Naturals, FiniteSets

CONSTANTS
    Makers,              \* connections that ask for a leaf
    LeafNames,           \* target hosts, trimmed and in lower case
    MaxCAs,              \* CAs generated, at most
    generate_if_missing  \* CaFilesConfig::generate_if_missing

ASSUME LeafAssumption ==
    /\ MaxCAs \in Nat
    /\ generate_if_missing \in BOOLEAN

VARIABLES
    caCert,     \* the file at cert_path
    caKey,      \* the file at key_path
    lastCA,     \* the CA generated last; 0 before the first
    engine,     \* the MitmEngine, or how far its start-up is
    cert_cache, \* MitmEngine::cert_cache
    certLog,    \* the leaves in the certificate log
    unlogged,   \* ghost: those whose line could not be written
    maker       \* each call of server_config_for_host

caFiles == <<caCert, caKey>>
leafVars == <<caFiles, lastCA, engine, cert_cache, certLog, unlogged, maker>>

(* force_http1 chooses what the leaf's configuration offers by ALPN. *)
Modes == {"h1", "h2h1"}

(* A file is missing, cut off, or holds the certificate or key of a CA.    *)
CaFile == [kind : {"absent", "torn", "whole"}, ca : 0..MaxCAs]

AbsentCa == [kind |-> "absent", ca |-> 0]

TornCa == [kind |-> "torn", ca |-> 0]

WholeCa(g) == [kind |-> "whole", ca |-> g]

(* ca is the CA whose key signs, export the certificate given to clients. *)
Engines == [at : {"down", "write_cert", "write_key", "export", "up"}, ca : 0..MaxCAs,
            export : 0..MaxCAs]

NoEngine == [at |-> "down", ca |-> 0, export |-> 0]

Leaves == [name : LeafNames, mode : Modes, ca : 1..MaxCAs, by : Makers]

NoLeaf == [name |-> "none"]

IdleMaker == [at |-> "idle", leaf |-> NoLeaf]

LeafTypeOK ==
    /\ caCert \in CaFile
    /\ caKey \in CaFile
    /\ lastCA \in 0..MaxCAs
    /\ engine \in Engines
    /\ cert_cache \in [LeafNames \X Modes -> Leaves \cup {NoLeaf}]
    /\ certLog \in SUBSET Leaves
    /\ unlogged \in SUBSET Leaves
    /\ maker \in [Makers -> [at : {"idle", "generate", "insert", "have", "failed"},
                             leaf : Leaves \cup {NoLeaf}]]

LeafInit ==
    /\ caCert = AbsentCa
    /\ caKey = AbsentCa
    /\ lastCA = 0
    /\ engine = NoEngine
    /\ cert_cache = [k \in LeafNames \X Modes |-> NoLeaf]
    /\ certLog = {}
    /\ unlogged = {}
    /\ maker = [m \in Makers |-> IdleMaker]

-----------------------------------------------------------------------------
(* Start-up. The engine changes; the leaves do not.                        *)
leafState == <<cert_cache, certLog, unlogged, maker>>

exists(f) == f.kind # "absent"

(* load_or_create_ca: both files there are loaded, the key must parse and  *)
(* the certificate must show its first line, which it does even cut off;   *)
(* with none there, a CA is generated; with one, the start is refused.     *)
load_or_create_ca ==
    /\ engine.at = "down"
    /\ \/ /\ exists(caCert)
          /\ caKey.kind = "whole"
          /\ engine' = [at |-> "export", ca |-> caKey.ca, export |-> caCert.ca]
          /\ UNCHANGED lastCA
       \/ /\ ~exists(caCert)
          /\ ~exists(caKey)
          /\ generate_if_missing
          /\ lastCA < MaxCAs
          /\ lastCA' = lastCA + 1
          /\ engine' = [at |-> "write_cert", ca |-> lastCA', export |-> lastCA']
    /\ UNCHANGED <<caFiles, leafState>>

(* Mutant: the key is written before the certificate. *)
persist_ca_key_first ==
    /\ \/ /\ engine.at = "write_cert"
          /\ caKey' = WholeCa(engine.ca)
          /\ engine' = [engine EXCEPT !.at = "write_key"]
          /\ UNCHANGED caCert
       \/ /\ engine.at = "write_key"
          /\ caCert' = WholeCa(engine.ca)
          /\ engine' = [engine EXCEPT !.at = "export"]
          /\ UNCHANGED caKey
       \/ /\ engine.at = "write_key"
          /\ caCert' = TornCa
          /\ engine' = NoEngine
          /\ UNCHANGED caKey
    /\ UNCHANGED <<lastCA, leafState>>

(* persist_ca_files writes the certificate, then the key. A write that     *)
(* fails, like a crash within it, leaves no file or a cut-off one and ends *)
(* the program.                                                            *)
persist_ca_files ==
    /\ \/ /\ engine.at = "write_cert"
          /\ caCert' = WholeCa(engine.ca)
          /\ engine' = [engine EXCEPT !.at = "write_key"]
          /\ UNCHANGED caKey
       \/ /\ engine.at = "write_cert"
          /\ caCert' \in {caCert, TornCa}
          /\ engine' = NoEngine
          /\ UNCHANGED caKey
       \/ /\ engine.at = "write_key"
          /\ caKey' = WholeCa(engine.ca)
          /\ engine' = [engine EXCEPT !.at = "export"]
          /\ UNCHANGED caCert
       \/ /\ engine.at = "write_key"
          /\ caKey' \in {caKey, TornCa}
          /\ engine' = NoEngine
          /\ UNCHANGED caCert
    /\ UNCHANGED <<lastCA, leafState>>

(* main() exports the certificate, and the listener is bound. *)
export_ca_cert_pem ==
    /\ engine.at = "export"
    /\ engine' = [engine EXCEPT !.at = "up"]
    /\ UNCHANGED <<caFiles, lastCA, leafState>>

(* While the program is down its operator removes CA files, one or both.   *)
remove_ca_files ==
    /\ engine.at = "down"
    /\ exists(caCert) \/ exists(caKey)
    /\ caCert' \in {caCert, AbsentCa}
    /\ caKey' \in {caKey, AbsentCa}
    /\ caFiles' # caFiles
    /\ UNCHANGED <<lastCA, engine, leafState>>

(* The process ends, by a crash or by an error of main(). *)
LeafCrash ==
    /\ engine.at # "down"
    /\ engine' = NoEngine
    /\ cert_cache' = [k \in LeafNames \X Modes |-> NoLeaf]
    /\ maker' = [m \in Makers |-> IdleMaker]
    /\ UNCHANGED <<caFiles, lastCA, certLog, unlogged>>

-----------------------------------------------------------------------------
(* Mutant: the two ALPN modes share one entry. *)
CacheKeyHostOnly(n, mode) == <<n, "h2h1">>

CacheKey(n, mode) == <<n, mode>>

(* server_config_for_host looks the configuration up under the mutex. *)
lookup_leaf(m, n, mode) ==
    LET cached == cert_cache[CacheKey(n, mode)] IN
    /\ engine.at = "up"
    /\ maker[m].at = "idle"
    /\ maker' = [maker EXCEPT ![m] =
                   [at |-> IF cached # NoLeaf THEN "have" ELSE "generate", leaf |-> cached]]
    /\ UNCHANGED <<caFiles, lastCA, engine, cert_cache, certLog, unlogged>>

(* Outside the mutex: key pair and signature, which may fail, the log      *)
(* line, whose error is ignored, and the configuration, which may fail.    *)
generate_leaf(m, n, mode) ==
    LET leaf == [name |-> n, mode |-> mode, ca |-> engine.ca, by |-> m]
        failed == [maker EXCEPT ![m].at = "failed"]
    IN
    /\ engine.at = "up"
    /\ maker[m].at = "generate"
    /\ \/ /\ maker' = failed
          /\ UNCHANGED <<certLog, unlogged>>
       \/ /\ maker' \in {failed, [maker EXCEPT ![m] = [at |-> "insert", leaf |-> leaf]]}
          /\ \/ certLog' = certLog \cup {leaf} /\ UNCHANGED unlogged
             \/ unlogged' = unlogged \cup {leaf} /\ UNCHANGED certLog
    /\ UNCHANGED <<caFiles, lastCA, engine, cert_cache>>

(* The configuration goes into the cache, over one that another call put   *)
(* there in the meantime, and is returned.                                 *)
insert_leaf(m, n, mode) ==
    /\ engine.at = "up"
    /\ maker[m].at = "insert"
    /\ cert_cache' = [cert_cache EXCEPT ![CacheKey(n, mode)] = maker[m].leaf]
    /\ maker' = [maker EXCEPT ![m].at = "have"]
    /\ UNCHANGED <<caFiles, lastCA, engine, certLog, unlogged>>
=============================================================================
