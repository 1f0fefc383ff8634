-------------------------- MODULE IndexerRegistry --------------------------
(***************************************************************************)
(* tmdb_budget.rs: IndexerLimiterRegistry, which hands each search the     *)
(* token bucket of an indexer and makes it on first use.  The searches     *)
(* share the buckets; a bucket lives on in the searches that hold it.      *)
(***************************************************************************)
EXTENDS Integers

CONSTANTS Searches,    \* the searches in flight
          Indexers,    \* names of indexers
          Rates,       \* rates the configuration may ask for
          DefaultRate, \* the rate the registry is built with
          MaxBuckets,  \* bound: buckets made
          MaxEpochs    \* bound: reconfigurations

VARIABLES buckets,      \* the map: a set of buckets, at most one per name
          default_rps,
          epoch,        \* history: accepted reconfigurations so far
          made,         \* how many buckets were made: the next one's identity
          held          \* search -> the buckets it holds

registry == <<buckets, default_rps, epoch, made, held>>

-----------------------------------------------------------------------------
(* The operations, each of them under the registry's mutex                 *)

RegistryInit ==
    /\ buckets = {}
    /\ default_rps = DefaultRate
    /\ epoch = 0
    /\ made = 0
    /\ held = [s \in Searches |-> {}]

\* for_indexer(): the bucket of that name, or a new one at the default rate.
ForIndexerForgets(s, name) ==
    LET known == {b \in buckets : b.name = name}
        new == [id |-> made, name |-> name, rate |-> default_rps, since |-> epoch]
    IN  /\ known = {} => made < MaxBuckets
        /\ made' = IF known = {} THEN made + 1 ELSE made
        /\ held' = [held EXCEPT ![s] = @ \cup IF known = {} THEN {new} ELSE known]
        /\ UNCHANGED <<buckets, default_rps, epoch>>

ForIndexer(s, name) ==
    LET known == {b \in buckets : b.name = name}
        new == [id |-> made, name |-> name, rate |-> default_rps, since |-> epoch]
    IN  IF known # {}
        THEN /\ held' = [held EXCEPT ![s] = @ \cup known]
             /\ UNCHANGED <<buckets, default_rps, epoch, made>>
        ELSE /\ made < MaxBuckets
             /\ made' = made + 1
             /\ buckets' = buckets \cup {new}
             /\ held' = [held EXCEPT ![s] = @ \cup {new}]
             /\ UNCHANGED <<default_rps, epoch>>

\* set_default_rps(): a rate that is not positive is ignored.
SetDefaultRpsKeeps(rps) ==
    /\ rps > 0 /\ epoch < MaxEpochs
    /\ default_rps' = rps
    /\ epoch' = epoch + 1
    /\ UNCHANGED <<buckets, made, held>>

SetDefaultRps(rps) ==
    /\ rps > 0 /\ epoch < MaxEpochs
    /\ default_rps' = rps
    /\ buckets' = {}
    /\ epoch' = epoch + 1
    /\ UNCHANGED <<made, held>>

\* The search ends and drops its Arcs.
Finish(s) ==
    /\ held[s] # {}
    /\ held' = [held EXCEPT ![s] = {}]
    /\ UNCHANGED <<buckets, default_rps, epoch, made>>

RegistryNext ==
    \/ \E s \in Searches : Finish(s) \/ \E name \in Indexers : ForIndexer(s, name)
    \/ \E rps \in Rates : SetDefaultRps(rps)

RegistrySpec == RegistryInit /\ [][RegistryNext]_registry

-----------------------------------------------------------------------------
(* Properties                                                              *)

Live == buckets \cup UNION {held[s] : s \in Searches}

\* "Each indexer is rate-limited independently", and the searches in flight contend
\* on one bucket: of one indexer there is one bucket for every time
\* the rate was configured, however many searches hold it.
OneBucketPerEpoch ==
    \A a, b \in Live : a.name = b.name /\ a.since = b.since => a = b

\* What a search asks for after a reconfiguration runs at the new rate: the map
\* never hands out a bucket of the old one.
NewSearchesGetTheNewRate ==
    \A b \in buckets : b.rate = default_rps /\ b.since = epoch
=============================================================================
