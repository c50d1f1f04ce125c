--------------------------- MODULE ReferenceCache ---------------------------
(***************************************************************************)
(* The cache of reference data, quick notes and scripts, that one process  *)
(* of the office keeps (lib/reference-cache.ts), for one key.  What is     *)
(* stored is known by its version, one more with every save.  Requests     *)
(* that come while a load is under way wait for it and take what it read.  *)
(***************************************************************************)
EXTENDS Naturals

CONSTANTS
  CacheLife,   \* TTL_MS
  LoadLife,    \* how long a load takes at most
  MaxSaves,    \* bound: saves
  MaxSeconds   \* bound: the clock

ASSUME CacheAssumption ==
  /\ CacheLife \in Nat /\ LoadLife \in Nat /\ MaxSaves \in Nat /\ MaxSeconds \in Nat

VARIABLES
  second,    \* the clock
  stored,    \* the version in the database
  replaced,  \* when each version was saved over
  entry,     \* what the cache holds, and since when
  load,      \* the load under way: since when, and the version once read
  promised   \* the version there was when the key was last forgotten with no
             \* load under way

cacheVars == <<second, stored, replaced, entry, load, promised>>

Versions == 0 .. MaxSaves
NoEntry == [has |-> FALSE, version |-> 0, readAt |-> 0]
NoLoad == [phase |-> "none", since |-> 0, version |-> 0]

CacheInit ==
  /\ second = 0 /\ stored = 0
  /\ replaced = [v \in Versions |-> 0]
  /\ entry = NoEntry /\ load = NoLoad /\ promised = 0
-----------------------------------------------------------------------------
(* Mutant: an entry is good for ever.                                      *)
FreshForEver == entry.has
StillFresh == entry.has /\ second < entry.readAt + CacheLife

CacheTick ==
  /\ second < MaxSeconds
  /\ load.phase # "none" => second < load.since + LoadLife
  /\ second' = second + 1
  /\ UNCHANGED <<stored, replaced, entry, load, promised>>

SaveReference ==
  /\ stored < MaxSaves
  /\ stored' = stored + 1
  /\ replaced' = [replaced EXCEPT ![stored] = second]
  /\ UNCHANGED <<second, entry, load, promised>>

(* cached, on a request that finds no fresh entry and nobody loading.      *)
BeginLoad ==
  /\ ~StillFresh /\ load.phase = "none"
  /\ load' = [phase |-> "asked", since |-> second, version |-> 0]
  /\ UNCHANGED <<second, stored, replaced, entry, promised>>

DatabaseReads ==
  /\ load.phase = "asked"
  /\ load' = [load EXCEPT !.phase = "read", !.version = stored]
  /\ UNCHANGED <<second, stored, replaced, entry, promised>>

(* The entry counts from now, not from when the database was read.         *)
LoadDone ==
  /\ load.phase = "read"
  /\ entry' = [has |-> TRUE, version |-> load.version, readAt |-> second]
  /\ load' = NoLoad
  /\ UNCHANGED <<second, stored, replaced, promised>>

LoadFails ==
  /\ load.phase # "none"
  /\ load' = NoLoad
  /\ UNCHANGED <<second, stored, replaced, entry, promised>>

(* Mutant: another key is dropped.                                         *)
ForgetAnother ==
  /\ promised' = IF load.phase = "none" THEN stored ELSE promised
  /\ UNCHANGED <<second, stored, replaced, entry, load>>

(* forget, by the screen that saved: what is loading goes on loading.      *)
Forget ==
  /\ entry' = NoEntry
  /\ promised' = IF load.phase = "none" THEN stored ELSE promised
  /\ UNCHANGED <<second, stored, replaced, load>>

CacheNext ==
  \/ CacheTick \/ SaveReference \/ Forget
  \/ BeginLoad \/ DatabaseReads \/ LoadDone \/ LoadFails

CacheSpec == CacheInit /\ [][CacheNext]_cacheVars
-----------------------------------------------------------------------------
CacheTypeOK ==
  /\ second \in 0 .. MaxSeconds /\ stored \in Versions /\ promised \in Versions
  /\ replaced \in [Versions -> Nat]
  /\ entry \in [has : BOOLEAN, version : Versions, readAt : Nat]
  /\ load \in [phase : {"none", "asked", "read"}, since : Nat, version : Versions]

(* How long ago a version was still what is stored.                        *)
CurrentWithin(v, age) == v = stored \/ second <= replaced[v] + age

(* Whatever a request is given was stored at most one life of the cache    *)
(* and one load ago, although an entry counts its life from the end of a   *)
(* load and not from the moment the database was read ("Thirty seconds of  *)
(* staleness").                                                            *)
StaleForSoLong ==
  /\ StillFresh => CurrentWithin(entry.version, CacheLife + LoadLife)
  /\ load.phase = "read" => CurrentWithin(load.version, LoadLife)

(* Once forgotten, with nobody loading, what was there before is not seen  *)
(* again by anybody ("an admin save that wants to see its own change       *)
(* immediately").                                                          *)
ForgottenStaysForgotten ==
  /\ StillFresh => entry.version >= promised
  /\ load.phase = "read" => load.version >= promised

(* What the cache (reference-cache.ts) promises about age: stale for so    *)
(* long, and not at all once forgotten with no load under way.             *)
AgeIsBounded == StaleForSoLong /\ ForgottenStaysForgotten
=============================================================================
