---------------------------- MODULE ResolverLookup ----------------------------
(***************************************************************************)
(* GetIPPoolFromNetworkName as the two cache reads it makes: the NAD Get   *)
(* and, once the NAD's labels pass their checks, the IPPool Get.  NADs     *)
(* and IPPools are created, relabelled and deleted between the two reads   *)
(* (the NAD and IPPool informers deliver independently).                   *)
(*                                                                         *)
(* answers is a history variable: the answer an atomic lookup would give   *)
(* at each instant from the NAD read to the IPPool read.                   *)
(***************************************************************************)
EXTENDS Resolver

VARIABLES
    phase,    \* "idle", "nad" (between the two reads) or "done"
    nadSeen,  \* the NAD the first read returned
    answer,   \* the result of the lookup once it is done
    answers   \* the atomic answers at the instants the lookup spans

lvars == <<vars, phase, nadSeen, answer, answers>>

\* what an atomic lookup of the current request would return now
AtomicAnswer(cache, poolCache) == GetIPPoolFromNetworkName(cache, poolCache, name, fallback)

LInit ==
    /\ Init
    /\ phase = "idle"
    /\ nadSeen = NoNAD
    /\ answer = Failure("NADNotFound")
    /\ answers = {}

\* a caller starts resolving n: RSplit, the fallback and nadCache.Get, then
\* the label checks, which return early on the first that fails
ReadNAD(n, fb) ==
    LET nad == NadAt(nads, NadKey(n, fb)) IN
    /\ phase # "nad"
    /\ Lookup(n, fb)
    /\ nadSeen' = nad
    /\ answers' = {GetIPPoolFromNetworkName(nads, pools, n, fb)}
    /\ \/ /\ NadFailure(nad) # "none"
          /\ answer' = Failure(NadFailure(nad))
          /\ phase' = "done"
       \/ /\ NadFailure(nad) = "none"
          /\ phase' = "nad"
          /\ UNCHANGED answer

\* ippoolCache.Get of the IPPool the labels read first name
ReadPool ==
    /\ phase = "nad"
    /\ answer' = PoolLookup(pools, nadSeen)
    /\ phase' = "done"
    /\ UNCHANGED <<vars, nadSeen, answers>>

\* a change to the NAD cache, recorded while a lookup is between its reads
LNADChange(k, st) ==
    /\ NADChange(k, st)
    /\ answers' = IF phase = "nad" THEN answers \cup {AtomicAnswer(nads', pools)}
                  ELSE answers
    /\ UNCHANGED <<phase, nadSeen, answer>>

\* a change to the IPPool cache, recorded in the same way
LPoolChange(p) ==
    /\ PoolChange(p)
    /\ answers' = IF phase = "nad" THEN answers \cup {AtomicAnswer(nads, pools')}
                  ELSE answers
    /\ UNCHANGED <<phase, nadSeen, answer>>

LNext ==
    \/ \E n \in Str(MaxLen), fb \in Namespaces : ReadNAD(n, fb)
    \/ ReadPool
    \/ \E k \in NadKeys, st \in NadStates : LNADChange(k, st)
    \/ \E p \in PoolKeys : LPoolChange(p)

LSpec == LInit /\ [][LNext]_lvars

-----------------------------------------------------------------------------
(* Properties *)

=============================================================================
