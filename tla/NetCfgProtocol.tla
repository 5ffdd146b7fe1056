--------------------------- MODULE NetCfgProtocol ---------------------------
(***************************************************************************)
(* What the per-VM VirtualMachineNetworkConfig (vmnetcfg) promises, as     *)
(* spec.md 3, 4.3 and 5 state it, with no caches, queues or retries: the   *)
(* object in the API server and the configs the allocation engine holds    *)
(* addresses for.                                                          *)
(*   - The VM Reconciler creates it with its condition unset, flips the    *)
(*     condition to False, and rewrites the spec only while it is False.   *)
(*   - The allocation engine allocates (only for the current spec unless   *)
(*     the object is out of sync), releases, and reports True: after       *)
(*     allocating the current spec, or after releasing an out-of-sync one. *)
(* No other write happens; the object is never deleted.                    *)
(***************************************************************************)
EXTENDS Sequences

CONSTANT Configs   \* the {MAC, network} pairs a spec may list

VARIABLES
    netcfg,   \* the vmnetcfg: exists, spec, InSynced condition
    held      \* the configs the engine holds addresses for

vars == <<netcfg, held>>

Entries(s) == {s[k] : k \in DOMAIN s}

Absent == [exists |-> FALSE, spec |-> <<>>, inSynced |-> "Unknown"]

Init ==
    /\ netcfg = Absent
    /\ held = {}

\* Absent -> Created: some spec, condition unset
Create ==
    /\ ~netcfg.exists
    /\ netcfg' \in [exists : {TRUE}, spec : Seq(Configs), inSynced : {"Unknown"}]
    /\ UNCHANGED held

\* Created or Synced -> OutOfSync: only the condition is written
Signal ==
    /\ netcfg.exists
    /\ netcfg' = [netcfg EXCEPT !.inSynced = "False"]
    /\ UNCHANGED held

\* the spec is rewritten while the object is out of sync, and stays so
Respec ==
    /\ netcfg.exists
    /\ netcfg.inSynced = "False"
    /\ netcfg'.spec \in Seq(Configs)
    /\ netcfg' = [netcfg EXCEPT !.spec = netcfg'.spec]
    /\ UNCHANGED held

\* the engine allocates for what it has seen; while the object is not out
\* of sync that is part of the current spec; when it reports True it holds
\* the whole current spec
Allocate ==
    /\ netcfg.exists
    /\ held \subseteq held'
    /\ held' \subseteq Configs
    /\ \/ /\ netcfg.inSynced # "False" => held' \subseteq held \cup Entries(netcfg.spec)
          /\ UNCHANGED netcfg
       \/ /\ netcfg.inSynced # "False"
          /\ held' = held \cup Entries(netcfg.spec)
          /\ netcfg' = [netcfg EXCEPT !.inSynced = "True"]

\* the engine releases everything; OutOfSync -> Synced once it has
Release ==
    /\ netcfg.exists
    /\ held' = {}
    /\ \/ UNCHANGED netcfg
       \/ /\ netcfg.inSynced = "False"
          /\ netcfg' = [netcfg EXCEPT !.inSynced = "True"]

Next == Create \/ Signal \/ Respec \/ Allocate \/ Release

Spec == Init /\ [][Next]_vars

-----------------------------------------------------------------------------
(* Properties *)

\* the object and the holdings are well formed
ProtocolTypeOK ==
    /\ netcfg \in [exists : BOOLEAN, spec : Seq(Configs),
                   inSynced : {"Unknown", "True", "False"}]
    /\ held \subseteq Configs

\* No allocate-before-deallocate, as the protocol guarantees it: while the
\* object is not out of sync the engine holds only configs of its spec.
Safe ==
    netcfg.exists /\ netcfg.inSynced # "False" => held \subseteq Entries(netcfg.spec)

=============================================================================
