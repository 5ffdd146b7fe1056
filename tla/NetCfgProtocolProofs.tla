------------------------ MODULE NetCfgProtocolProofs ------------------------
(***************************************************************************)
(* The two-phase protocol is safe by itself: whatever the configs, no      *)
(* behaviour of NetCfgProtocol allocates before it deallocates.  With      *)
(* VMControllerProofs!Refinement this gives the same guarantee for the VM  *)
(* controller from the protocol's argument alone.                          *)
(***************************************************************************)
EXTENDS NetCfgProtocol, TLAPS

\* the engine holds nothing before the object exists
NothingHeldBeforeCreate == ~netcfg.exists => held = {}

PInv == ProtocolTypeOK /\ NothingHeldBeforeCreate /\ Safe

LEMMA InitPInv == Init => PInv
BY DEF Init, PInv, ProtocolTypeOK, NothingHeldBeforeCreate, Safe, Absent

LEMMA NextPInv == PInv /\ [Next]_vars => PInv'
<1> SUFFICES ASSUME PInv, [Next]_vars PROVE PInv'
  OBVIOUS
<1>0. netcfg.spec \in Seq(Configs) /\ Entries(netcfg.spec) \subseteq Configs
  BY DEF PInv, ProtocolTypeOK, Entries
<1>1. CASE Create
  <2>1. held = {}
    BY <1>1 DEF Create, PInv, NothingHeldBeforeCreate
  <2>. QED
    BY <1>1, <2>1 DEF Create, PInv, ProtocolTypeOK, NothingHeldBeforeCreate, Safe
<1>2. CASE Signal
  BY <1>2 DEF Signal, PInv, ProtocolTypeOK, NothingHeldBeforeCreate, Safe
<1>3. CASE Respec
  BY <1>3 DEF Respec, PInv, ProtocolTypeOK, NothingHeldBeforeCreate, Safe
<1>4. CASE Allocate
  <2>1. CASE /\ netcfg.inSynced # "False" => held' \subseteq held \cup Entries(netcfg.spec)
             /\ UNCHANGED netcfg
    BY <1>4, <2>1 DEF Allocate, PInv, ProtocolTypeOK, NothingHeldBeforeCreate, Safe
  <2>2. CASE /\ netcfg.inSynced # "False"
             /\ held' = held \cup Entries(netcfg.spec)
             /\ netcfg' = [netcfg EXCEPT !.inSynced = "True"]
    <3>1. held \subseteq Entries(netcfg.spec)
      BY <1>4, <2>2 DEF Allocate, PInv, Safe
    <3>2. Entries(netcfg'.spec) = Entries(netcfg.spec) /\ netcfg'.exists
      BY <1>4, <2>2 DEF Allocate, PInv, ProtocolTypeOK
    <3>. QED
      BY <1>0, <1>4, <2>2, <3>1, <3>2 DEF Allocate, PInv, ProtocolTypeOK,
         NothingHeldBeforeCreate, Safe
  <2>. QED
    BY <1>4, <2>1, <2>2 DEF Allocate
<1>5. CASE Release
  BY <1>5 DEF Release, PInv, ProtocolTypeOK, NothingHeldBeforeCreate, Safe
<1>6. CASE UNCHANGED vars
  BY <1>6 DEF vars, PInv, ProtocolTypeOK, NothingHeldBeforeCreate, Safe
<1>. QED
  BY <1>1, <1>2, <1>3, <1>4, <1>5, <1>6 DEF Next

\* No allocate-before-deallocate follows from the protocol alone (Safe):
\* a spec is rewritten only under False, the engine allocates outside the
\* current spec only under False, and reports True only after allocating
\* the current spec or releasing everything.
THEOREM ProtocolSafety == Spec => []Safe
<1>1. Spec => []PInv
  BY InitPInv, NextPInv, PTL DEF Spec
<1>. QED
  BY <1>1, PTL DEF PInv

=============================================================================
