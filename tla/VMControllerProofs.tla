------------------------- MODULE VMControllerProofs -------------------------
(***************************************************************************)
(* Proofs about VMController for every value of the constants: type        *)
(* correctness, no allocate-before-deallocate, and that the vmnetcfg's     *)
(* spec changes only while it is marked out of sync.  Both safety results *)
(* rest on one inductive invariant, IInv, which says how the shared cache, *)
(* the API server's copy and the engine's allocations relate.             *)
(***************************************************************************)
EXTENDS VMController, FiniteSetTheorems, TLAPS

-----------------------------------------------------------------------------
(* Lemmas about the handler's derivations *)

\* the annotation step keeps the VM well typed
LEMMA AnnotatedVMType ==
    ASSUME NEW v \in VMType
    PROVE  AnnotatedVM(v) \in VMType
BY DEF AnnotatedVM, VMType

\* every list prepareVmNetCfg can build is a list of NetworkConfigs
LEMMA PreparedSpecsType ==
    ASSUME NEW v \in VMType, NEW K \in SUBSET Complete(v)
    PROVE  PreparedSpecs(v, K) \subseteq Seq(NetworkConfig)
<1>1. IsFiniteSet(K) /\ Cardinality(K) \in Nat
  <2>1. K \in SUBSET Ifaces
    BY DEF Complete
  <2>2. IsFiniteSet(K)
    BY <2>1, ConstAssumption, FS_Subset
  <2>. QED
    BY <2>2, FS_CardinalityType
<1>2. \A i \in K : Config(v, i) \in NetworkConfig
  BY ConstAssumption DEF Complete, Config, NetworkConfig, VMType
<1>. QED
  BY <1>1, <1>2 DEF PreparedSpecs, Orders

-----------------------------------------------------------------------------
(* The inductive invariant *)

\* a cache that holds the latest resourceVersion is the store's object
FreshCache == fresh => cache = store

\* the cache never shows a vmnetcfg the API server does not have
CacheBehind == cache.exists => store.exists

\* the engine holds nothing before the vmnetcfg exists
NothingHeldEarly == ~store.exists => held = {}

\* while neither the cache nor the API server shows the vmnetcfg out of
\* sync, both show the same spec: the spec only changes under False
CacheAgrees ==
    cache.exists /\ cache.inSynced # "False" /\ store.inSynced # "False"
        => cache.spec = store.spec

IInv ==
    /\ TypeOK
    /\ FreshCache
    /\ CacheBehind
    /\ NothingHeldEarly
    /\ CacheAgrees
    /\ NoAllocateBeforeDeallocate

USE ConstAssumption

LEMMA InitIInv == Init => IInv
BY DEF Init, IInv, TypeOK, FreshCache, CacheBehind, NothingHeldEarly,
       CacheAgrees, NoAllocateBeforeDeallocate, Absent, NetCfgType, VMType, Condition

\* a step that leaves the vmnetcfg, the cache and the allocations alone and
\* keeps the other variables in their types preserves IInv
LEMMA FrameIInv ==
    ASSUME IInv, UNCHANGED <<store, cache, fresh, held>>,
           vm' \in VMType, queued' \in BOOLEAN, resolvable' \subseteq Nets,
           ctlView' \subseteq Nets, whView' \subseteq Nets,
           events' \in 0..MaxEvents, failures' \in 0..MaxFailures
    PROVE  IInv'
BY DEF IInv, TypeOK, FreshCache, CacheBehind, NothingHeldEarly, CacheAgrees,
       NoAllocateBeforeDeallocate

\* the hypotheses shared by every outcome of a pass
Pass(v, r) ==
    /\ IInv /\ v \in VMType /\ r \in BOOLEAN
    /\ vm' \in VMType /\ failures' \in 0..MaxFailures
    /\ UNCHANGED <<cache, held, resolvable, ctlView, whView, events>>

\* an outcome that writes nothing
LEMMA NoWriteIInv ==
    ASSUME NEW v, NEW r, Pass(v, r), Finish(r) \/ Fail
    PROVE  IInv'
BY FrameIInv DEF Pass, Finish, Fail, IInv, TypeOK

\* the vmnetcfg is created with the spec d and no condition
LEMMA CreateIInv ==
    ASSUME NEW v, NEW r, Pass(v, r), NEW d \in Seq(NetworkConfig),
           ~cache.exists, ~store.exists,
           Persist([exists |-> TRUE, spec |-> d, inSynced |-> "Unknown"], r)
    PROVE  IInv'
<1>1. held = {}
  BY DEF Pass, IInv, NothingHeldEarly
<1>2. store' \in NetCfgType /\ store'.exists /\ queued' \in BOOLEAN
  BY DEF Persist, Pass, NetCfgType, Condition
<1>3. TypeOK'
  BY <1>2 DEF Pass, Persist, IInv, TypeOK
<1>. QED
  BY <1>1, <1>2, <1>3 DEF Pass, Persist, IInv, FreshCache, CacheBehind,
     NothingHeldEarly, CacheAgrees, NoAllocateBeforeDeallocate

\* the spec of a vmnetcfg the cache shows out of sync is overwritten
LEMMA UpdateSpecIInv ==
    ASSUME NEW v, NEW r, Pass(v, r), NEW d \in Seq(NetworkConfig),
           cache.exists, cache.inSynced = "False", fresh,
           Persist([store EXCEPT !.spec = d], r)
    PROVE  IInv'
<1>1. store = cache /\ store \in NetCfgType
  BY DEF Pass, IInv, FreshCache, TypeOK
<1>2. store' \in NetCfgType /\ store'.exists /\ store'.inSynced = "False"
      /\ queued' \in BOOLEAN
  BY <1>1 DEF Persist, Pass, NetCfgType
<1>3. TypeOK'
  BY <1>2 DEF Pass, Persist, IInv, TypeOK
<1>. QED
  BY <1>2, <1>3 DEF Pass, Persist, IInv, FreshCache, CacheBehind,
     NothingHeldEarly, CacheAgrees, NoAllocateBeforeDeallocate

\* the InSynced condition is set to False
LEMMA MarkIInv ==
    ASSUME NEW v, NEW r, Pass(v, r), cache.exists, fresh,
           Persist([store EXCEPT !.inSynced = "False"], TRUE)
    PROVE  IInv'
<1>1. store = cache /\ store \in NetCfgType
  BY DEF Pass, IInv, FreshCache, TypeOK
<1>2. store' \in NetCfgType /\ store'.exists /\ store'.inSynced = "False"
      /\ queued' \in BOOLEAN
  BY <1>1 DEF Persist, Pass, NetCfgType, Condition
<1>3. TypeOK'
  BY <1>2 DEF Pass, Persist, IInv, TypeOK
<1>. QED
  BY <1>2, <1>3 DEF Pass, Persist, IInv, FreshCache, CacheBehind,
     NothingHeldEarly, CacheAgrees, NoAllocateBeforeDeallocate

\* one pass of the handler from ncm on, for a well-typed VM v, preserves IInv
LEMMA SyncIInv ==
    ASSUME NEW v, NEW r, Pass(v, r), SyncNetCfg(v, r)
    PROVE  IInv'
<1> DEFINE K == Managed(v, ctlView)
<1>1. K \in SUBSET Complete(v) /\ v \in VMType
  BY DEF Managed, HasIPPoolFilter, Pass
<1>2. CASE K = {} /\ Finish(r)
  BY <1>2, NoWriteIInv
<1>3. CASE K # {} /\ \E d \in PreparedSpecs(v, K) :
            \/ ~cache.exists /\ CreateNetCfg(d, r)
            \/ cache.exists /\ cache.spec = d /\ Finish(r)
            \/ /\ cache.exists /\ cache.spec # d /\ cache.inSynced = "False"
               /\ UpdateSpec(d, r)
            \/ /\ cache.exists /\ cache.spec # d /\ cache.inSynced # "False"
               /\ MarkOutOfSync
  <2>1. PICK d \in PreparedSpecs(v, K) :
            \/ ~cache.exists /\ CreateNetCfg(d, r)
            \/ cache.exists /\ cache.spec = d /\ Finish(r)
            \/ /\ cache.exists /\ cache.spec # d /\ cache.inSynced = "False"
               /\ UpdateSpec(d, r)
            \/ /\ cache.exists /\ cache.spec # d /\ cache.inSynced # "False"
               /\ MarkOutOfSync
    BY <1>3
  <2>2. d \in Seq(NetworkConfig)
    BY <1>1, PreparedSpecsType
  <2>3. CASE ~cache.exists /\ CreateNetCfg(d, r)
    BY <2>2, <2>3, NoWriteIInv, CreateIInv DEF CreateNetCfg
  <2>4. CASE cache.exists /\ cache.spec = d /\ Finish(r)
    BY <2>4, NoWriteIInv
  <2>5. CASE cache.exists /\ cache.spec # d /\ cache.inSynced = "False"
             /\ UpdateSpec(d, r)
    BY <2>2, <2>5, NoWriteIInv, UpdateSpecIInv DEF UpdateSpec
  <2>6. CASE cache.exists /\ cache.spec # d /\ cache.inSynced # "False"
             /\ MarkOutOfSync
    BY <2>6, NoWriteIInv, MarkIInv DEF MarkOutOfSync
  <2>. QED
    BY <2>1, <2>3, <2>4, <2>5, <2>6
<1>. QED
  BY <1>2, <1>3 DEF SyncNetCfg

\* a step of the allocation engine: held grows by configs of the cache's
\* spec when neither copy is out of sync, or is emptied
LEMMA EngineIInv ==
    ASSUME IInv, EngineAllocate \/ EngineRelease
    PROVE  IInv'
<1>1. Entries(cache.spec) \subseteq NetworkConfig
  BY DEF IInv, TypeOK, NetCfgType, Entries
<1>2. UNCHANGED <<vm, queued, cache, resolvable, ctlView, whView, events, failures>>
  BY DEF EngineAllocate, EngineRelease
<1>3. held' \subseteq NetworkConfig
  BY <1>1 DEF EngineAllocate, EngineRelease, IInv, TypeOK
<1>4. \/ fresh /\ store' = [store EXCEPT !.inSynced = "True"] /\ fresh' = FALSE
      \/ ~fresh /\ UNCHANGED <<store, fresh>>
  BY DEF EngineAllocate, EngineRelease, StatusWrite
<1>5. store' \in NetCfgType /\ (store'.exists <=> store.exists)
      /\ store'.spec = store.spec
  BY <1>4 DEF IInv, TypeOK, NetCfgType, Condition
<1>6. TypeOK'
  BY <1>2, <1>3, <1>4, <1>5 DEF IInv, TypeOK
<1>7. CacheAgrees'
  <2>1. CASE fresh /\ store' = [store EXCEPT !.inSynced = "True"] /\ fresh' = FALSE
    BY <1>2, <1>5, <2>1 DEF IInv, CacheAgrees, FreshCache
  <2>2. CASE ~fresh /\ UNCHANGED <<store, fresh>>
    BY <1>2, <2>2 DEF IInv, CacheAgrees
  <2>. QED
    BY <1>4, <2>1, <2>2
<1>8. NoAllocateBeforeDeallocate'
  <2>1. CASE EngineRelease
    BY <2>1 DEF EngineRelease, NoAllocateBeforeDeallocate
  <2>2. CASE EngineAllocate /\ store'.inSynced # "False" /\ store'.exists
    <3>1. store.inSynced # "False"
      BY <1>4, <2>2 DEF EngineAllocate, IInv, FreshCache
    <3>2. cache.spec = store.spec
      BY <2>2, <3>1 DEF EngineAllocate, IInv, CacheAgrees
    <3>. QED
      BY <1>5, <2>2, <3>1, <3>2 DEF EngineAllocate, IInv,
         NoAllocateBeforeDeallocate
  <2>. QED
    BY <2>1, <2>2 DEF NoAllocateBeforeDeallocate
<1>. QED
  BY <1>2, <1>4, <1>5, <1>6, <1>7, <1>8 DEF EngineAllocate, EngineRelease,
     IInv, FreshCache, CacheBehind, NothingHeldEarly

LEMMA NextIInv == IInv /\ [Next]_vars => IInv'
<1> SUFFICES ASSUME IInv, [Next]_vars PROVE IInv'
  OBVIOUS
<1>0. vm \in VMType /\ failures \in 0..MaxFailures /\ events \in 0..MaxEvents
      /\ resolvable \subseteq Nets /\ ctlView \subseteq Nets /\ whView \subseteq Nets
  BY DEF IInv, TypeOK
<1>1. CASE Reconcile
  <2>1. UNCHANGED <<cache, held, resolvable, ctlView, whView, events>>
    BY <1>1 DEF Reconcile
  <2>2. CASE vm.deleted /\ Finish(FALSE) /\ UNCHANGED <<vm, failures>>
    BY <1>0, <2>1, <2>2, NoWriteIInv DEF Pass
  <2>3. CASE ~vm.deleted /\ ~MacAnnotationApplies(vm)
             /\ SyncNetCfg(vm, FALSE) /\ UNCHANGED <<vm, failures>>
    BY <1>0, <2>1, <2>3, SyncIInv DEF Pass
  <2>4. CASE ~vm.deleted /\ MacAnnotationApplies(vm) /\ VMUpdateFails
    <3>1. failures' \in 0..MaxFailures /\ Fail /\ UNCHANGED vm
      BY <1>0, <2>4 DEF VMUpdateFails
    <3>. QED
      BY <1>0, <2>1, <3>1, NoWriteIInv DEF Pass
  <2>5. CASE /\ ~vm.deleted /\ MacAnnotationApplies(vm)
             /\ vm' = AnnotatedVM(vm)
             /\ SyncNetCfg(AnnotatedVM(vm), TRUE) /\ UNCHANGED failures
    BY <1>0, <2>1, <2>5, AnnotatedVMType, SyncIInv DEF Pass
  <2>. QED
    BY <1>1, <2>2, <2>3, <2>4, <2>5 DEF Reconcile
<1>2. CASE CacheSync
  BY <1>2 DEF CacheSync, IInv, TypeOK, FreshCache, CacheBehind, NothingHeldEarly,
     CacheAgrees, NoAllocateBeforeDeallocate
<1>3. CASE EngineAllocate \/ EngineRelease
  BY <1>3, EngineIInv
<1>4. CASE \E i \in Ifaces, m \in Macs \cup {NoMac}, n \in Nets \cup {NoNet} :
             EditInterface(i, m, n)
  <2>1. PICK i \in Ifaces, m \in Macs \cup {NoMac}, n \in Nets \cup {NoNet} :
             EditInterface(i, m, n)
    BY <1>4
  <2>2. vm' = [mac |-> [vm.mac EXCEPT ![i] = m], net |-> [vm.net EXCEPT ![i] = n],
               ann |-> vm.ann, deleted |-> vm.deleted]
    BY <1>0, <2>1 DEF EditInterface, VMType
  <2>3. vm' \in VMType
    BY <1>0, <2>2 DEF VMType
  <2>. QED
    BY <1>0, <2>1, <2>3, FrameIInv DEF EditInterface
<1>5. CASE \E i \in Ifaces, m \in Macs \cup {NoMac} : Annotate(i, m)
  <2>1. PICK i \in Ifaces, m \in Macs \cup {NoMac} : Annotate(i, m)
    BY <1>5
  <2>2. vm' = [mac |-> vm.mac, net |-> vm.net, ann |-> [vm.ann EXCEPT ![i] = m],
               deleted |-> vm.deleted]
    BY <1>0, <2>1 DEF Annotate, VMType
  <2>3. vm' \in VMType
    BY <1>0, <2>2 DEF VMType
  <2>. QED
    BY <1>0, <2>1, <2>3, FrameIInv DEF Annotate
<1>6. CASE DeleteVM
  <2>0. vm' = [mac |-> vm.mac, net |-> vm.net, ann |-> vm.ann, deleted |-> TRUE]
    BY <1>0, <1>6 DEF DeleteVM, VMType
  <2>1. vm' \in VMType
    BY <1>0, <2>0 DEF VMType
  <2>. QED
    BY <1>0, <1>6, <2>1, FrameIInv DEF DeleteVM
<1>7. CASE \E n \in Nets : NetworkChange(n)
  <2>1. PICK n \in Nets : NetworkChange(n)
    BY <1>7
  <2>2. resolvable' \subseteq Nets /\ events' \in 0..MaxEvents
    BY <1>0, <2>1 DEF NetworkChange
  <2>. QED
    BY <1>0, <2>1, <2>2, FrameIInv DEF NetworkChange, IInv, TypeOK
<1>8. CASE CtlSync \/ WhSync \/ Resync
  BY <1>0, <1>8, FrameIInv DEF CtlSync, WhSync, Resync, IInv, TypeOK
<1>9. CASE UNCHANGED vars
  BY <1>9 DEF vars, IInv, TypeOK, FreshCache, CacheBehind, NothingHeldEarly,
     CacheAgrees, NoAllocateBeforeDeallocate
<1>. QED
  BY <1>1, <1>2, <1>3, <1>4, <1>5, <1>6, <1>7, <1>8, <1>9 DEF Next

\* IInv holds in every reachable state
THEOREM IInvInvariant == Spec => []IInv
BY InitIInv, NextIInv, PTL DEF Spec

\* The model is well typed: every variable stays in its type (TypeOK).
THEOREM TypeCorrect == Spec => []TypeOK
BY IInvInvariant, PTL DEF IInv

\* No allocate-before-deallocate, for every set of interfaces, MACs and
\* networks and every bound: while the vmnetcfg is not out of sync, the
\* engine holds addresses only for configs of its current spec.
THEOREM AllocationSafety == Spec => []NoAllocateBeforeDeallocate
BY IInvInvariant, PTL DEF IInv

\* the step that SignalPrecedesSpecChange constrains
SignalStep ==
    store.exists /\ store'.spec # store.spec =>
        store.inSynced = "False" /\ store'.inSynced = "False"

\* a pass writes a new spec only over a vmnetcfg that is already out of sync
LEMMA SyncSignal ==
    ASSUME NEW v, NEW r, Pass(v, r), SyncNetCfg(v, r)
    PROVE  SignalStep
<1> DEFINE K == Managed(v, ctlView)
<1>1. store \in NetCfgType
  BY DEF Pass, IInv, TypeOK
<1>2. CASE K = {} /\ Finish(r)
  BY <1>2 DEF Finish, SignalStep
<1>3. CASE K # {} /\ \E d \in PreparedSpecs(v, K) :
            \/ ~cache.exists /\ CreateNetCfg(d, r)
            \/ cache.exists /\ cache.spec = d /\ Finish(r)
            \/ /\ cache.exists /\ cache.spec # d /\ cache.inSynced = "False"
               /\ UpdateSpec(d, r)
            \/ /\ cache.exists /\ cache.spec # d /\ cache.inSynced # "False"
               /\ MarkOutOfSync
  <2>1. PICK d \in PreparedSpecs(v, K) :
            \/ ~cache.exists /\ CreateNetCfg(d, r)
            \/ cache.exists /\ cache.spec = d /\ Finish(r)
            \/ /\ cache.exists /\ cache.spec # d /\ cache.inSynced = "False"
               /\ UpdateSpec(d, r)
            \/ /\ cache.exists /\ cache.spec # d /\ cache.inSynced # "False"
               /\ MarkOutOfSync
    BY <1>3
  <2>2. CASE ~cache.exists /\ CreateNetCfg(d, r)
    BY <2>2 DEF CreateNetCfg, Fail, Persist, SignalStep
  <2>3. CASE cache.exists /\ cache.spec = d /\ Finish(r)
    BY <2>3 DEF Finish, SignalStep
  <2>4. CASE cache.exists /\ cache.spec # d /\ cache.inSynced = "False"
             /\ UpdateSpec(d, r)
    <3>1. CASE fresh /\ Persist([store EXCEPT !.spec = d], r)
      <4>1. store = cache
        BY <3>1 DEF Pass, IInv, FreshCache
      <4>. QED
        BY <1>1, <2>4, <3>1, <4>1 DEF Persist, NetCfgType, SignalStep
    <3>2. CASE ~fresh /\ Fail
      BY <3>2 DEF Fail, SignalStep
    <3>. QED
      BY <2>4, <3>1, <3>2 DEF UpdateSpec
  <2>5. CASE cache.exists /\ cache.spec # d /\ cache.inSynced # "False"
             /\ MarkOutOfSync
    BY <1>1, <2>5 DEF MarkOutOfSync, Persist, Fail, NetCfgType, SignalStep
  <2>. QED
    BY <2>1, <2>2, <2>3, <2>4, <2>5
<1>. QED
  BY <1>2, <1>3 DEF SyncNetCfg

\* no other step of the system changes the spec at all
LEMMA NextSignal == IInv /\ [Next]_vars => [SignalStep]_vars
<1> SUFFICES ASSUME IInv, [Next]_vars PROVE SignalStep
  OBVIOUS
<1>0. vm \in VMType /\ failures \in 0..MaxFailures /\ store \in NetCfgType
  BY DEF IInv, TypeOK
<1>1. CASE Reconcile
  <2>1. UNCHANGED <<cache, held, resolvable, ctlView, whView, events>>
    BY <1>1 DEF Reconcile
  <2>2. CASE vm.deleted /\ Finish(FALSE) /\ UNCHANGED <<vm, failures>>
    BY <2>2 DEF Finish, SignalStep
  <2>3. CASE ~vm.deleted /\ ~MacAnnotationApplies(vm)
             /\ SyncNetCfg(vm, FALSE) /\ UNCHANGED <<vm, failures>>
    BY <1>0, <2>1, <2>3, SyncSignal DEF Pass
  <2>4. CASE ~vm.deleted /\ MacAnnotationApplies(vm) /\ VMUpdateFails
    BY <2>4 DEF VMUpdateFails, Fail, SignalStep
  <2>5. CASE /\ ~vm.deleted /\ MacAnnotationApplies(vm)
             /\ vm' = AnnotatedVM(vm)
             /\ SyncNetCfg(AnnotatedVM(vm), TRUE) /\ UNCHANGED failures
    BY <1>0, <2>1, <2>5, AnnotatedVMType, SyncSignal DEF Pass
  <2>. QED
    BY <1>1, <2>2, <2>3, <2>4, <2>5 DEF Reconcile
<1>2. CASE EngineAllocate \/ EngineRelease
  <2>1. store' = [store EXCEPT !.inSynced = "True"] \/ store' = store
    BY <1>2 DEF EngineAllocate, EngineRelease, StatusWrite
  <2>. QED
    BY <1>0, <2>1 DEF NetCfgType, SignalStep
<1>3. CASE ~Reconcile /\ ~EngineAllocate /\ ~EngineRelease
  <2>1. UNCHANGED store
    BY <1>3 DEF Next, vars, CacheSync, EditInterface, Annotate, DeleteVM,
       NetworkChange, CtlSync, WhSync, Resync
  <2>. QED
    BY <2>1 DEF SignalStep
<1>. QED
  BY <1>1, <1>2, <1>3

\* The out-of-sync signal precedes the new data, for every set of
\* interfaces, MACs and networks: a pass of the VM controller replaces the
\* spec of a vmnetcfg only when InSynced is already False in the API server
\* (SignalPrecedesSpecChange).
THEOREM SignalPrecedes == Spec => SignalPrecedesSpecChange
BY IInvInvariant, NextSignal, PTL DEF Spec, SignalPrecedesSpecChange, SignalStep

-----------------------------------------------------------------------------
(* Refinement of the two-phase protocol *)

\* a pass of the handler is a step of the protocol on the API server's copy
LEMMA SyncRefines ==
    ASSUME NEW v, NEW r, Pass(v, r), SyncNetCfg(v, r)
    PROVE  [Protocol!Next]_<<store, held>>
<1> DEFINE K == Managed(v, ctlView)
<1>0. store \in NetCfgType /\ UNCHANGED held
  BY DEF Pass, IInv, TypeOK
<1>1. K \in SUBSET Complete(v) /\ v \in VMType
  BY DEF Managed, HasIPPoolFilter, Pass
<1>2. CASE K = {} /\ Finish(r)
  BY <1>0, <1>2 DEF Finish
<1>3. CASE K # {} /\ \E d \in PreparedSpecs(v, K) :
            \/ ~cache.exists /\ CreateNetCfg(d, r)
            \/ cache.exists /\ cache.spec = d /\ Finish(r)
            \/ /\ cache.exists /\ cache.spec # d /\ cache.inSynced = "False"
               /\ UpdateSpec(d, r)
            \/ /\ cache.exists /\ cache.spec # d /\ cache.inSynced # "False"
               /\ MarkOutOfSync
  <2>1. PICK d \in PreparedSpecs(v, K) :
            \/ ~cache.exists /\ CreateNetCfg(d, r)
            \/ cache.exists /\ cache.spec = d /\ Finish(r)
            \/ /\ cache.exists /\ cache.spec # d /\ cache.inSynced = "False"
               /\ UpdateSpec(d, r)
            \/ /\ cache.exists /\ cache.spec # d /\ cache.inSynced # "False"
               /\ MarkOutOfSync
    BY <1>3
  <2>2. d \in Seq(NetworkConfig)
    BY <1>1, PreparedSpecsType
  <2>3. CASE ~cache.exists /\ CreateNetCfg(d, r)
    <3>1. CASE Fail
      BY <1>0, <3>1 DEF Fail
    <3>2. CASE /\ ~store.exists
               /\ Persist([exists |-> TRUE, spec |-> d, inSynced |-> "Unknown"], r)
      <4>1. Protocol!Create
        BY <1>0, <2>2, <3>2 DEF Persist, Protocol!Create
      <4>. QED
        BY <4>1 DEF Protocol!Next
    <3>. QED
      BY <2>3, <3>1, <3>2 DEF CreateNetCfg
  <2>4. CASE cache.exists /\ cache.spec = d /\ Finish(r)
    BY <1>0, <2>4 DEF Finish
  <2>5. CASE cache.exists /\ cache.spec # d /\ cache.inSynced = "False"
             /\ UpdateSpec(d, r)
    <3>1. CASE fresh /\ Persist([store EXCEPT !.spec = d], r)
      <4>1. store = cache
        BY <3>1 DEF Pass, IInv, FreshCache
      <4>2. Protocol!Respec
        BY <1>0, <2>2, <2>5, <3>1, <4>1 DEF Persist, NetCfgType, Protocol!Respec
      <4>. QED
        BY <4>2 DEF Protocol!Next
    <3>2. CASE ~fresh /\ Fail
      BY <1>0, <3>2 DEF Fail
    <3>. QED
      BY <2>5, <3>1, <3>2 DEF UpdateSpec
  <2>6. CASE cache.exists /\ cache.spec # d /\ cache.inSynced # "False"
             /\ MarkOutOfSync
    <3>1. CASE fresh /\ Persist([store EXCEPT !.inSynced = "False"], TRUE)
      <4>1. store.exists
        BY <2>6 DEF Pass, IInv, CacheBehind
      <4>2. Protocol!Signal
        BY <1>0, <3>1, <4>1 DEF Persist, Protocol!Signal
      <4>. QED
        BY <4>2 DEF Protocol!Next
    <3>2. CASE ~fresh /\ Fail
      BY <1>0, <3>2 DEF Fail
    <3>. QED
      BY <2>6, <3>1, <3>2, Zenon DEF MarkOutOfSync
  <2>. QED
    BY <2>1, <2>3, <2>4, <2>5, <2>6
<1>. QED
  BY <1>2, <1>3 DEF SyncNetCfg

\* an allocation of the engine is an allocation of the protocol: from a
\* fresh cache it covers the current spec and reports True; from a stale one
\* it adds the cache's spec, which is the current one unless either copy is
\* out of sync
LEMMA AllocateRefines ==
    ASSUME IInv, EngineAllocate
    PROVE  [Protocol!Next]_<<store, held>>
<1>1. store \in NetCfgType /\ cache \in NetCfgType /\ held \subseteq NetworkConfig
  BY DEF IInv, TypeOK
<1>2. store.exists /\ cache.inSynced # "False"
  BY DEF EngineAllocate, IInv, CacheBehind
<1>3. held' = held \cup Entries(cache.spec) /\ Entries(cache.spec) \subseteq NetworkConfig
  BY <1>1 DEF EngineAllocate, NetCfgType, Entries
<1>4. CASE fresh /\ store' = [store EXCEPT !.inSynced = "True"] /\ fresh' = FALSE
  <2>1. cache = store
    BY <1>4 DEF IInv, FreshCache
  <2>2. Protocol!Allocate
    BY <1>1, <1>2, <1>3, <1>4, <2>1 DEF Protocol!Allocate, Protocol!Entries, Entries
  <2>. QED
    BY <2>2 DEF Protocol!Next
<1>5. CASE ~fresh /\ UNCHANGED <<store, fresh>>
  <2>1. store.inSynced # "False" => cache.spec = store.spec
    BY <1>2 DEF EngineAllocate, IInv, CacheAgrees
  <2>2. Protocol!Allocate
    BY <1>1, <1>2, <1>3, <1>5, <2>1 DEF Protocol!Allocate, Protocol!Entries, Entries
  <2>. QED
    BY <2>2 DEF Protocol!Next
<1>. QED
  BY <1>4, <1>5, Zenon DEF EngineAllocate, StatusWrite

\* a release of the engine is a release of the protocol; from a fresh cache
\* it reports an out-of-sync vmnetcfg True
LEMMA ReleaseRefines ==
    ASSUME IInv, EngineRelease
    PROVE  [Protocol!Next]_<<store, held>>
<1>1. store.exists /\ held' = {}
  BY DEF EngineRelease, IInv, CacheBehind
<1>2. CASE fresh /\ store' = [store EXCEPT !.inSynced = "True"] /\ fresh' = FALSE
  <2>1. store.inSynced = "False"
    BY <1>2 DEF EngineRelease, IInv, FreshCache
  <2>. QED
    BY <1>1, <1>2, <2>1 DEF Protocol!Release, Protocol!Next
<1>3. CASE ~fresh /\ UNCHANGED <<store, fresh>>
  BY <1>1, <1>3 DEF Protocol!Release, Protocol!Next
<1>. QED
  BY <1>2, <1>3, Zenon DEF EngineRelease, StatusWrite

\* every step of the system is a step of the protocol or leaves the
\* API server's copy and the holdings alone
LEMMA NextRefines == IInv /\ [Next]_vars => [Protocol!Next]_<<store, held>>
<1> SUFFICES ASSUME IInv, [Next]_vars PROVE [Protocol!Next]_<<store, held>>
  OBVIOUS
<1>0. vm \in VMType /\ failures \in 0..MaxFailures
  BY DEF IInv, TypeOK
<1>1. CASE Reconcile
  <2>1. UNCHANGED <<cache, held, resolvable, ctlView, whView, events>>
    BY <1>1 DEF Reconcile
  <2>2. CASE vm.deleted /\ Finish(FALSE) /\ UNCHANGED <<vm, failures>>
    BY <2>1, <2>2 DEF Finish
  <2>3. CASE ~vm.deleted /\ ~MacAnnotationApplies(vm)
             /\ SyncNetCfg(vm, FALSE) /\ UNCHANGED <<vm, failures>>
    BY <1>0, <2>1, <2>3, SyncRefines, Zenon DEF Pass
  <2>4. CASE ~vm.deleted /\ MacAnnotationApplies(vm) /\ VMUpdateFails
    BY <2>1, <2>4 DEF VMUpdateFails, Fail
  <2>5. CASE /\ ~vm.deleted /\ MacAnnotationApplies(vm)
             /\ vm' = AnnotatedVM(vm)
             /\ SyncNetCfg(AnnotatedVM(vm), TRUE) /\ UNCHANGED failures
    BY <1>0, <2>1, <2>5, AnnotatedVMType, SyncRefines, Zenon DEF Pass
  <2>. QED
    BY <1>1, <2>2, <2>3, <2>4, <2>5, Zenon DEF Reconcile
<1>2. CASE EngineAllocate
  BY <1>2, AllocateRefines
<1>3. CASE EngineRelease
  BY <1>3, ReleaseRefines
<1>4. CASE ~Reconcile /\ ~EngineAllocate /\ ~EngineRelease
  <2>1. UNCHANGED <<store, held>>
    BY <1>4, Zenon DEF Next, vars, CacheSync, EditInterface, Annotate, DeleteVM,
       NetworkChange, CtlSync, WhSync, Resync
  <2>. QED
    BY <2>1
<1>. QED
  BY <1>1, <1>2, <1>3, <1>4

\* The VM controller and the engine implement the two-phase protocol
\* (ProtocolRefinement), for every set of interfaces, MACs and networks and
\* every bound: with the API server's vmnetcfg as the protocol's object,
\* every pass of OnChange, on whatever stale cache and whatever Conflict,
\* and every engine step is a protocol step or changes neither the object
\* nor the holdings.
THEOREM Refinement == Spec => ProtocolRefinement
<1>1. Init => Protocol!Init
  BY DEF Init, Protocol!Init, Absent, Protocol!Absent
<1>. QED
  BY <1>1, IInvInvariant, NextRefines, PTL
     DEF Spec, ProtocolRefinement, Protocol!Spec, Protocol!vars

=============================================================================
