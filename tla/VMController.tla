---------------------------- MODULE VMController ----------------------------
(***************************************************************************)
(* The VM controller of vm-dhcp-controller: the OnChange handler of        *)
(* package vm (src/unnamed/part_000) together with everything it reads and *)
(* writes.  The legacy handler of pkg/controller/vm/controller.go is the   *)
(* same code line for line without the hasIPPool filter; FilterByIPPool    *)
(* chooses between the two.  One VirtualMachine is modelled, with          *)
(*   - its VirtualMachineNetworkConfig (vmnetcfg) in the API server and in *)
(*     the shared informer cache, written with the cache's                 *)
(*     resourceVersion (optimistic concurrency);                           *)
(*   - the controller's work queue for the VM's key;                       *)
(*   - which networks resolve to an IPPool (NAD with IPPool labels and an  *)
(*     existing IPPool), as the cluster has it, as the controller's caches *)
(*     see it and as the admission webhook's caches see it;                *)
(*   - the allocation engine (the vmnetcfg controller, not under src/,     *)
(*     modelled from spec.md 3 and 4.3), which consumes the vmnetcfg.      *)
(* A data value (interface name, MAC, network) is a model value; the       *)
(* resolver itself is abstracted to the set of resolvable networks.        *)
(***************************************************************************)
EXTENDS Naturals, FiniteSets, Sequences

CONSTANTS
    Ifaces,        \* interface names of the VM (keys of the handler's ncm)
    Macs,          \* MAC address strings
    Nets,          \* Multus network names
    NoMac,         \* nic.MacAddress == "" / no annotation entry
    NoNet,         \* no Multus network of that name, or empty NetworkName
    MaxEvents,     \* bound on user edits and NAD/IPPool changes
    MaxFailures,   \* bound on failed vmClient.Update calls
    ResyncEnabled, \* the informer re-delivers the VM periodically
    FilterByIPPool \* the handler of part_000 (TRUE) or of the legacy
                   \* pkg/controller/vm/controller.go, which has no
                   \* hasIPPool filter (FALSE)

ASSUME ConstAssumption ==
    /\ IsFiniteSet(Ifaces)
    /\ NoMac \notin Macs
    /\ NoNet \notin Nets
    /\ MaxEvents \in Nat
    /\ MaxFailures \in Nat
    /\ ResyncEnabled \in BOOLEAN
    /\ FilterByIPPool \in BOOLEAN

VARIABLES
    vm,          \* the VirtualMachine
    queued,      \* the VM's key is in the work queue
    store,       \* the vmnetcfg in the API server
    cache,       \* the vmnetcfg in the shared informer cache
    fresh,       \* the cache holds the store's latest resourceVersion
    held,        \* network configs the allocation engine holds addresses for
    resolvable,  \* networks that resolve to an IPPool in the cluster
    ctlView,     \* the same, in the controller's NAD and IPPool caches
    whView,      \* the same, in the webhook's NAD and IPPool caches
    events,      \* user and environment events so far
    failures     \* failed VM updates so far

vars == <<vm, queued, store, cache, fresh, held, resolvable, ctlView, whView,
          events, failures>>

-----------------------------------------------------------------------------
(* Data *)

\* networkv1.NetworkConfig: MACAddress and NetworkName
NetworkConfig == [macAddress : Macs, networkName : Nets]

\* the InSynced condition: unset ("Unknown"), True or False
Condition == {"Unknown", "True", "False"}

\* the parts of the VM the handler reads: per interface its MacAddress, the
\* Multus NetworkName of the network of the same name, the MAC that the
\* harvesterhci.io/mac-address annotation gives it, and the deletion mark
VMType == [mac : [Ifaces -> Macs \cup {NoMac}],
           net : [Ifaces -> Nets \cup {NoNet}],
           ann : [Ifaces -> Macs \cup {NoMac}],
           deleted : BOOLEAN]

\* a vmnetcfg: whether it exists, Spec.NetworkConfigs, the InSynced status
NetCfgType == [exists : BOOLEAN, spec : Seq(NetworkConfig), inSynced : Condition]

Absent == [exists |-> FALSE, spec |-> <<>>, inSynced |-> "Unknown"]

\* the set of entries of a Spec.NetworkConfigs list
Entries(s) == {s[k] : k \in DOMAIN s}

-----------------------------------------------------------------------------
(* The handler's derivations *)

\* applyMACAddressAnnotation reports an update: some interface without a
\* MAC has a non-empty annotation entry
MacAnnotationApplies(v) == \E i \in Ifaces : v.mac[i] = NoMac /\ v.ann[i] # NoMac

\* the deep copy of the VM with the annotation's MACs filled in
AnnotatedVM(v) ==
    [v EXCEPT !.mac = [i \in Ifaces |->
                         IF v.mac[i] = NoMac /\ v.ann[i] # NoMac
                         THEN v.ann[i] ELSE v.mac[i]]]

\* mutant: the seeding loop skips interfaces that have a MAC
CompleteInverted(v) == {i \in Ifaces : v.mac[i] = NoMac /\ v.net[i] # NoNet}

\* mutant: the seeding loop without its continue on an empty MacAddress
CompleteUnseeded(v) == {i \in Ifaces : v.net[i] # NoNet}

\* the keys of ncm left after seeding from MACs, naming Multus networks and
\* dropping incomplete configs
Complete(v) == {i \in Ifaces : v.mac[i] # NoMac /\ v.net[i] # NoNet}

\* GetIPPoolFromNetworkName succeeds for network n against NAD and IPPool
\* caches that show the networks in view as resolving to an IPPool
Resolves(n, view) == n \in view

\* the keys left after dropping networks without an IPPool (hasIPPool
\* returns false on every lookup error)
HasIPPoolFilter(v, view) == {i \in Complete(v) : Resolves(v.net[i], view)}

\* the keys of the vmnetcfg the handler prepares: the legacy handler goes
\* from dropping incomplete configs straight to the empty-map check
Managed(v, view) == IF FilterByIPPool THEN HasIPPoolFilter(v, view) ELSE Complete(v)

\* the NetworkConfig ncm holds for interface i
Config(v, i) == [macAddress |-> v.mac[i], networkName |-> v.net[i]]

\* the enumerations of a finite set
Orders(K) == {p \in [1..Cardinality(K) -> K] :
                \A j, k \in 1..Cardinality(K) : j # k => p[j] # p[k]}

\* prepareVmNetCfg: Spec.NetworkConfigs lists ncm's values in Go's map
\* iteration order, which is unspecified
PreparedSpecs(v, K) == {[k \in 1..Cardinality(K) |-> Config(v, p[k])] : p \in Orders(K)}

\* the webhook's Create validation: every network resolves to an IPPool
Admit(d, view) == \A k \in DOMAIN d : Resolves(d[k].networkName, view)

-----------------------------------------------------------------------------
(* Outcomes of one pass of the handler *)

\* return without a write; requeue is TRUE when the pass updated the VM,
\* whose update event puts the key back into the queue
Finish(requeue) == queued' = requeue /\ UNCHANGED <<store, fresh>>

\* return an error: the key is requeued with backoff
Fail == queued' = TRUE /\ UNCHANGED <<store, fresh>>

\* a write the API server accepts
Persist(new, requeue) == store' = new /\ fresh' = FALSE /\ queued' = requeue

\* vmnetcfgClient.Create, gated by the webhook; AlreadyExists when the
\* cache lags behind a creation
CreateNetCfg(d, requeue) ==
    \/ store.exists /\ Fail
    \/ ~store.exists /\ ~Admit(d, whView) /\ Fail
    \/ /\ ~store.exists /\ Admit(d, whView)
       /\ Persist([exists |-> TRUE, spec |-> d, inSynced |-> "Unknown"], requeue)

\* mutant: the spec is written without the cache's resourceVersion
UpdateSpecIgnoringConflict(d, requeue) == Persist([store EXCEPT !.spec = d], requeue)

\* vmnetcfgClient.Update of the copy with the new spec (status is ignored
\* by Update); Conflict when the cache's resourceVersion is stale
UpdateSpec(d, requeue) ==
    \/ fresh /\ Persist([store EXCEPT !.spec = d], requeue)
    \/ ~fresh /\ Fail

\* UpdateStatus of the copy with InSynced False (its spec is ignored by
\* UpdateStatus), then Enqueue of the VM
MarkOutOfSync ==
    \/ fresh /\ Persist([store EXCEPT !.inSynced = "False"], TRUE)
    \/ ~fresh /\ Fail

\* the pass from building ncm on, for the VM v after the annotation step
SyncNetCfg(v, requeue) ==
    LET K == Managed(v, ctlView) IN
    \/ K = {} /\ Finish(requeue)
    \/ /\ K # {}
       /\ \E d \in PreparedSpecs(v, K) :
            \/ ~cache.exists /\ CreateNetCfg(d, requeue)
            \/ cache.exists /\ cache.spec = d /\ Finish(requeue)
            \/ /\ cache.exists /\ cache.spec # d /\ cache.inSynced = "False"
               /\ UpdateSpec(d, requeue)
            \/ /\ cache.exists /\ cache.spec # d /\ cache.inSynced # "False"
               /\ MarkOutOfSync

-----------------------------------------------------------------------------
(* Actions *)

Init ==
    /\ vm \in {v \in VMType : ~v.deleted}
    /\ queued = TRUE
    /\ store = Absent
    /\ cache = Absent
    /\ fresh = TRUE
    /\ held = {}
    /\ resolvable \in SUBSET Nets
    /\ ctlView = resolvable
    /\ whView = resolvable
    /\ events = 0
    /\ failures = 0

\* vmClient.Update of the annotated copy returns an error
VMUpdateFails ==
    /\ failures < MaxFailures
    /\ failures' = failures + 1
    /\ Fail
    /\ UNCHANGED vm

\* Handler.OnChange for the VM's key
Reconcile ==
    /\ queued
    /\ UNCHANGED <<cache, held, resolvable, ctlView, whView, events>>
    /\ \/ vm.deleted /\ Finish(FALSE) /\ UNCHANGED <<vm, failures>>
       \/ /\ ~vm.deleted /\ ~MacAnnotationApplies(vm)
          /\ SyncNetCfg(vm, FALSE) /\ UNCHANGED <<vm, failures>>
       \/ /\ ~vm.deleted /\ MacAnnotationApplies(vm)
          /\ VMUpdateFails
       \/ /\ ~vm.deleted /\ MacAnnotationApplies(vm)
          /\ vm' = AnnotatedVM(vm)
          /\ SyncNetCfg(AnnotatedVM(vm), TRUE) /\ UNCHANGED failures

\* the informer's watch delivers the store's latest version to the cache
CacheSync ==
    /\ ~fresh
    /\ cache' = store
    /\ fresh' = TRUE
    /\ UNCHANGED <<vm, queued, store, held, resolvable, ctlView, whView, events, failures>>

\* a status write of the allocation engine with the cache's resourceVersion
StatusWrite(c) ==
    \/ fresh /\ store' = [store EXCEPT !.inSynced = c] /\ fresh' = FALSE
    \/ ~fresh /\ UNCHANGED <<store, fresh>>

\* the allocation engine allocates addresses for the configs of a vmnetcfg
\* it does not see out of sync, and reports InSynced True
EngineAllocate ==
    /\ cache.exists
    /\ cache.inSynced # "False"
    /\ (~(Entries(cache.spec) \subseteq held) \/ cache.inSynced = "Unknown")
    /\ held' = held \cup Entries(cache.spec)
    /\ StatusWrite("True")
    /\ UNCHANGED <<vm, queued, cache, resolvable, ctlView, whView, events, failures>>

\* mutant: the engine reports InSynced True without releasing anything
EngineReleaseKeeping ==
    /\ cache.exists
    /\ cache.inSynced = "False"
    /\ UNCHANGED held
    /\ StatusWrite("True")
    /\ UNCHANGED <<vm, queued, cache, resolvable, ctlView, whView, events, failures>>

\* the allocation engine releases the addresses of an out-of-sync vmnetcfg
\* and reports InSynced True
EngineRelease ==
    /\ cache.exists
    /\ cache.inSynced = "False"
    /\ held' = {}
    /\ StatusWrite("True")
    /\ UNCHANGED <<vm, queued, cache, resolvable, ctlView, whView, events, failures>>

\* the user edits interface i: its MAC and the Multus network of its name
EditInterface(i, m, n) ==
    /\ events < MaxEvents
    /\ ~vm.deleted
    /\ vm' = [vm EXCEPT !.mac[i] = m, !.net[i] = n]
    /\ events' = events + 1
    /\ queued' = TRUE
    /\ UNCHANGED <<store, cache, fresh, held, resolvable, ctlView, whView, failures>>

\* the user sets interface i's entry of the mac-address annotation
Annotate(i, m) ==
    /\ events < MaxEvents
    /\ ~vm.deleted
    /\ vm' = [vm EXCEPT !.ann[i] = m]
    /\ events' = events + 1
    /\ queued' = TRUE
    /\ UNCHANGED <<store, cache, fresh, held, resolvable, ctlView, whView, failures>>

\* the user deletes the VM (its DeletionTimestamp is set)
DeleteVM ==
    /\ events < MaxEvents
    /\ ~vm.deleted
    /\ vm' = [vm EXCEPT !.deleted = TRUE]
    /\ events' = events + 1
    /\ queued' = TRUE
    /\ UNCHANGED <<store, cache, fresh, held, resolvable, ctlView, whView, failures>>

\* a NAD or IPPool of network n is created, relabelled or deleted; the VM
\* controller does not watch NADs or IPPools, so nothing is queued
NetworkChange(n) ==
    /\ events < MaxEvents
    /\ resolvable' = (resolvable \ {n}) \cup ({n} \ resolvable)
    /\ events' = events + 1
    /\ UNCHANGED <<vm, queued, store, cache, fresh, held, ctlView, whView, failures>>

\* the controller's NAD and IPPool caches catch up
CtlSync ==
    /\ ctlView # resolvable
    /\ ctlView' = resolvable
    /\ UNCHANGED <<vm, queued, store, cache, fresh, held, resolvable, whView, events, failures>>

\* the webhook's NAD and IPPool caches catch up
WhSync ==
    /\ whView # resolvable
    /\ whView' = resolvable
    /\ UNCHANGED <<vm, queued, store, cache, fresh, held, resolvable, ctlView, events, failures>>

\* the informer's periodic resync re-delivers the VM
Resync ==
    /\ ResyncEnabled
    /\ ~queued
    /\ queued' = TRUE
    /\ UNCHANGED <<vm, store, cache, fresh, held, resolvable, ctlView, whView, events, failures>>

Next ==
    \/ Reconcile
    \/ CacheSync
    \/ EngineAllocate
    \/ EngineRelease
    \/ \E i \in Ifaces, m \in Macs \cup {NoMac}, n \in Nets \cup {NoNet} :
         EditInterface(i, m, n)
    \/ \E i \in Ifaces, m \in Macs \cup {NoMac} : Annotate(i, m)
    \/ DeleteVM
    \/ \E n \in Nets : NetworkChange(n)
    \/ CtlSync
    \/ WhSync
    \/ Resync

\* the work queue's workers, the informers and the allocation engine keep
\* running; the user and the cluster's NADs and IPPools owe nothing
Fairness ==
    /\ WF_vars(Reconcile)
    /\ WF_vars(CacheSync)
    /\ WF_vars(EngineAllocate)
    /\ WF_vars(EngineRelease)
    /\ WF_vars(CtlSync)
    /\ WF_vars(WhSync)
    /\ WF_vars(Resync)

Spec == Init /\ [][Next]_vars

FairSpec == Spec /\ Fairness

-----------------------------------------------------------------------------
(* Properties *)

\* Type correctness of the VM, the queue flag, the vmnetcfg in the API
\* server and in the informer cache, the engine's holdings and the views of
\* the NAD and IPPool caches.  Its content is NetCfgType: every config the
\* handler writes into Spec.NetworkConfigs carries a real MAC and a real
\* network, which rests on the seeding loop skipping interfaces without a
\* MacAddress (neither the webhook nor the IPPool filter checks the MAC).
TypeOK ==
    /\ vm \in VMType
    /\ queued \in BOOLEAN
    /\ store \in NetCfgType
    /\ cache \in NetCfgType
    /\ fresh \in BOOLEAN
    /\ held \subseteq NetworkConfig
    /\ resolvable \subseteq Nets
    /\ ctlView \subseteq Nets
    /\ whView \subseteq Nets
    /\ events \in 0..MaxEvents
    /\ failures \in 0..MaxFailures

\* No allocate-before-deallocate (the two-step comment of OnChange): while
\* the vmnetcfg is not marked out of sync, the engine holds addresses only
\* for configs of its current spec.  Breaking it takes a VM edit, a pass
\* that writes the spec, and an engine step on a cache the write made stale.
NoAllocateBeforeDeallocate ==
    store.exists /\ store.inSynced # "False" => held \subseteq Entries(store.spec)

\* The out-of-sync signal precedes the new data: a step that changes the
\* vmnetcfg's spec starts and ends with InSynced False in the API server,
\* whatever the caches of the controller and of the engine show.
SignalPrecedesSpecChange ==
    [][store.exists /\ store'.spec # store.spec =>
         store.inSynced = "False" /\ store'.inSynced = "False"]_vars

\* The vmnetcfg converges: once users and the cluster stop changing things,
\* a live VM with DHCP-managed interfaces ends with a vmnetcfg whose spec
\* holds exactly those interfaces' configs, despite stale caches, Conflict
\* and AlreadyExists errors and webhook rejections.
Converged ==
    LET K == Managed(vm, resolvable) IN
    ~vm.deleted /\ K # {} =>
        store.exists /\ Entries(store.spec) = {Config(vm, i) : i \in K}

EventuallyConverged == <>[]Converged

\* The vmnetcfg is eventually created: once users and the cluster stop
\* changing things, a live VM with DHCP-managed interfaces has a vmnetcfg,
\* although Create may meet a stale cache (AlreadyExists) or a webhook
\* whose NAD/IPPool caches lag (rejection), each retried with backoff.
Created ==
    ~vm.deleted /\ (\E i \in Ifaces : vm.mac[i] # NoMac /\ vm.net[i] \in resolvable)
        => store.exists

EventuallyCreated == <>[]Created

\* Idempotence (spec.md 8): a pass flips the vmnetcfg out of sync only when
\* the VM's network configs differ from those of the vmnetcfg's spec, so a
\* re-run with no intervening change writes nothing.
NoSpuriousOutOfSync ==
    [][store.inSynced # "False" /\ store'.inSynced = "False" =>
         Entries(store.spec) # {Config(vm', i) : i \in Managed(vm', ctlView)}]_vars

\* spec.md 4.3 step 2: a pass that persists MACs from the annotation stops
\* there and leaves the vmnetcfg to the pass the VM update triggers.
VMUpdateEndsPass == [][vm'.mac = vm.mac \/ store' = store]_vars

\* spec.md 1 and 3: the vmnetcfg is kept consistent with the VM's live
\* spec, rebuilt from it on every pass.  Once users and the cluster stop
\* changing things, a live VM none of whose interfaces is DHCP-managed any
\* more (its networks lost their IPPools, or it lost its MACs) has a
\* vmnetcfg that lists no config either, so that the engine can release.
Unmanaged ==
    ~vm.deleted /\ Managed(vm, resolvable) = {} /\ store.exists => store.spec = <<>>

EventuallyUnmanaged == <>[]Unmanaged

\* The vmnetcfg protocol of NetCfgProtocol, with the API server's copy as
\* the object and the engine's holdings as they are
Protocol == INSTANCE NetCfgProtocol WITH Configs <- NetworkConfig, netcfg <- store

\* The controller, its caches, its retries and the engine implement the
\* two-phase protocol: every step of OnChange or of the engine, on whatever
\* stale cache it reads and whatever Conflict it meets, is a step of
\* NetCfgProtocol (a creation, a signal, a rewrite under False, an
\* allocation or a release) or leaves the object and the holdings alone.
ProtocolRefinement == Protocol!Spec

=============================================================================
