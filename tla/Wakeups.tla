------------------------------- MODULE Wakeups -------------------------------
(***************************************************************************)
(* What makes the controllers look again.  HostClusterReconciler and       *)
(* HostMachineReconciler return from many states without a requeue, in the *)
(* hope of an event: an owner reference, the Cluster's infrastructure, the *)
(* end of a pause.  Events come from four informers that run at their own  *)
(* pace and each fill a cache of their own, and an event is mapped to      *)
(* requests through what the other caches hold at that moment.  Objects    *)
(* arrive because a cluster is created, or because clusterctl moves one    *)
(* here.  What a reconcile does with hosts is in HostPool; here it takes   *)
(* several attempts and then is done.                                      *)
(***************************************************************************)
EXTENDS Integers

CONSTANTS
    Machines,   \* the Machines of the cluster, each with its HostMachine
    Arrivals,   \* how objects come: a subset of {"create", "move"}
    Faults      \* a subset of {"patchFails", "restart", "pause"}

ASSUME ArrivalsAssumption == Arrivals \subseteq {"create", "move"}
ASSUME FaultsAssumption   == Faults \subseteq {"patchFails", "restart", "pause"}
ASSUME NamesAssumption    == "hostCluster" \notin Machines

VARIABLES
    arrival,    \* how the objects come; "over" when the cluster has been deleted
    api,        \* the objects on the API server
    cache,      \* the objects in the informers' caches
    queue,      \* the work queues: keys to reconcile
    later,      \* keys that come back after an interval or a backoff
    work,       \* work[k]: the reconcile of k, "idle" when there is none
    givenUp     \* Machines whose last reconcile gave up on its host

vars == <<arrival, api, cache, queue, later, work, givenUp>>

-----------------------------------------------------------------------------

HC   == "hostCluster"
Keys == Machines \cup {HC}

\* infra is status.initialization.infrastructureProvisioned.
NoCluster == [there |-> FALSE, paused |-> FALSE, infra |-> FALSE, deleting |-> FALSE]
\* data says that spec.bootstrap.dataSecretName is set.
NoMachine == [there |-> FALSE, data |-> FALSE]
\* A HostCluster or HostMachine.  owned is its owner reference, fin its finalizer,
\* done status.initialization.provisioned, endpoint a HostCluster's endpoint.
NoInfra   == [there |-> FALSE, owned |-> FALSE, fin |-> FALSE, done |-> FALSE,
              deleting |-> FALSE, endpoint |-> FALSE]

Nothing == [cluster |-> NoCluster,
            machine |-> [m \in Machines |-> NoMachine],
            infra   |-> [k \in Keys |-> NoInfra]]

ClusterObjects == [there: BOOLEAN, paused: BOOLEAN, infra: BOOLEAN, deleting: BOOLEAN]
MachineObjects == [there: BOOLEAN, data: BOOLEAN]
InfraObjects   == [there: BOOLEAN, owned: BOOLEAN, fin: BOOLEAN, done: BOOLEAN,
                   deleting: BOOLEAN, endpoint: BOOLEAN]
Objects == [cluster: ClusterObjects, machine: [Machines -> MachineObjects],
            infra: [Keys -> InfraObjects]]

Idle  == [at |-> "idle"]
\* What a patch does to a field: it is left out, or set.
Changes == {"keep", "true", "false"}
Works == {Idle} \cup [at: {"cluster"}, copy: InfraObjects, data: BOOLEAN]
                \cup [at: {"patch"}, fin: Changes, done: Changes, again: BOOLEAN]

TypeOK ==
    /\ arrival \in Arrivals \cup {"over"}
    /\ api \in Objects /\ cache \in Objects
    /\ queue \subseteq Keys /\ later \subseteq Keys
    /\ work \in [Keys -> Works]
    /\ givenUp \subseteq Machines

Init ==
    /\ arrival \in Arrivals
    /\ api = Nothing /\ cache = Nothing
    /\ queue = {} /\ later = {}
    /\ work = [k \in Keys |-> Idle]
    /\ givenUp = {}

-----------------------------------------------------------------------------
(* Reconcile of HostCluster and HostMachine, which begin alike.            *)

Ends(k)         == work' = [work EXCEPT ![k] = Idle]
Fails(k)        == Ends(k) /\ later' = later \cup {k}
Change(old, new) == IF old = new THEN "keep" ELSE IF new THEN "true" ELSE "false"
Patches(k, fin, done, again) ==
    /\ work' = [work EXCEPT ![k] = [at |-> "patch", again |-> again,
                                    fin  |-> Change(work[k].copy.fin, fin),
                                    done |-> Change(work[k].copy.done, done)]]
    /\ UNCHANGED later

\* The object is gone, or has no owner yet: nothing to do, and no requeue.  A
\* Machine that is not in its cache is an error.
Begin(k) ==
    LET copy == cache.infra[k]
    IN /\ k \in queue /\ work[k] = Idle
       /\ queue' = queue \ {k} /\ givenUp' = givenUp \ {k}
       /\ IF ~copy.there \/ ~copy.owned THEN UNCHANGED <<work, later>>
          ELSE IF k = HC
               THEN /\ work' = [work EXCEPT ![k] = [at |-> "cluster", copy |-> copy,
                                                    data |-> FALSE]]
                    /\ UNCHANGED later
          ELSE IF ~cache.machine[k].there THEN Fails(k)
          ELSE /\ work' = [work EXCEPT ![k] = [at |-> "cluster", copy |-> copy,
                                               data |-> cache.machine[k].data]]
               /\ UNCHANGED later
       /\ UNCHANGED <<arrival, api, cache>>

\* The Cluster is not in its cache: an error.  It is paused: no requeue.
Blocked(k) ==
    /\ work[k].at = "cluster"
    /\ \/ ~cache.cluster.there /\ Fails(k)
       \/ cache.cluster.there /\ cache.cluster.paused /\ Ends(k) /\ UNCHANGED later
    /\ UNCHANGED <<arrival, api, cache, queue, givenUp>>

Proceeds(k) == work[k].at = "cluster" /\ cache.cluster.there /\ ~cache.cluster.paused

\* HostClusterReconciler, past the pause.
ReconcileCluster ==
    /\ Proceeds(HC)
    /\ \/ work[HC].copy.deleting /\ Patches(HC, FALSE, work[HC].copy.done, FALSE)
       \/ ~work[HC].copy.deleting /\ Patches(HC, TRUE, work[HC].copy.endpoint, FALSE)
    /\ UNCHANGED <<arrival, api, cache, queue, givenUp>>

\* HostMachineReconciler while the machine cannot be bootstrapped yet.
WaitForDependency(m) ==
    /\ Proceeds(m) /\ ~work[m].copy.deleting
    /\ \/ ~cache.cluster.infra /\ Patches(m, TRUE, work[m].copy.done, FALSE)
       \/ /\ cache.cluster.infra /\ ~work[m].data
          /\ Patches(m, TRUE, work[m].copy.done, TRUE)
    /\ UNCHANGED <<arrival, api, cache, queue, givenUp>>

\* The host is claimed and bootstrapped, or reset and released: not yet ...
AttemptHost(m) ==
    /\ Proceeds(m) /\ (work[m].copy.deleting \/ (cache.cluster.infra /\ work[m].data))
    /\ Patches(m, TRUE, work[m].copy.done, TRUE)
    /\ UNCHANGED <<arrival, api, cache, queue, givenUp>>

\* ... or no more, and without a requeue: the host presents another key than the one
\* that is asked for, or the bootstrap data cannot be rendered for it.  A host that is
\* to be reset is released in spite of its key.
GiveUpHost(m) ==
    /\ Proceeds(m) /\ ~work[m].copy.deleting /\ cache.cluster.infra /\ work[m].data
    /\ Patches(m, TRUE, work[m].copy.done, FALSE)
    /\ givenUp' = givenUp \cup {m}
    /\ UNCHANGED <<arrival, api, cache, queue>>

\* ... or done.
FinishHost(m) ==
    /\ Proceeds(m)
    /\ \/ work[m].copy.deleting /\ Patches(m, FALSE, work[m].copy.done, FALSE)
       \/ /\ ~work[m].copy.deleting /\ cache.cluster.infra /\ work[m].data
          /\ Patches(m, TRUE, TRUE, FALSE)
    /\ UNCHANGED <<arrival, api, cache, queue, givenUp>>

\* An object that is being deleted goes with its last finalizer.
Settled(o) == IF o.deleting /\ ~o.fin THEN NoInfra ELSE o

\* The deferred patch carries what differs from the copy; that the object has gone
\* is an error too.
Applied(old, change) == IF change = "keep" THEN old ELSE change = "true"
Patched(o, patch)    == [o EXCEPT !.fin  = Applied(o.fin, patch.fin),
                                  !.done = Applied(o.done, patch.done)]
Patch(k) ==
    /\ work[k].at = "patch"
    /\ IF api.infra[k].there
       THEN /\ api' = [api EXCEPT !.infra[k] = Settled(Patched(@, work[k]))]
            /\ later' = IF work[k].again THEN later \cup {k} ELSE later
       ELSE later' = later \cup {k} /\ UNCHANGED api
    /\ Ends(k)
    /\ UNCHANGED <<arrival, cache, queue, givenUp>>

PatchFails(k) ==
    /\ "patchFails" \in Faults /\ work[k].at = "patch"
    /\ Fails(k)
    /\ UNCHANGED <<arrival, api, cache, queue, givenUp>>

Again(k) ==
    /\ k \in later
    /\ later' = later \ {k} /\ queue' = queue \cup {k}
    /\ UNCHANGED <<arrival, api, cache, work, givenUp>>

-----------------------------------------------------------------------------
(* The informers and the requests their events are mapped to.              *)

\* Mutant: HostMachines do not watch Clusters.
UnmappedCluster == {}

\* Mutant: the kind of a Machine's infrastructureRef is not looked at.
AnyKindOfMachine == {m \in Machines : cache.machine[m].there} \cup {"foreign"}

\* clusterToHostMachines: the Machines that are in the cache now.
ClusterToHostMachines == {m \in Machines : cache.machine[m].there}

\* Mutant: HostClusters do not watch Clusters.
UnmappedHostCluster == {}

\* clusterToHostCluster.
ClusterToHostCluster == {HC}

SyncCluster ==
    /\ cache.cluster # api.cluster
    /\ cache' = [cache EXCEPT !.cluster = api.cluster]
    /\ queue' = queue \cup ClusterToHostMachines \cup ClusterToHostCluster
    /\ UNCHANGED <<arrival, api, later, work, givenUp>>

\* machineToHostMachine.
SyncMachine(m) ==
    /\ cache.machine[m] # api.machine[m]
    /\ cache' = [cache EXCEPT !.machine[m] = api.machine[m]]
    /\ queue' = queue \cup {m}
    /\ UNCHANGED <<arrival, api, later, work, givenUp>>

SyncInfra(k) ==
    /\ cache.infra[k] # api.infra[k]
    /\ cache' = [cache EXCEPT !.infra[k] = api.infra[k]]
    /\ queue' = queue \cup {k}
    /\ UNCHANGED <<arrival, api, later, work, givenUp>>

\* A new manager: workers start when the informers have listed everything.
Restart ==
    /\ "restart" \in Faults
    /\ cache' = api
    /\ queue' = {k \in Keys : api.infra[k].there} /\ later' = {}
    /\ work' = [k \in Keys |-> Idle] /\ givenUp' = {}
    /\ UNCHANGED <<arrival, api>>

-----------------------------------------------------------------------------
(* kg cluster create, clusterctl move, and Cluster API, which does nothing *)
(* for a paused Cluster either.                                            *)

manager == <<arrival, cache, queue, later, work, givenUp>>
Active  == api.cluster.there /\ ~api.cluster.paused
NewInfra(endpoint) == [NoInfra EXCEPT !.there = TRUE, !.endpoint = endpoint]
Moved   == [NoInfra EXCEPT !.there = TRUE, !.owned = TRUE, !.fin = TRUE]

\* A move brings the Cluster paused, and before anything it owns.
ApplyCluster ==
    /\ ~api.cluster.there /\ arrival # "over"
    /\ api' = [api EXCEPT !.cluster = [NoCluster EXCEPT !.there = TRUE,
                                                       !.paused = (arrival = "move")]]
    /\ UNCHANGED manager

ApplyHostCluster ==
    /\ ~api.infra[HC].there /\ ~api.cluster.deleting
    /\ \/ /\ arrival = "create"
          /\ \E endpoint \in BOOLEAN : api' = [api EXCEPT !.infra[HC] = NewInfra(endpoint)]
       \/ /\ arrival = "move" /\ api.cluster.paused
          /\ api' = [api EXCEPT !.infra[HC] = [Moved EXCEPT !.endpoint = TRUE]]
    /\ UNCHANGED manager

SetEndpoint ==
    /\ api.infra[HC].there /\ ~api.infra[HC].endpoint
    /\ api' = [api EXCEPT !.infra[HC].endpoint = TRUE]
    /\ UNCHANGED manager

\* Cluster API makes the HostMachine, then the Machine, then the Machine its owner;
\* a move brings the Machine first.
MakeMachine(m) ==
    /\ ~api.machine[m].there /\ api.cluster.there
    /\ \/ /\ arrival = "create" /\ Active /\ api.infra[m].there
          /\ api' = [api EXCEPT !.machine[m].there = TRUE]
       \/ /\ arrival = "move" /\ api.cluster.paused
          /\ api' = [api EXCEPT !.machine[m] = [there |-> TRUE, data |-> TRUE]]
    /\ UNCHANGED manager

MakeHostMachine(m) ==
    /\ ~api.infra[m].there /\ api.cluster.there /\ ~api.cluster.deleting
    /\ \/ /\ arrival = "create" /\ Active /\ ~api.machine[m].there
          /\ api' = [api EXCEPT !.infra[m] = NewInfra(FALSE)]
       \/ /\ arrival = "move" /\ api.cluster.paused /\ api.machine[m].there
          /\ api' = [api EXCEPT !.infra[m] = Moved]
    /\ UNCHANGED manager

\* The owner references.
Adopt(k) ==
    /\ Active /\ api.infra[k].there /\ ~api.infra[k].owned
    /\ k # HC => api.machine[k].there
    /\ api' = [api EXCEPT !.infra[k].owned = TRUE]
    /\ UNCHANGED manager

InfrastructureProvisioned ==
    /\ Active /\ api.infra[HC].done /\ ~api.cluster.infra
    /\ api' = [api EXCEPT !.cluster.infra = TRUE]
    /\ UNCHANGED manager

PublishData(m) ==
    /\ Active /\ api.cluster.infra /\ api.machine[m].there /\ ~api.machine[m].data
    /\ api' = [api EXCEPT !.machine[m].data = TRUE]
    /\ UNCHANGED manager

\* The end of a move, when everything has arrived, or of a maintenance pause.
Unpause ==
    /\ api.cluster.paused
    /\ arrival = "move" => \A k \in Keys : api.infra[k].there
    /\ api' = [api EXCEPT !.cluster.paused = FALSE]
    /\ UNCHANGED manager

Pause ==
    /\ "pause" \in Faults /\ arrival = "create" /\ Active
    /\ api' = [api EXCEPT !.cluster.paused = TRUE]
    /\ UNCHANGED manager

DeleteCluster ==
    /\ api.cluster.there /\ ~api.cluster.deleting
    /\ arrival = "move" => ~api.cluster.paused
    /\ api' = [api EXCEPT !.cluster.deleting = TRUE]
    /\ UNCHANGED manager

\* Machines go first, then the HostCluster, then the Cluster.
DeleteMachine(m) ==
    /\ Active /\ api.cluster.deleting /\ api.machine[m].there
    /\ \/ /\ api.infra[m].there /\ ~api.infra[m].deleting
          /\ api' = [api EXCEPT !.infra[m] = Settled([@ EXCEPT !.deleting = TRUE])]
       \/ ~api.infra[m].there /\ api' = [api EXCEPT !.machine[m] = NoMachine]
    /\ UNCHANGED manager

TearDown ==
    /\ Active /\ api.cluster.deleting
    /\ \A m \in Machines : ~api.machine[m].there /\ ~api.infra[m].there
    /\ \/ /\ api.infra[HC].there /\ ~api.infra[HC].deleting
          /\ api' = [api EXCEPT !.infra[HC] = Settled([@ EXCEPT !.deleting = TRUE])]
          /\ UNCHANGED arrival
       \/ /\ ~api.infra[HC].there
          /\ api' = [api EXCEPT !.cluster = NoCluster]
          /\ arrival' = "over"
    /\ UNCHANGED <<cache, queue, later, work, givenUp>>

-----------------------------------------------------------------------------

Reconciler(k) == Begin(k) \/ Blocked(k) \/ Patch(k) \/ PatchFails(k) \/ Again(k) \/ SyncInfra(k)

MachineReconciler(m) ==
    \/ Reconciler(m) \/ WaitForDependency(m) \/ AttemptHost(m) \/ GiveUpHost(m)
    \/ FinishHost(m) \/ SyncMachine(m)

ClusterAPI ==
    \/ InfrastructureProvisioned \/ TearDown
    \/ \E k \in Keys : Adopt(k)
    \/ \E m \in Machines : MakeMachine(m) \/ MakeHostMachine(m) \/ PublishData(m) \/ DeleteMachine(m)

Operator == ApplyCluster \/ ApplyHostCluster \/ SetEndpoint \/ Unpause \/ Pause \/ DeleteCluster

Next ==
    \/ Reconciler(HC) \/ ReconcileCluster \/ SyncCluster \/ Restart
    \/ \E m \in Machines : MachineReconciler(m)
    \/ ClusterAPI \/ Operator

Spec == Init /\ [][Next]_vars

-----------------------------------------------------------------------------
(* Properties.                                                             *)

\* A reconcile of k would change it: it has an owner, its Cluster is not paused, and
\* there is a finalizer to add or drop, an endpoint to report or a host to bootstrap,
\* one that the last reconcile has not given up.
Actionable(k) ==
    LET o == api.infra[k]
    IN /\ o.there /\ o.owned /\ Active
       /\ \/ o.deleting \/ ~o.fin
          \/ k = HC /\ o.done # o.endpoint
          \/ k # HC /\ api.cluster.infra /\ api.machine[k].data /\ ~o.done /\ k \notin givenUp

\* No wake-up is lost: while there is something to do for an object, it is queued,
\* will be queued, is being reconciled, or one of the informers it depends on still has
\* an event to deliver.  What is excepted is the bootstrap of a machine whose last
\* reconcile gave up on its host: HostMachines do not watch Hosts, so "not retrying
\* until the Host is corrected" (hostmachine_controller.go:204) is not retrying then
\* either; a deletion is not missed even so.
NoLostWakeup ==
    \A k \in Keys : Actionable(k) =>
        \/ k \in queue \cup later \/ work[k] # Idle
        \/ cache.infra[k] # api.infra[k] \/ cache.cluster # api.cluster
        \/ k # HC /\ cache.machine[k] # api.machine[k]
=============================================================================
