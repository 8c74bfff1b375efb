---------------------------- MODULE WakeupsProofs ----------------------------
(***************************************************************************)
(* Proofs about Wakeups, for every set of machines, however the objects    *)
(* arrive and whatever fails.                                              *)
(***************************************************************************)
EXTENDS Wakeups, TLAPS

\* A reconcile of k that starts now would find something to do in its caches, other than
\* what the last one has given up.
Visible(k) ==
    LET o == cache.infra[k]
    IN /\ o.there /\ o.owned /\ cache.cluster.there /\ ~cache.cluster.paused
       /\ k # HC => cache.machine[k].there
       /\ \/ o.deleting \/ ~o.fin
          \/ k = HC /\ o.done # o.endpoint
          \/ k # HC /\ cache.cluster.infra /\ cache.machine[k].data /\ ~o.done /\ k \notin givenUp

\* Nothing will bring k to its reconciler again.
Unqueued(k) == k \notin queue \cup later

\* A HostMachine with an owner has that Machine: it goes after the HostMachine.  A
\* Cluster that is being deleted is there, and objects go only with their Cluster.
OwnerInv ==
    /\ \A m \in Machines : api.infra[m].there /\ api.infra[m].owned => api.machine[m].there
    /\ api.cluster.deleting => api.cluster.there
    /\ \A k \in Keys : api.infra[k].deleting => api.cluster.deleting \/ arrival = "over"

\* What is being deleted and still there has its finalizer, and did not lose it in the
\* cache either.
FinalizerInv ==
    \A k \in Keys : /\ api.infra[k].deleting => api.infra[k].fin
                    /\ cache.infra[k].deleting => cache.infra[k].fin

\* The API server does not return to what a cache has shown: owner references,
\* endpoints and deletions stay, and what has gone is not made again.
ForwardInv ==
    \A k \in Keys : cache.infra[k].there =>
        \/ /\ api.infra[k].there
           /\ cache.infra[k].owned    => api.infra[k].owned
           /\ cache.infra[k].endpoint => api.infra[k].endpoint
           /\ cache.infra[k].deleting => api.infra[k].deleting
        \/ ~api.infra[k].there /\ (api.cluster.deleting \/ arrival = "over")

\* Unless k has been queued meanwhile, a reconcile that is under way has seen what
\* the caches hold; and its patch, when nothing follows it, changes the object it read
\* or there is nothing to do.
WorkInv(k) ==
    /\ work[k].at = "cluster" /\ Unqueued(k) =>
          /\ work[k].copy = cache.infra[k] /\ cache.infra[k].there
          /\ k # HC => work[k].data = cache.machine[k].data
    /\ work[k].at = "patch" /\ Unqueued(k) /\ ~work[k].again =>
          /\ cache.infra[k].there
          /\ work[k].fin  = "true"  => ~cache.infra[k].fin
          /\ work[k].fin  = "false" => cache.infra[k].fin
          /\ work[k].done = "true"  => ~cache.infra[k].done
          /\ work[k].done = "false" => cache.infra[k].done
          /\ work[k].fin = "keep" /\ work[k].done = "keep" => ~Visible(k)

\* When the reconciler has let go of k, it saw nothing to do in the caches, or its own
\* patch has yet to arrive there.
RestInv(k) ==
    work[k] = Idle /\ Unqueued(k) /\ cache.infra[k] = api.infra[k] => ~Visible(k)

Inv ==
    /\ TypeOK /\ OwnerInv /\ FinalizerInv /\ ForwardInv
    /\ \A k \in Keys : WorkInv(k) /\ RestInv(k)

-----------------------------------------------------------------------------
(* Edits of the objects, and the types.                                    *)

\* One infrastructure object is replaced.
LEMMA SetInfra ==
    ASSUME NEW a \in Objects, NEW k \in Keys, NEW o \in InfraObjects
    PROVE  /\ [a EXCEPT !.infra[k] = o] \in Objects
           /\ [a EXCEPT !.infra[k] = o].cluster = a.cluster
           /\ [a EXCEPT !.infra[k] = o].machine = a.machine
           /\ [a EXCEPT !.infra[k] = o].infra = [a.infra EXCEPT ![k] = o]
BY DEF Objects

\* One Machine is replaced.
LEMMA SetMachine ==
    ASSUME NEW a \in Objects, NEW m \in Machines, NEW o \in MachineObjects
    PROVE  /\ [a EXCEPT !.machine[m] = o] \in Objects
           /\ [a EXCEPT !.machine[m] = o].cluster = a.cluster
           /\ [a EXCEPT !.machine[m] = o].machine = [a.machine EXCEPT ![m] = o]
           /\ [a EXCEPT !.machine[m] = o].infra = a.infra
BY DEF Objects

\* The Cluster is replaced.
LEMMA SetCluster ==
    ASSUME NEW a \in Objects, NEW o \in ClusterObjects
    PROVE  /\ [a EXCEPT !.cluster = o] \in Objects
           /\ [a EXCEPT !.cluster = o].cluster = o
           /\ [a EXCEPT !.cluster = o].machine = a.machine
           /\ [a EXCEPT !.cluster = o].infra = a.infra
BY DEF Objects

\* The parts of a set of objects.
LEMMA Parts ==
    ASSUME NEW a \in Objects
    PROVE  /\ a.cluster \in ClusterObjects
           /\ a.machine \in [Machines -> MachineObjects]
           /\ a.infra \in [Keys -> InfraObjects]
BY DEF Objects

\* What is done to an infrastructure object.
LEMMA InfraEdits ==
    /\ NoInfra \in InfraObjects /\ Moved \in InfraObjects
    /\ [Moved EXCEPT !.endpoint = TRUE] \in InfraObjects
    /\ \A b \in BOOLEAN : NewInfra(b) \in InfraObjects
    /\ \A o \in InfraObjects :
          /\ [o EXCEPT !.owned = TRUE] \in InfraObjects
          /\ [o EXCEPT !.endpoint = TRUE] \in InfraObjects
          /\ [o EXCEPT !.deleting = TRUE] \in InfraObjects
          /\ Settled(o) \in InfraObjects
BY DEF InfraObjects, NoInfra, Moved, NewInfra, Settled

\* The infrastructure object of k changes, and how Cluster API, clusterctl and the
\* operator may change it.
ChangesInfra(k) ==
    /\ api'.machine = api.machine /\ api'.cluster = api.cluster /\ arrival' = arrival
    /\ \A j \in Keys \ {k} : api'.infra[j] = api.infra[j]
    /\ \/ /\ ~api.infra[k].there /\ ~api.cluster.deleting /\ arrival # "over"
          /\ ~api'.infra[k].deleting
          /\ k # HC /\ api'.infra[k].owned => api.machine[k].there
       \/ /\ api.infra[k].there /\ ~api.infra[k].owned
          /\ k # HC => api.machine[k].there
          /\ api'.infra[k] = [api.infra[k] EXCEPT !.owned = TRUE]
       \/ /\ api.infra[k].there /\ ~api.infra[k].endpoint
          /\ api'.infra[k] = [api.infra[k] EXCEPT !.endpoint = TRUE]
       \/ /\ api.infra[k].there /\ ~api.infra[k].deleting /\ api.cluster.deleting
          /\ api'.infra[k] = Settled([api.infra[k] EXCEPT !.deleting = TRUE])

\* Or they change a Machine, or the Cluster.
ChangesOther ==
    /\ api'.infra = api.infra
    /\ \A m \in Machines :
          api.machine[m].there => api'.machine[m].there \/ ~api.infra[m].there
    /\ api.cluster.deleting => api'.cluster.deleting \/ arrival' = "over"
    /\ arrival = "over" => arrival' = "over"
    /\ api'.cluster.deleting => api'.cluster.there

\* Everything that happens outside of the manager is one of the two.
LEMMA Environment ==
    ASSUME TypeOK, OwnerInv, ClusterAPI \/ Operator
    PROVE  /\ api' \in Objects /\ arrival' \in Arrivals \cup {"over"}
           /\ UNCHANGED <<cache, queue, later, work, givenUp>>
           /\ ChangesOther \/ \E k \in Keys : ChangesInfra(k)
<1>0. /\ api \in Objects /\ arrival \in Arrivals \cup {"over"} /\ HC \in Keys
      /\ api.cluster \in ClusterObjects
      /\ api.machine \in [Machines -> MachineObjects]
      /\ api.infra \in [Keys -> InfraObjects]
      /\ \A m \in Machines : m \in Keys /\ m # HC
  BY Parts, NamesAssumption DEF TypeOK, Keys, HC
<1>. USE <1>0
<1>1. ASSUME NEW k \in Keys, NEW o \in InfraObjects, api' = [api EXCEPT !.infra[k] = o]
      PROVE  /\ api' \in Objects /\ api'.machine = api.machine /\ api'.cluster = api.cluster
             /\ api'.infra[k] = o /\ \A j \in Keys \ {k} : api'.infra[j] = api.infra[j]
  BY <1>1, SetInfra
<1>2. ASSUME NEW o \in ClusterObjects, api' = [api EXCEPT !.cluster = o]
      PROVE  /\ api' \in Objects /\ api'.machine = api.machine /\ api'.infra = api.infra
             /\ api'.cluster = o
  BY <1>2, SetCluster
<1>3. ASSUME NEW m \in Machines, NEW o \in MachineObjects, api' = [api EXCEPT !.machine[m] = o]
      PROVE  /\ api' \in Objects /\ api'.cluster = api.cluster /\ api'.infra = api.infra
             /\ api'.machine = [api.machine EXCEPT ![m] = o]
  BY <1>3, SetMachine
<1>4. CASE InfrastructureProvisioned
  <2>. DEFINE o == [api.cluster EXCEPT !.infra = TRUE]
  <2>1. o \in ClusterObjects /\ o.deleting = api.cluster.deleting /\ o.there = api.cluster.there
    BY DEF ClusterObjects
  <2>2. api' = [api EXCEPT !.cluster = o] BY <1>4 DEF InfrastructureProvisioned
  <2>. QED BY <1>2, <1>4, <2>1, <2>2 DEF InfrastructureProvisioned, manager, ChangesOther, OwnerInv
<1>5. CASE TearDown
  <2>1. CASE api.infra[HC].there
    <3>. DEFINE o == Settled([api.infra[HC] EXCEPT !.deleting = TRUE])
    <3>1. o \in InfraObjects BY InfraEdits
    <3>2. api' = [api EXCEPT !.infra[HC] = o] BY <1>5, <2>1 DEF TearDown
    <3>. QED BY <1>1, <1>5, <2>1, <3>1, <3>2 DEF TearDown, ChangesInfra
  <2>2. CASE ~api.infra[HC].there
    <3>1. NoCluster \in ClusterObjects /\ ~NoCluster.deleting BY DEF NoCluster, ClusterObjects
    <3>2. api' = [api EXCEPT !.cluster = NoCluster] BY <1>5, <2>2 DEF TearDown
    <3>. QED BY <1>2, <1>5, <2>2, <3>1, <3>2 DEF TearDown, ChangesOther
  <2>. QED BY <2>1, <2>2
<1>6. CASE \E k \in Keys : Adopt(k)
  <2>. PICK k \in Keys : Adopt(k) BY <1>6
  <2>. DEFINE o == [api.infra[k] EXCEPT !.owned = TRUE]
  <2>1. o \in InfraObjects BY InfraEdits
  <2>2. api' = [api EXCEPT !.infra[k] = o] BY DEF Adopt
  <2>3. ChangesInfra(k) BY <1>1, <2>1, <2>2 DEF Adopt, manager, ChangesInfra
  <2>. QED BY <1>1, <2>1, <2>2, <2>3 DEF Adopt, manager
<1>7. ASSUME NEW m \in Machines, MakeMachine(m)
      PROVE  api' \in Objects /\ UNCHANGED manager /\ ChangesOther
  <2>1. PICK o \in MachineObjects : api' = [api EXCEPT !.machine[m] = o] /\ o.there
    <3>1. /\ [api.machine[m] EXCEPT !.there = TRUE] \in MachineObjects
          /\ [api.machine[m] EXCEPT !.there = TRUE].there
          /\ [there |-> TRUE, data |-> TRUE] \in MachineObjects
      BY DEF MachineObjects
    <3>. QED BY <1>7, <3>1 DEF MakeMachine
  <2>2. UNCHANGED manager BY <1>7 DEF MakeMachine
  <2>3. /\ api' \in Objects /\ api'.cluster = api.cluster /\ api'.infra = api.infra
        /\ api'.machine = [api.machine EXCEPT ![m] = o]
    BY <1>3, <2>1
  <2>. QED BY <2>1, <2>2, <2>3 DEF manager, ChangesOther, OwnerInv
<1>8. ASSUME NEW m \in Machines, MakeHostMachine(m)
      PROVE  api' \in Objects /\ UNCHANGED manager /\ ChangesInfra(m)
  <2>1. PICK o \in {NewInfra(FALSE), Moved} : /\ api' = [api EXCEPT !.infra[m] = o]
                                              /\ o.owned => api.machine[m].there
    BY <1>8 DEF MakeHostMachine, NewInfra, NoInfra
  <2>2. o \in InfraObjects /\ ~o.deleting BY InfraEdits DEF NewInfra, Moved, NoInfra
  <2>3. UNCHANGED manager /\ arrival # "over" /\ ~api.infra[m].there /\ ~api.cluster.deleting
    BY <1>8 DEF MakeHostMachine
  <2>4. /\ api' \in Objects /\ api'.machine = api.machine /\ api'.cluster = api.cluster
        /\ api'.infra[m] = o /\ \A j \in Keys \ {m} : api'.infra[j] = api.infra[j]
    <3>1. m \in Keys /\ api' = [api EXCEPT !.infra[m] = o] /\ o \in InfraObjects BY <2>1, <2>2
    <3>. QED BY <1>1, <3>1
  <2>. QED BY <2>1, <2>2, <2>3, <2>4 DEF manager, ChangesInfra
<1>9. ASSUME NEW m \in Machines, PublishData(m)
      PROVE  api' \in Objects /\ UNCHANGED manager /\ ChangesOther
  <2>1. PICK o \in MachineObjects : /\ api' = [api EXCEPT !.machine[m] = o]
                                    /\ o.there = api.machine[m].there
    <3>1. /\ [api.machine[m] EXCEPT !.data = TRUE] \in MachineObjects
          /\ [api.machine[m] EXCEPT !.data = TRUE].there = api.machine[m].there
      BY DEF MachineObjects
    <3>. QED BY <1>9, <3>1 DEF PublishData
  <2>2. UNCHANGED manager BY <1>9 DEF PublishData
  <2>3. /\ api' \in Objects /\ api'.cluster = api.cluster /\ api'.infra = api.infra
        /\ api'.machine = [api.machine EXCEPT ![m] = o]
    BY <1>3, <2>1
  <2>. QED BY <2>1, <2>2, <2>3 DEF manager, ChangesOther, OwnerInv
<1>10. ASSUME NEW m \in Machines, DeleteMachine(m)
       PROVE  api' \in Objects /\ UNCHANGED manager /\ (ChangesInfra(m) \/ ChangesOther)
  <2>1. CASE api.infra[m].there
    <3>. DEFINE o == Settled([api.infra[m] EXCEPT !.deleting = TRUE])
    <3>1. o \in InfraObjects BY InfraEdits
    <3>2. api' = [api EXCEPT !.infra[m] = o] /\ UNCHANGED manager
      BY <1>10, <2>1 DEF DeleteMachine
    <3>. QED BY <1>1, <1>10, <2>1, <3>1, <3>2 DEF DeleteMachine, manager, ChangesInfra
  <2>2. CASE ~api.infra[m].there
    <3>1. NoMachine \in MachineObjects BY DEF NoMachine, MachineObjects
    <3>2. api' = [api EXCEPT !.machine[m] = NoMachine] /\ UNCHANGED manager
      BY <1>10, <2>2 DEF DeleteMachine
    <3>. QED BY <1>3, <2>2, <3>1, <3>2 DEF manager, ChangesOther, OwnerInv
  <2>. QED BY <2>1, <2>2
<1>11. CASE ApplyCluster
  <2>. DEFINE o == [NoCluster EXCEPT !.there = TRUE, !.paused = (arrival = "move")]
  <2>1. o \in ClusterObjects /\ o.there BY DEF NoCluster, ClusterObjects
  <2>2. api' = [api EXCEPT !.cluster = o] BY <1>11 DEF ApplyCluster
  <2>. QED BY <1>2, <1>11, <2>1, <2>2 DEF ApplyCluster, manager, ChangesOther, OwnerInv
<1>12. CASE ApplyHostCluster
  <2>1. PICK o \in InfraObjects : api' = [api EXCEPT !.infra[HC] = o] /\ ~o.deleting
    BY <1>12, InfraEdits DEF ApplyHostCluster, NewInfra, Moved, NoInfra
  <2>2. UNCHANGED manager /\ arrival # "over" /\ ~api.infra[HC].there /\ ~api.cluster.deleting
    BY <1>12 DEF ApplyHostCluster
  <2>3. ChangesInfra(HC) BY <1>1, <2>1, <2>2 DEF manager, ChangesInfra
  <2>. QED BY <1>1, <2>1, <2>2, <2>3 DEF manager
<1>13. CASE SetEndpoint
  <2>. DEFINE o == [api.infra[HC] EXCEPT !.endpoint = TRUE]
  <2>1. o \in InfraObjects BY InfraEdits
  <2>2. api' = [api EXCEPT !.infra[HC] = o] BY <1>13 DEF SetEndpoint
  <2>3. ChangesInfra(HC) BY <1>1, <1>13, <2>1, <2>2 DEF SetEndpoint, manager, ChangesInfra
  <2>. QED BY <1>1, <1>13, <2>1, <2>2, <2>3 DEF SetEndpoint, manager
<1>14. CASE Unpause \/ Pause \/ DeleteCluster
  <2>1. PICK o \in ClusterObjects : /\ api' = [api EXCEPT !.cluster = o]
                                    /\ o.there = api.cluster.there
                                    /\ api.cluster.deleting => o.deleting
                                    /\ o.deleting => o.there
    <3>. DEFINE p == [api.cluster EXCEPT !.paused = FALSE]
                q == [api.cluster EXCEPT !.paused = TRUE]
                r == [api.cluster EXCEPT !.deleting = TRUE]
    <3>1. CASE Unpause
      <4>1. p \in ClusterObjects /\ p.there = api.cluster.there /\ p.deleting = api.cluster.deleting
        BY DEF ClusterObjects
      <4>. QED BY <3>1, <4>1 DEF Unpause, OwnerInv
    <3>2. CASE Pause
      <4>1. q \in ClusterObjects /\ q.there = api.cluster.there /\ q.deleting = api.cluster.deleting
        BY DEF ClusterObjects
      <4>. QED BY <3>2, <4>1 DEF Pause, OwnerInv
    <3>3. CASE DeleteCluster
      <4>1. r \in ClusterObjects /\ r.there = api.cluster.there /\ r.deleting
        BY DEF ClusterObjects
      <4>. QED BY <3>3, <4>1 DEF DeleteCluster
    <3>. QED BY <1>14, <3>1, <3>2, <3>3
  <2>2. UNCHANGED manager BY <1>14 DEF Unpause, Pause, DeleteCluster
  <2>3. /\ api' \in Objects /\ api'.machine = api.machine /\ api'.infra = api.infra
        /\ api'.cluster = o
    <3>1. api' = [api EXCEPT !.cluster = o] BY <2>1
    <3>. QED BY <1>2, <3>1
  <2>4. ChangesOther BY <2>1, <2>2, <2>3 DEF manager, ChangesOther
  <2>. QED BY <2>2, <2>3, <2>4 DEF manager
<1>. QED BY <1>4, <1>5, <1>6, <1>7, <1>8, <1>9, <1>10, <1>11, <1>12, <1>13, <1>14
         DEF ClusterAPI, Operator, manager

\* What a reconcile holds.
LEMMA Held ==
    ASSUME TypeOK, NEW k \in Keys
    PROVE  /\ work[k].at = "cluster" => work[k].copy \in InfraObjects /\ work[k].data \in BOOLEAN
           /\ work[k].at = "patch" => /\ work[k].fin \in Changes /\ work[k].done \in Changes
                                      /\ work[k].again \in BOOLEAN
           /\ work[k] = Idle <=> work[k].at = "idle"
           /\ work[k].at \in {"idle", "cluster", "patch"}
<1>. work[k] \in Works BY DEF TypeOK
<1>. QED BY DEF Works, Idle

\* What it may come to hold.
LEMMA Holds ==
    /\ Idle \in Works
    /\ \A o \in InfraObjects, b \in BOOLEAN : [at |-> "cluster", copy |-> o, data |-> b] \in Works
    /\ \A f, d \in Changes, b \in BOOLEAN :
          [at |-> "patch", again |-> b, fin |-> f, done |-> d] \in Works
BY DEF Works

\* The edits of a patch.
LEMMA PatchEdits ==
    ASSUME NEW o \in InfraObjects, NEW f \in Changes, NEW d \in Changes,
           NEW patch, patch.fin = f, patch.done = d
    PROVE  /\ Patched(o, patch) \in InfraObjects
           /\ Patched(o, patch).there = o.there /\ Patched(o, patch).owned = o.owned
           /\ Patched(o, patch).deleting = o.deleting
           /\ Patched(o, patch).endpoint = o.endpoint
           /\ Patched(o, patch).fin = Applied(o.fin, f)
           /\ Patched(o, patch).done = Applied(o.done, d)
BY DEF Patched, Applied, InfraObjects

\* A reconcile that goes on to its patch.
LEMMA PatchesHeld ==
    ASSUME TypeOK, NEW k \in Keys, work[k].at = "cluster", NEW f \in BOOLEAN, NEW d \in BOOLEAN,
           NEW b \in BOOLEAN, Patches(k, f, d, b)
    PROVE  /\ work' \in [Keys -> Works]
           /\ \A j \in Keys \ {k} : work'[j] = work[j]
           /\ work'[k].at = "patch" /\ work'[k].again = b
           /\ work'[k].fin = Change(work[k].copy.fin, f)
           /\ work'[k].done = Change(work[k].copy.done, d)
           /\ UNCHANGED later
<1>. DEFINE c == Change(work[k].copy.fin, f)
            e == Change(work[k].copy.done, d)
            r == [at |-> "patch", again |-> b, fin |-> c, done |-> e]
<1>1. c \in Changes /\ e \in Changes BY DEF Change, Changes
<1>2. r \in Works BY <1>1, Holds
<1>3. work' = [work EXCEPT ![k] = r] /\ UNCHANGED later BY DEF Patches
<1>4. work \in [Keys -> Works] BY DEF TypeOK
<1>. QED BY <1>2, <1>3, <1>4

-----------------------------------------------------------------------------
(* The reconcilers.                                                        *)

\* A step of k's reconcile is well typed and no other key's business.
Local(k) ==
    /\ work' \in [Keys -> Works] /\ queue' \subseteq Keys /\ later' \subseteq Keys
    /\ givenUp' \subseteq Machines /\ UNCHANGED <<arrival, cache>>
    /\ \A j \in Keys \ {k} : /\ work'[j] = work[j]
                             /\ j \in givenUp' <=> j \in givenUp
                             /\ j \in queue' <=> j \in queue
                             /\ j \in later' <=> j \in later

\* A step that changes neither what k's reconcile holds nor what it may read.
LEMMA Kept ==
    ASSUME NEW k \in Keys, WorkInv(k), RestInv(k), work'[k] = work[k],
           k \in queue => k \in queue', k \in later => k \in queue' \cup later',
           cache'.infra[k] = cache.infra[k], cache'.cluster = cache.cluster,
           k # HC => cache'.machine[k] = cache.machine[k],
           api'.infra[k] = api.infra[k], k \in givenUp => k \in givenUp'
    PROVE  WorkInv(k)' /\ RestInv(k)'
BY DEF WorkInv, RestInv, Unqueued, Visible

\* A step after which k is queued, or will be.
LEMMA Queued ==
    ASSUME NEW k \in Keys, k \in queue' \cup later' PROVE WorkInv(k)' /\ RestInv(k)'
BY DEF WorkInv, RestInv, Unqueued

\* The start of a reconcile, which finds the object as the cache has it.
LEMMA BeginStep ==
    ASSUME TypeOK, NEW k \in Keys, Begin(k)
    PROVE  Local(k) /\ WorkInv(k)' /\ RestInv(k)'
<1>. DEFINE copy == cache.infra[k]
<1>0. /\ work \in [Keys -> Works] /\ queue \subseteq Keys /\ later \subseteq Keys
      /\ givenUp \subseteq Machines /\ givenUp' = givenUp \ {k}
      /\ copy \in InfraObjects /\ work[k] = Idle
      /\ k # HC => k \in Machines /\ cache.machine[k] \in MachineObjects
  BY Parts DEF TypeOK, Keys, Begin
<1>1. CASE ~copy.there \/ ~copy.owned
  <2>1. UNCHANGED <<arrival, api, cache, work, later>> /\ queue' = queue \ {k} BY <1>1 DEF Begin
  <2>. QED BY <1>0, <1>1, <2>1 DEF Local, WorkInv, RestInv, Visible, Idle
<1>2. CASE copy.there /\ copy.owned /\ k = HC
  <2>. DEFINE r == [at |-> "cluster", copy |-> copy, data |-> FALSE]
  <2>1. /\ UNCHANGED <<arrival, api, cache, later>> /\ queue' = queue \ {k}
        /\ work' = [work EXCEPT ![k] = r]
    BY <1>2 DEF Begin
  <2>2. r \in Works /\ r # Idle BY <1>0, Holds DEF Idle
  <2>. QED BY <1>0, <1>2, <2>1, <2>2 DEF Local, WorkInv, RestInv
<1>3. CASE copy.there /\ copy.owned /\ k # HC /\ ~cache.machine[k].there
  <2>1. /\ UNCHANGED <<arrival, api, cache>> /\ queue' = queue \ {k}
        /\ work' = [work EXCEPT ![k] = Idle] /\ later' = later \cup {k}
    BY <1>3 DEF Begin, Fails, Ends
  <2>. QED BY <1>0, <2>1, Holds, Queued DEF Local
<1>4. CASE copy.there /\ copy.owned /\ k # HC /\ cache.machine[k].there
  <2>. DEFINE r == [at |-> "cluster", copy |-> copy, data |-> cache.machine[k].data]
  <2>1. /\ UNCHANGED <<arrival, api, cache, later>> /\ queue' = queue \ {k}
        /\ work' = [work EXCEPT ![k] = r]
    BY <1>4 DEF Begin
  <2>2. cache.machine[k].data \in BOOLEAN BY <1>0, <1>4 DEF MachineObjects
  <2>3. r \in Works /\ r # Idle BY <1>0, <2>2, Holds DEF Idle
  <2>. QED BY <1>0, <1>4, <2>1, <2>3 DEF Local, WorkInv, RestInv
<1>. QED BY <1>1, <1>2, <1>3, <1>4

\* A Cluster that is not in its cache or paused, a patch that fails, a requeue.
LEMMA StopStep ==
    ASSUME TypeOK, NEW k \in Keys, WorkInv(k), RestInv(k), Blocked(k) \/ PatchFails(k) \/ Again(k)
    PROVE  Local(k) /\ WorkInv(k)' /\ RestInv(k)' /\ UNCHANGED api
<1>0. /\ work \in [Keys -> Works] /\ queue \subseteq Keys /\ later \subseteq Keys
      /\ givenUp \subseteq Machines /\ UNCHANGED givenUp
  BY DEF TypeOK, Blocked, PatchFails, Again
<1>1. CASE Blocked(k) /\ cache.cluster.there
  <2>1. /\ cache.cluster.paused /\ UNCHANGED <<arrival, api, cache, queue, later>>
        /\ work' = [work EXCEPT ![k] = Idle]
    BY <1>1 DEF Blocked, Ends
  <2>. QED BY <1>0, <2>1, Holds DEF Local, WorkInv, RestInv, Visible, Idle
<1>2. CASE (Blocked(k) /\ ~cache.cluster.there) \/ PatchFails(k)
  <2>1. /\ UNCHANGED <<arrival, api, cache, queue>>
        /\ work' = [work EXCEPT ![k] = Idle] /\ later' = later \cup {k}
    BY <1>2 DEF Blocked, PatchFails, Fails, Ends
  <2>. QED BY <1>0, <2>1, Holds, Queued DEF Local
<1>3. CASE Again(k)
  <2>1. /\ UNCHANGED <<arrival, api, cache, work>>
        /\ later' = later \ {k} /\ queue' = queue \cup {k}
    BY <1>3 DEF Again
  <2>. QED BY <1>0, <2>1, Queued DEF Local
<1>. QED BY <1>1, <1>2, <1>3

\* The steps in which a reconcile decides what its patch will carry.
Decides(k) ==
    \/ k = HC /\ ReconcileCluster
    \/ /\ k \in Machines
       /\ WaitForDependency(k) \/ AttemptHost(k) \/ GiveUpHost(k) \/ FinishHost(k)

\* Without a requeue the patch changes the object, or there is nothing to do, or only
\* what has been given up.
LEMMA DecideStep ==
    ASSUME Inv, NEW k \in Keys, Decides(k)
    PROVE  Local(k) /\ WorkInv(k)' /\ RestInv(k)' /\ UNCHANGED api
<1>. DEFINE copy == work[k].copy
<1>0. /\ TypeOK /\ WorkInv(k)
      /\ queue \subseteq Keys /\ later \subseteq Keys /\ cache.infra[k] \in InfraObjects
      /\ cache.infra[k].deleting => cache.infra[k].fin
      /\ givenUp \subseteq Machines
      /\ k \in Machines => k # HC
  BY Parts, NamesAssumption DEF Inv, TypeOK, FinalizerInv, HC
<1>1. /\ work[k].at = "cluster" /\ UNCHANGED <<arrival, api, cache, queue>>
      /\ cache.cluster.there /\ ~cache.cluster.paused
  BY DEF Decides, ReconcileCluster, WaitForDependency, AttemptHost, GiveUpHost, FinishHost,
         Proceeds
<1>2. copy \in InfraObjects /\ work[k].data \in BOOLEAN BY <1>0, <1>1, Held
<1>3. copy.done \in BOOLEAN /\ copy.endpoint \in BOOLEAN /\ copy.fin \in BOOLEAN
  BY <1>2 DEF InfraObjects
<1>4. PICK f \in BOOLEAN, d \in BOOLEAN, b \in BOOLEAN :
         /\ Patches(k, f, d, b)
         /\ ~b => \/ copy.deleting /\ ~f
                  \/ ~copy.deleting /\ f /\ k = HC /\ d = copy.endpoint
                  \/ ~copy.deleting /\ f /\ k # HC /\ (~cache.cluster.infra \/ d)
                  \/ ~copy.deleting /\ f /\ k # HC /\ k \in givenUp'
  <2>1. CASE k = HC
    <3>1. ReconcileCluster BY <1>0, <2>1 DEF Decides
    <3>. QED BY <1>3, <2>1, <3>1 DEF ReconcileCluster
  <2>2. CASE k \in Machines
    <3>1. WaitForDependency(k) \/ AttemptHost(k) \/ GiveUpHost(k) \/ FinishHost(k)
      BY <1>0, <2>2 DEF Decides
    <3>. QED BY <1>0, <1>3, <2>2, <3>1 DEF WaitForDependency, AttemptHost, GiveUpHost, FinishHost
  <2>. QED BY <2>1, <2>2 DEF Keys
<1>5. /\ work' \in [Keys -> Works] /\ UNCHANGED later
      /\ \A j \in Keys \ {k} : work'[j] = work[j]
      /\ work'[k].at = "patch" /\ work'[k].again = b
      /\ work'[k].fin = Change(copy.fin, f) /\ work'[k].done = Change(copy.done, d)
  BY <1>0, <1>1, <1>4, PatchesHeld
<1>6. Local(k)
  <2>1. \/ UNCHANGED givenUp
        \/ k \in Machines /\ givenUp' = givenUp \cup {k}
    BY DEF Decides, ReconcileCluster, WaitForDependency, AttemptHost, GiveUpHost, FinishHost
  <2>. QED BY <1>0, <1>1, <1>5, <2>1 DEF Local
<1>7. RestInv(k)' BY <1>5 DEF RestInv, Idle
<1>8. WorkInv(k)'
  <2>. SUFFICES ASSUME Unqueued(k)', ~b
                PROVE  /\ cache'.infra[k].there
                       /\ work'[k].fin  = "true"  => ~cache'.infra[k].fin
                       /\ work'[k].fin  = "false" => cache'.infra[k].fin
                       /\ work'[k].done = "true"  => ~cache'.infra[k].done
                       /\ work'[k].done = "false" => cache'.infra[k].done
                       /\ work'[k].fin = "keep" /\ work'[k].done = "keep" => ~Visible(k)'
    BY <1>5 DEF WorkInv
  <2>1. copy = cache.infra[k] /\ cache.infra[k].there /\ cache' = cache
    BY <1>0, <1>1, <1>5 DEF WorkInv, Unqueued
  <2>2. /\ work'[k].fin = "keep" => copy.fin = f
        /\ work'[k].done = "keep" => copy.done = d
        /\ work'[k].fin = "true" => ~copy.fin
        /\ work'[k].fin = "false" => copy.fin
        /\ work'[k].done = "true" => ~copy.done
        /\ work'[k].done = "false" => copy.done
    BY <1>3, <1>5 DEF Change
  <2>3. work'[k].fin = "keep" /\ work'[k].done = "keep" => ~Visible(k)'
    BY <1>0, <1>3, <1>4, <2>1, <2>2 DEF Visible
  <2>. QED BY <2>1, <2>2, <2>3
<1>. QED BY <1>1, <1>6, <1>7, <1>8

\* The patch itself: what it changes has yet to reach the cache.
LEMMA PatchStep ==
    ASSUME Inv, NEW k \in Keys, Patch(k)
    PROVE  /\ Local(k) /\ WorkInv(k)' /\ RestInv(k)'
           /\ \/ UNCHANGED api
              \/ \E o \in InfraObjects :
                    /\ api' = [api EXCEPT !.infra[k] = Settled(o)] /\ api.infra[k].there
                    /\ o.there = api.infra[k].there /\ o.owned = api.infra[k].owned
                    /\ o.deleting = api.infra[k].deleting /\ o.endpoint = api.infra[k].endpoint
<1>0. /\ TypeOK /\ WorkInv(k) /\ api \in Objects
      /\ work \in [Keys -> Works] /\ queue \subseteq Keys /\ later \subseteq Keys
      /\ api.infra[k] \in InfraObjects /\ givenUp \subseteq Machines
  BY Parts DEF Inv, TypeOK
<1>1. /\ work[k].at = "patch" /\ work' = [work EXCEPT ![k] = Idle]
      /\ UNCHANGED <<arrival, cache, queue, givenUp>>
  BY DEF Patch, Ends
<1>2. work[k].fin \in Changes /\ work[k].done \in Changes /\ work[k].again \in BOOLEAN
  BY <1>0, <1>1, Held
<1>3. CASE ~api.infra[k].there
  <2>1. UNCHANGED api /\ later' = later \cup {k} BY <1>3 DEF Patch
  <2>. QED BY <1>0, <1>1, <2>1, Holds, Queued DEF Local
<1>4. CASE api.infra[k].there
  <2>. DEFINE o == Patched(api.infra[k], work[k])
  <2>1. /\ api' = [api EXCEPT !.infra[k] = Settled(o)]
        /\ later' = IF work[k].again THEN later \cup {k} ELSE later
    BY <1>4 DEF Patch
  <2>2. /\ o \in InfraObjects /\ o.there = api.infra[k].there /\ o.owned = api.infra[k].owned
        /\ o.deleting = api.infra[k].deleting /\ o.endpoint = api.infra[k].endpoint
        /\ o.fin = Applied(api.infra[k].fin, work[k].fin)
        /\ o.done = Applied(api.infra[k].done, work[k].done)
    BY <1>0, <1>2, PatchEdits
  <2>. HIDE DEF o
  <2>3. Local(k) BY <1>0, <1>1, <2>1, Holds DEF Local
  <2>4. WorkInv(k)' BY <1>0, <1>1 DEF WorkInv, Idle
  <2>5. RestInv(k)'
    <3>. SUFFICES ASSUME Unqueued(k)', Visible(k)', cache'.infra[k] = api'.infra[k] PROVE FALSE
      BY DEF RestInv
    <3>1. ~work[k].again /\ Unqueued(k) BY <1>1, <2>1 DEF Unqueued
    <3>2. cache.infra[k].there /\ Visible(k) BY <1>1 DEF Visible
    <3>3. api'.infra[k] = Settled(o)
      <4>1. Settled(o) \in InfraObjects BY <2>2, InfraEdits
      <4>2. api'.infra = [api.infra EXCEPT ![k] = Settled(o)] BY <1>0, <2>1, <4>1, SetInfra
      <4>3. api.infra \in [Keys -> InfraObjects] BY <1>0, Parts
      <4>. QED BY <4>2, <4>3
    <3>4. cache.infra[k] = o BY <1>1, <3>2, <3>3 DEF Settled, NoInfra
    <3>5. work[k].fin # "keep" \/ work[k].done # "keep" BY <1>0, <1>1, <3>1, <3>2 DEF WorkInv
    <3>6. CASE work[k].fin # "keep"
      <4>1. o.fin <=> work[k].fin = "true" BY <2>2, <3>6 DEF Applied
      <4>. QED BY <1>0, <1>1, <1>2, <3>1, <3>4, <3>6, <4>1 DEF WorkInv, Changes
    <3>7. CASE work[k].done # "keep"
      <4>1. o.done <=> work[k].done = "true" BY <2>2, <3>7 DEF Applied
      <4>. QED BY <1>0, <1>1, <1>2, <3>1, <3>4, <3>7, <4>1 DEF WorkInv, Changes
    <3>. QED BY <3>5, <3>6, <3>7
  <2>. QED BY <1>4, <2>1, <2>2, <2>3, <2>4, <2>5
<1>. QED BY <1>3, <1>4

-----------------------------------------------------------------------------
(* The invariant.                                                          *)

\* What is known of the objects, apart from the reconcilers.
ObjectInv == OwnerInv /\ FinalizerInv /\ ForwardInv

\* An object that is changed from outside comes, goes, or gets ahead of what it was.
LEMMA ChangesForward ==
    ASSUME NEW k \in Keys, ChangesInfra(k), api.infra[k] \in InfraObjects,
           api.infra[k].deleting => api.infra[k].fin
    PROVE  /\ api'.infra[k].deleting => api'.infra[k].fin
           /\ \/ /\ ~api.infra[k].there /\ ~api.cluster.deleting /\ arrival # "over"
                 /\ ~api'.infra[k].deleting
                 /\ k # HC /\ api'.infra[k].owned => api.machine[k].there
              \/ /\ api.infra[k].there /\ api'.infra[k].there
                 /\ api.infra[k].owned => api'.infra[k].owned
                 /\ api.infra[k].endpoint => api'.infra[k].endpoint
                 /\ api.infra[k].deleting => api'.infra[k].deleting
                 /\ k # HC /\ api'.infra[k].owned => api.infra[k].owned \/ api.machine[k].there
                 /\ api'.infra[k].deleting => api.infra[k].deleting \/ api.cluster.deleting
                 /\ \/ api'.infra[k].owned /\ ~api.infra[k].owned
                    \/ api'.infra[k].endpoint /\ ~api.infra[k].endpoint
                    \/ api'.infra[k].deleting /\ ~api.infra[k].deleting
              \/ /\ ~api'.infra[k].there /\ ~api'.infra[k].deleting /\ api.cluster.deleting
<1>. DEFINE o == api.infra[k]
            n == api'.infra[k]
<1>1. CASE ~o.there /\ ~n.deleting BY <1>1 DEF ChangesInfra
<1>2. CASE o.there /\ ~o.owned /\ n = [o EXCEPT !.owned = TRUE]
           /\ (k # HC => api.machine[k].there)
  BY <1>2 DEF InfraObjects
<1>3. CASE o.there /\ ~o.endpoint /\ n = [o EXCEPT !.endpoint = TRUE]
  BY <1>3 DEF InfraObjects
<1>4. CASE o.there /\ ~o.deleting /\ api.cluster.deleting
           /\ n = Settled([o EXCEPT !.deleting = TRUE])
  <2>1. CASE o.fin
    <3>1. n = [o EXCEPT !.deleting = TRUE] BY <1>4, <2>1 DEF Settled, InfraObjects
    <3>. QED BY <1>4, <2>1, <3>1 DEF InfraObjects
  <2>2. CASE ~o.fin
    <3>1. n = NoInfra BY <1>4, <2>2 DEF Settled, InfraObjects
    <3>. QED BY <1>4, <3>1 DEF NoInfra
  <2>. QED BY <2>1, <2>2
<1>. QED BY <1>1, <1>2, <1>3, <1>4 DEF ChangesInfra

\* Changes from outside keep it; none of them brings an object back to what the cache
\* of a reconciler at rest has shown.
LEMMA EnvironmentStep ==
    ASSUME Inv, ClusterAPI \/ Operator
    PROVE  TypeOK' /\ ObjectInv' /\ \A k \in Keys : WorkInv(k)' /\ RestInv(k)'
<1>0. TypeOK /\ OwnerInv /\ FinalizerInv /\ ForwardInv BY DEF Inv
<1>1. /\ api' \in Objects /\ arrival' \in Arrivals \cup {"over"}
      /\ UNCHANGED <<cache, queue, later, work, givenUp>>
      /\ ChangesOther \/ \E k \in Keys : ChangesInfra(k)
  BY <1>0, Environment
<1>2. TypeOK' BY <1>0, <1>1 DEF TypeOK
<1>3. CASE ChangesOther
  <2>1. ObjectInv'
    BY <1>0, <1>1, <1>3 DEF ChangesOther, ObjectInv, OwnerInv, FinalizerInv, ForwardInv
  <2>2. ASSUME NEW j \in Keys PROVE WorkInv(j)' /\ RestInv(j)'
    <3>1. api'.infra[j] = api.infra[j] BY <1>3 DEF ChangesOther
    <3>2. WorkInv(j) /\ RestInv(j) BY DEF Inv
    <3>. QED BY <1>1, <3>1, <3>2, Kept
  <2>. QED BY <1>2, <2>1, <2>2
<1>4. ASSUME NEW k \in Keys, ChangesInfra(k)
      PROVE  ObjectInv' /\ \A j \in Keys : WorkInv(j)' /\ RestInv(j)'
  <2>0. /\ api.infra[k] \in InfraObjects /\ cache.infra[k] \in InfraObjects
        /\ WorkInv(k) /\ RestInv(k)
    BY <1>0, Parts DEF TypeOK, Inv
  <2>1. /\ api'.machine = api.machine /\ api'.cluster = api.cluster /\ arrival' = arrival
        /\ cache' = cache
        /\ \A j \in Keys \ {k} : api'.infra[j] = api.infra[j]
        /\ api.infra[k].deleting => api.infra[k].fin
        /\ \A m \in Machines : m # HC /\ m \in Keys
    BY <1>0, <1>1, <1>4, NamesAssumption DEF ChangesInfra, FinalizerInv, HC, Keys
  <2>2. OwnerInv'
    BY <1>0, <1>4, <2>0, <2>1, ChangesForward DEF OwnerInv
  <2>3. FinalizerInv' BY <1>0, <1>4, <2>0, <2>1, ChangesForward DEF FinalizerInv
  <2>4. ForwardInv' BY <1>0, <1>4, <2>0, <2>1, ChangesForward DEF ForwardInv
  <2>5. ASSUME NEW j \in Keys, j # k PROVE WorkInv(j)' /\ RestInv(j)'
    <3>1. api'.infra[j] = api.infra[j] BY <1>4, <2>5 DEF ChangesInfra
    <3>2. WorkInv(j) /\ RestInv(j) BY DEF Inv
    <3>. QED BY <1>1, <3>1, <3>2, Kept
  <2>6. WorkInv(k)' BY <1>1, <2>0 DEF WorkInv, Unqueued, Visible
  <2>7. RestInv(k)'
    <3>. SUFFICES ASSUME Visible(k)', cache'.infra[k] = api'.infra[k],
                         cache.infra[k] # api.infra[k]
                  PROVE  FALSE
      BY <1>1, <2>0 DEF RestInv, Unqueued, Visible
    <3>1. cache.infra[k] = api'.infra[k] /\ cache.infra[k].there /\ cache.infra[k].owned
      BY <1>1 DEF Visible
    <3>. QED BY <1>0, <1>4, <2>0, <2>1, <3>1, ChangesForward DEF ForwardInv
  <2>. QED BY <2>2, <2>3, <2>4, <2>5, <2>6, <2>7 DEF ObjectInv
<1>. QED BY <1>1, <1>2, <1>3, <1>4

\* The informers' steps: what they deliver queues everyone who reads it.
LEMMA SyncStep ==
    ASSUME Inv,
           SyncCluster \/ (\E m \in Machines : SyncMachine(m)) \/ (\E k \in Keys : SyncInfra(k))
    PROVE  TypeOK' /\ ObjectInv' /\ \A k \in Keys : WorkInv(k)' /\ RestInv(k)'
<1>0. /\ TypeOK /\ OwnerInv /\ FinalizerInv /\ ForwardInv
      /\ \A k \in Keys : WorkInv(k) /\ RestInv(k)
      /\ cache \in Objects /\ api.cluster \in ClusterObjects
      /\ api.machine \in [Machines -> MachineObjects] /\ api.infra \in [Keys -> InfraObjects]
      /\ cache.machine \in [Machines -> MachineObjects] /\ cache.infra \in [Keys -> InfraObjects]
      /\ \A m \in Machines : m # HC /\ m \in Keys
      /\ queue \subseteq Keys /\ HC \in Keys
  BY Parts, NamesAssumption DEF Inv, TypeOK, HC, Keys
<1>1. CASE SyncCluster
  <2>1. /\ cache' = [cache EXCEPT !.cluster = api.cluster]
        /\ queue' = queue \cup {m \in Machines : cache.machine[m].there} \cup {HC}
        /\ UNCHANGED <<arrival, api, later, work, givenUp>>
    BY <1>1 DEF SyncCluster, ClusterToHostMachines, ClusterToHostCluster
  <2>2. /\ cache' \in Objects /\ cache'.machine = cache.machine /\ cache'.infra = cache.infra
    BY <1>0, <2>1, SetCluster
  <2>3. TypeOK' BY <1>0, <2>1, <2>2 DEF TypeOK
  <2>4. ObjectInv' BY <1>0, <2>1, <2>2 DEF ObjectInv, OwnerInv, FinalizerInv, ForwardInv
  <2>5. ASSUME NEW k \in Keys PROVE WorkInv(k)' /\ RestInv(k)'
    <3>1. CASE k = HC \/ cache.machine[k].there
      <4>1. k \in queue' BY <1>0, <2>1, <3>1 DEF Keys
      <4>. QED BY <4>1, Queued
    <3>2. CASE k # HC /\ ~cache.machine[k].there
      <4>1. ~Visible(k)' BY <2>2, <3>2 DEF Visible
      <4>. QED BY <1>0, <2>1, <2>2, <4>1 DEF WorkInv, RestInv, Unqueued
    <3>. QED BY <3>1, <3>2
  <2>. QED BY <2>3, <2>4, <2>5
<1>2. ASSUME NEW m \in Machines, SyncMachine(m)
      PROVE  TypeOK' /\ ObjectInv' /\ \A k \in Keys : WorkInv(k)' /\ RestInv(k)'
  <2>1. /\ cache' = [cache EXCEPT !.machine[m] = api.machine[m]] /\ queue' = queue \cup {m}
        /\ UNCHANGED <<arrival, api, later, work, givenUp>>
    BY <1>2 DEF SyncMachine
  <2>2. /\ cache' \in Objects /\ cache'.cluster = cache.cluster /\ cache'.infra = cache.infra
        /\ cache'.machine = [cache.machine EXCEPT ![m] = api.machine[m]]
    BY <1>0, <2>1, SetMachine
  <2>3. TypeOK' BY <1>0, <2>1, <2>2 DEF TypeOK
  <2>4. ObjectInv' BY <1>0, <2>1, <2>2 DEF ObjectInv, OwnerInv, FinalizerInv, ForwardInv
  <2>5. ASSUME NEW k \in Keys PROVE WorkInv(k)' /\ RestInv(k)'
    <3>1. CASE k = m BY <2>1, <3>1, Queued
    <3>2. CASE k # m
      <4>1. k # HC => cache'.machine[k] = cache.machine[k] BY <1>0, <2>2, <3>2 DEF Keys
      <4>. QED BY <1>0, <2>1, <2>2, <4>1, Kept
    <3>. QED BY <3>1, <3>2
  <2>. QED BY <2>3, <2>4, <2>5
<1>3. ASSUME NEW i \in Keys, SyncInfra(i)
      PROVE  TypeOK' /\ ObjectInv' /\ \A k \in Keys : WorkInv(k)' /\ RestInv(k)'
  <2>1. /\ cache' = [cache EXCEPT !.infra[i] = api.infra[i]] /\ queue' = queue \cup {i}
        /\ UNCHANGED <<arrival, api, later, work, givenUp>>
    BY <1>3 DEF SyncInfra
  <2>2. /\ cache' \in Objects /\ cache'.cluster = cache.cluster /\ cache'.machine = cache.machine
        /\ cache'.infra = [cache.infra EXCEPT ![i] = api.infra[i]]
    BY <1>0, <2>1, SetInfra
  <2>3. TypeOK' BY <1>0, <2>1, <2>2 DEF TypeOK
  <2>4. ObjectInv' BY <1>0, <2>1, <2>2 DEF ObjectInv, OwnerInv, FinalizerInv, ForwardInv
  <2>5. ASSUME NEW k \in Keys PROVE WorkInv(k)' /\ RestInv(k)'
    <3>1. CASE k = i BY <2>1, <3>1, Queued
    <3>2. CASE k # i
      <4>1. cache'.infra[k] = cache.infra[k] BY <1>0, <2>2, <3>2
      <4>. QED BY <1>0, <2>1, <2>2, <4>1, Kept
    <3>. QED BY <3>1, <3>2
  <2>. QED BY <2>3, <2>4, <2>5
<1>. QED BY <1>1, <1>2, <1>3

\* A new manager has listed everything that is there.
LEMMA RestartStep ==
    ASSUME Inv, Restart
    PROVE  TypeOK' /\ ObjectInv' /\ \A k \in Keys : WorkInv(k)' /\ RestInv(k)'
<1>0. TypeOK /\ OwnerInv /\ FinalizerInv /\ ForwardInv BY DEF Inv
<1>1. /\ cache' = api /\ queue' = {k \in Keys : api.infra[k].there} /\ later' = {}
      /\ work' = [k \in Keys |-> Idle] /\ givenUp' = {} /\ UNCHANGED <<arrival, api>>
  BY DEF Restart
<1>2. TypeOK' BY <1>0, <1>1, Holds DEF TypeOK
<1>3. ObjectInv' BY <1>0, <1>1 DEF ObjectInv, OwnerInv, FinalizerInv, ForwardInv
<1>4. ASSUME NEW k \in Keys PROVE WorkInv(k)' /\ RestInv(k)'
  BY <1>1 DEF WorkInv, RestInv, Unqueued, Visible, Idle
<1>. QED BY <1>2, <1>3, <1>4

\* A step of a reconciler.
LEMMA ReconcilerStep ==
    ASSUME Inv, NEW k \in Keys,
           Begin(k) \/ Blocked(k) \/ PatchFails(k) \/ Again(k) \/ Decides(k) \/ Patch(k)
    PROVE  TypeOK' /\ ObjectInv' /\ \A j \in Keys : WorkInv(j)' /\ RestInv(j)'
<1>0. /\ TypeOK /\ OwnerInv /\ FinalizerInv /\ ForwardInv /\ api \in Objects
      /\ \A j \in Keys : WorkInv(j) /\ RestInv(j)
      /\ api.infra \in [Keys -> InfraObjects]
      /\ \A m \in Machines : m \in Keys
  BY Parts DEF Inv, TypeOK, Keys
<1>1. /\ Local(k) /\ WorkInv(k)' /\ RestInv(k)'
      /\ \/ UNCHANGED api
         \/ \E o \in InfraObjects :
               /\ api' = [api EXCEPT !.infra[k] = Settled(o)] /\ api.infra[k].there
               /\ o.there = api.infra[k].there /\ o.owned = api.infra[k].owned
               /\ o.deleting = api.infra[k].deleting /\ o.endpoint = api.infra[k].endpoint
  <2>1. CASE Begin(k) BY <1>0, <2>1, BeginStep DEF Begin
  <2>2. CASE Blocked(k) \/ PatchFails(k) \/ Again(k) BY <1>0, <2>2, StopStep
  <2>3. CASE Decides(k) BY <2>3, DecideStep
  <2>4. CASE Patch(k) BY <2>4, PatchStep
  <2>. QED BY <2>1, <2>2, <2>3, <2>4
<1>2. CASE UNCHANGED api
  <2>1. TypeOK' BY <1>0, <1>1, <1>2 DEF TypeOK, Local
  <2>2. ObjectInv'
    BY <1>0, <1>1, <1>2 DEF Local, ObjectInv, OwnerInv, FinalizerInv, ForwardInv
  <2>3. ASSUME NEW j \in Keys, j # k PROVE WorkInv(j)' /\ RestInv(j)'
    BY <1>0, <1>1, <1>2, <2>3, Kept DEF Local
  <2>. QED BY <1>1, <2>1, <2>2, <2>3
<1>3. ASSUME NEW o \in InfraObjects,
             api' = [api EXCEPT !.infra[k] = Settled(o)], api.infra[k].there,
             o.there = api.infra[k].there, o.owned = api.infra[k].owned,
             o.deleting = api.infra[k].deleting, o.endpoint = api.infra[k].endpoint
      PROVE  TypeOK' /\ ObjectInv' /\ \A j \in Keys : WorkInv(j)' /\ RestInv(j)'
  <2>0. Settled(o) \in InfraObjects BY InfraEdits
  <2>1. /\ api' \in Objects /\ api'.cluster = api.cluster /\ api'.machine = api.machine
        /\ api'.infra = [api.infra EXCEPT ![k] = Settled(o)]
    BY <1>0, <1>3, <2>0, SetInfra
  <2>2. /\ api'.infra[k] = Settled(o)
        /\ \A j \in Keys \ {k} : api'.infra[j] = api.infra[j]
    BY <1>0, <2>1
  <2>3. TypeOK' BY <1>0, <1>1, <2>1 DEF TypeOK, Local
  <2>4. /\ api'.infra[k].owned => o.owned
        /\ api'.infra[k].deleting => o.deleting /\ api'.infra[k].fin
        /\ \/ ~api'.infra[k].there /\ o.deleting
           \/ /\ api'.infra[k].there /\ api'.infra[k].owned = o.owned
              /\ api'.infra[k].endpoint = o.endpoint /\ api'.infra[k].deleting = o.deleting
    <3>1. CASE o.deleting /\ ~o.fin
      <4>1. api'.infra[k] = NoInfra BY <2>2, <3>1 DEF Settled
      <4>. QED BY <3>1, <4>1 DEF NoInfra
    <3>2. CASE ~(o.deleting /\ ~o.fin)
      <4>1. api'.infra[k] = o BY <2>2, <3>2 DEF Settled
      <4>. QED BY <1>3, <3>2, <4>1
    <3>. QED BY <3>1, <3>2
  <2>5. OwnerInv' BY <1>0, <1>1, <1>3, <2>1, <2>2, <2>4 DEF Local, OwnerInv
  <2>6. FinalizerInv' BY <1>0, <1>1, <2>2, <2>4 DEF Local, FinalizerInv
  <2>7. ForwardInv'
    <3>1. o.deleting => api.cluster.deleting \/ arrival = "over" BY <1>0, <1>3 DEF OwnerInv
    <3>. QED BY <1>0, <1>1, <1>3, <2>1, <2>2, <2>4, <3>1 DEF Local, ForwardInv
  <2>8. ASSUME NEW j \in Keys, j # k PROVE WorkInv(j)' /\ RestInv(j)'
    BY <1>0, <1>1, <2>2, <2>8, Kept DEF Local
  <2>. QED BY <1>1, <2>3, <2>5, <2>6, <2>7, <2>8 DEF ObjectInv
<1>. QED BY <1>1, <1>2, <1>3

\* Nothing is queued and nothing is there.
LEMMA InvInit == Init => Inv
<1>. SUFFICES ASSUME Init PROVE Inv
  OBVIOUS
<1>1. Nothing \in Objects
  <2>1. NoCluster \in ClusterObjects /\ NoMachine \in MachineObjects /\ NoInfra \in InfraObjects
    BY DEF NoCluster, ClusterObjects, NoMachine, MachineObjects, NoInfra, InfraObjects
  <2>. QED BY <2>1 DEF Nothing, Objects
<1>2. TypeOK BY <1>1, Holds DEF Init, TypeOK
<1>3. /\ \A k \in Keys : api.infra[k] = NoInfra /\ cache.infra[k] = NoInfra
      /\ api.cluster = NoCluster /\ \A m \in Machines : m \in Keys
  BY DEF Init, Nothing, Keys
<1>4. OwnerInv /\ FinalizerInv /\ ForwardInv
  BY <1>3 DEF OwnerInv, FinalizerInv, ForwardInv, NoInfra, NoCluster
<1>5. ASSUME NEW k \in Keys PROVE WorkInv(k) /\ RestInv(k)
  <2>1. ~Visible(k) BY <1>3 DEF Visible, NoInfra
  <2>. QED BY <2>1 DEF Init, WorkInv, RestInv, Idle
<1>. QED BY <1>2, <1>4, <1>5 DEF Inv

\* Every step keeps the invariant.
LEMMA InvStep == Inv /\ [Next]_vars => Inv'
<1>. SUFFICES ASSUME Inv, [Next]_vars PROVE Inv'
  OBVIOUS
<1>1. CASE ClusterAPI \/ Operator BY <1>1, EnvironmentStep DEF Inv, ObjectInv
<1>2. CASE \/ SyncCluster \/ (\E m \in Machines : SyncMachine(m))
           \/ (\E k \in Keys : SyncInfra(k))
  BY <1>2, SyncStep DEF Inv, ObjectInv
<1>3. CASE Restart BY <1>3, RestartStep DEF Inv, ObjectInv
<1>4. CASE \E k \in Keys :
              Begin(k) \/ Blocked(k) \/ PatchFails(k) \/ Again(k) \/ Decides(k) \/ Patch(k)
  BY <1>4, ReconcilerStep DEF Inv, ObjectInv
<1>5. CASE UNCHANGED vars
  <2>1. TypeOK' BY <1>5 DEF Inv, TypeOK, vars
  <2>2. ObjectInv' BY <1>5 DEF Inv, ObjectInv, OwnerInv, FinalizerInv, ForwardInv, vars
  <2>3. ASSUME NEW k \in Keys PROVE WorkInv(k)' /\ RestInv(k)'
    <3>1. WorkInv(k) /\ RestInv(k) BY DEF Inv
    <3>. QED BY <1>5, <3>1 DEF WorkInv, RestInv, Unqueued, Visible, vars
  <2>. QED BY <2>1, <2>2, <2>3 DEF Inv, ObjectInv
<1>6. HC \in Keys /\ \A m \in Machines : m \in Keys BY DEF Keys
<1>. QED BY <1>1, <1>2, <1>3, <1>4, <1>5, <1>6
         DEF Next, Reconciler, MachineReconciler, Decides

\* So it holds throughout.
LEMMA Invariance == Spec => []Inv
BY InvInit, InvStep, PTL DEF Spec

\* The API server, the caches, the queues and the reconciles are well typed.
THEOREM TypeCorrect == Spec => []TypeOK
<1>1. Inv => TypeOK BY DEF Inv
<1>. QED BY <1>1, Invariance, PTL

\* No wake-up is lost, for any number of machines: whenever there is something to do
\* for a HostCluster or HostMachine, other than the bootstrap of a machine whose last
\* reconcile gave up on its host without a requeue, it is queued, will be queued, is
\* being reconciled, or an informer that will queue it has an event to deliver; through
\* pauses, moves, failing patches and new managers, and in every order of the informers.
THEOREM WakeupsAreNotLost == Spec => []NoLostWakeup
<1>1. ASSUME Inv PROVE NoLostWakeup
  <2>. SUFFICES ASSUME NEW k \in Keys, Actionable(k), k \notin queue \cup later, work[k] = Idle,
                       cache.infra[k] = api.infra[k], cache.cluster = api.cluster,
                       k # HC => cache.machine[k] = api.machine[k]
                PROVE  FALSE
    BY DEF NoLostWakeup
  <2>1. ~Visible(k) BY <1>1 DEF Inv, RestInv, Unqueued
  <2>2. k # HC => api.machine[k].there BY <1>1 DEF Inv, OwnerInv, Actionable, Keys
  <2>. QED BY <2>1, <2>2 DEF Visible, Actionable, Active
<1>2. Inv => NoLostWakeup BY <1>1
<1>. QED BY <1>2, Invariance, PTL
=============================================================================
