----------------------------- MODULE Management -----------------------------
(***************************************************************************)
(* The kg commands over the life of several clusters on one genesis node:  *)
(* init, cluster create, eject (release or self-manage), cluster delete,   *)
(* cluster forget, clusters, kubeconfig and reset.  Who manages a cluster  *)
(* is spread over three places that no transaction joins: the Cluster      *)
(* object on the genesis node, the copy a move leaves in the cluster       *)
(* itself, and the record in the local registry.  A command writes them    *)
(* one at a time and may stop between any two writes.  Whether there is a  *)
(* genesis node at all is read from a fourth place, its kubeconfig on disk.*)
(***************************************************************************)
EXTENDS Integers, FiniteSets

CONSTANTS
    Clusters,   \* the configurations, one identity each
    Namespace,  \* Namespace[c]: the namespace c's objects live in
    Modes,      \* the ways clusters are ejected, a subset of {"Released", "SelfManaged"}
    Worlds,     \* what may happen: sets of FaultKinds, one of which holds throughout
    MaxEra      \* bound: how often a cluster of one identity is built

\* stop: a command is killed or a write fails.  pause: an operator pauses a
\* Cluster for maintenance.  strayMove: clusterctl leaves Hosts or HostMachines
\* behind.  concurrent: commands for different clusters run at the same time.
FaultKinds == {"stop", "pause", "strayMove", "concurrent"}

ASSUME ModesAssumption  == Modes \subseteq {"Released", "SelfManaged"}
ASSUME WorldsAssumption == Worlds \subseteq SUBSET FaultKinds
ASSUME EraAssumption    == MaxEra \in Nat

VARIABLES
    faults,     \* the world this is
    genesis,    \* the bootstrap cluster is up
    file,       \* its kubeconfig on disk; "dead" when kind has removed the context
    object,     \* object[c]: the Cluster on the genesis node
    landed,     \* landed[c]: what a move has put into cluster c
    record,     \* record[c]: the mode in the local registry, "none" without one
    era,        \* era[c]: how often c has been built; its CA differs each time
    saved,      \* saved[c]: the era of the kubeconfig on disk, 0 without one
    cmd         \* cmd[c]: the running command for c, and its next write

vars == <<faults, genesis, file, object, landed, record, era, saved, cmd>>

-----------------------------------------------------------------------------

\* paused is spec.paused; released remembers that kg eject set it (history only).
NoObject  == [there |-> FALSE, paused |-> FALSE, released |-> FALSE, deleting |-> FALSE,
              ready |-> FALSE]
NewObject == [NoObject EXCEPT !.there = TRUE]
Objects   == [there: BOOLEAN, paused: BOOLEAN, released: BOOLEAN, deleting: BOOLEAN,
              ready: BOOLEAN]
Done      == [next |-> "idle", mode |-> "none"]

TypeOK ==
    /\ faults \in Worlds
    /\ genesis \in BOOLEAN /\ file \in {"none", "good", "dead"}
    /\ object \in [Clusters -> Objects]
    /\ landed \in [Clusters -> {"none", "copy", "part", "whole", "retired"}]
    /\ record \in [Clusters -> {"none", "Managed", "Released", "SelfManaged"}]
    /\ era \in [Clusters -> 0 .. MaxEra] /\ saved \in [Clusters -> 0 .. MaxEra]
    /\ cmd \in [Clusters -> [next: {"idle", "apply", "remember", "save", "confirm", "pause",
                                    "moveOut", "moveIn", "verify", "hand", "count",
                                    "teardown", "remove", "delete", "wait", "export"},
                             mode: {"none", "Released", "SelfManaged"}]]

Init ==
    /\ faults \in Worlds
    /\ genesis = FALSE /\ file = "none"
    /\ object = [c \in Clusters |-> NoObject]
    /\ landed = [c \in Clusters |-> "none"]
    /\ record = [c \in Clusters |-> "none"]
    /\ era    = [c \in Clusters |-> 0]
    /\ saved  = [c \in Clusters |-> 0]
    /\ cmd    = [c \in Clusters |-> Done]

\* Mutant: the registry is not asked.
Unchecked(c) == TRUE

\* requireGenesisManaged.
RequireGenesisManaged(c) == record[c] \in {"none", "Managed"}

\* A command for c may start.
Idle(c) == IF "concurrent" \in faults THEN cmd[c] = Done ELSE \A d \in Clusters : cmd[d] = Done

\* The registry's Put, one file per identity replaced by a rename, and Forget.
Put(c, mode) == record' = [record EXCEPT ![c] = mode]
Drop(c)      == record' = [record EXCEPT ![c] = "none"]

Then(c, next) == cmd' = [cmd EXCEPT ![c].next = next]
Finish(c)     == cmd' = [cmd EXCEPT ![c] = Done]
Start(c, next, mode) == cmd' = [cmd EXCEPT ![c] = [next |-> next, mode |-> mode]]

\* kube.NewClient: there is a kubeconfig, and the genesis node answers.
Up == genesis /\ file = "good"

Siblings(c) == {d \in Clusters : Namespace[d] = Namespace[c]}

-----------------------------------------------------------------------------
(* init and cluster create.                                                *)

\* The bootstrap cluster is created, or adopted; everything else init applies
\* is applied again by create.
InitGenesis(c) ==
    /\ Idle(c) /\ RequireGenesisManaged(c)
    /\ genesis' = TRUE
    /\ Start(c, "export", "none")
    /\ UNCHANGED <<faults, file, object, landed, record, era, saved>>

\* kind writes the kubeconfig when the node is there.
Export(c) ==
    /\ cmd[c].next = "export" /\ genesis
    /\ file' = "good"
    /\ Finish(c)
    /\ UNCHANGED <<faults, genesis, object, landed, record, era, saved>>

BeginCreate(c) ==
    /\ Idle(c) /\ RequireGenesisManaged(c) /\ Up
    /\ Start(c, "apply", "none")
    /\ UNCHANGED <<faults, file, genesis, object, landed, record, era, saved>>

\* Mutant: applying to a cluster that exists builds it anew.
ApplyAnew(c) ==
    /\ cmd[c].next = "apply" /\ genesis
    /\ object' = [object EXCEPT ![c] = NewObject]
    /\ era' = [era EXCEPT ![c] = @ + 1]
    /\ Then(c, "remember")
    /\ UNCHANGED <<faults, file, genesis, landed, record, saved>>

\* A server-side apply: a Cluster that is there keeps what the manifest does
\* not mention, spec.paused included.
Apply(c) ==
    /\ cmd[c].next = "apply" /\ genesis
    /\ \/ object[c].there /\ UNCHANGED <<object, era>>
       \/ /\ ~object[c].there /\ era[c] < MaxEra
          /\ object' = [object EXCEPT ![c] = NewObject]
          /\ era' = [era EXCEPT ![c] = @ + 1]
    /\ Then(c, "remember")
    /\ UNCHANGED <<faults, file, genesis, landed, record, saved>>

Remember(c) ==
    /\ cmd[c].next = "remember"
    /\ Put(c, "Managed")
    /\ Finish(c)
    /\ UNCHANGED <<faults, file, genesis, object, landed, era, saved>>

-----------------------------------------------------------------------------
(* eject.                                                                  *)

BeginEject(c, mode) ==
    /\ Idle(c) /\ RequireGenesisManaged(c) /\ Up
    /\ object[c].there /\ object[c].ready
    /\ Start(c, "save", mode)
    /\ UNCHANGED <<faults, file, genesis, object, landed, record, era, saved>>

\* Mutant: a kubeconfig that is already on disk is kept.
SaveOnce(c) ==
    /\ cmd[c].next = "save" /\ Up /\ object[c].there
    /\ saved' = [saved EXCEPT ![c] = IF @ = 0 THEN era[c] ELSE @]
    /\ Then(c, "confirm")
    /\ UNCHANGED <<faults, file, genesis, object, landed, record, era>>

SaveKubeconfig(c) ==
    /\ cmd[c].next = "save" /\ Up /\ object[c].there
    /\ saved' = [saved EXCEPT ![c] = era[c]]
    /\ Then(c, "confirm")
    /\ UNCHANGED <<faults, file, genesis, object, landed, record, era>>

\* checkSelfManageable: whether replicas and spare hosts suffice is left open.
CheckSelfManageable(c) == Then(c, "moveOut") \/ Finish(c)

\* The record is confirmed as managed before the cluster is let go.
Confirm(c) ==
    /\ cmd[c].next = "confirm"
    /\ Put(c, "Managed")
    /\ \/ cmd[c].mode = "Released"    /\ Then(c, "pause")
       \/ cmd[c].mode = "SelfManaged" /\ CheckSelfManageable(c)
    /\ UNCHANGED <<faults, file, genesis, object, landed, era, saved>>

PauseCluster(c) ==
    /\ cmd[c].next = "pause" /\ genesis /\ object[c].there
    /\ object' = [object EXCEPT ![c].paused = TRUE, ![c].released = TRUE]
    /\ Then(c, "hand")
    /\ UNCHANGED <<faults, file, genesis, landed, record, era, saved>>

\* clusterctl move: it refuses while a Cluster of the namespace is not ready,
\* pauses every one of them, copies the objects, and deletes the originals.
MoveOut(c) ==
    /\ cmd[c].next = "moveOut" /\ Up /\ object[c].there
    /\ \A d \in Siblings(c) : object[d].there => object[d].ready
    /\ object' = [d \in Clusters |-> IF d \in Siblings(c) /\ object[d].there
                                     THEN [object[d] EXCEPT !.paused = TRUE] ELSE object[d]]
    /\ landed' = [d \in Clusters |-> IF d \in Siblings(c) /\ object[d].there
                                     THEN "copy" ELSE landed[d]]
    /\ Then(c, "moveIn")
    /\ UNCHANGED <<faults, file, genesis, record, era, saved>>

MoveIn(c) ==
    /\ cmd[c].next = "moveIn" /\ genesis
    /\ \E what \in {"whole"} \cup (IF "strayMove" \in faults THEN {"part"} ELSE {}) :
         landed' = [d \in Clusters |-> IF d \in Siblings(c) /\ landed[d] = "copy"
                                       THEN what ELSE landed[d]]
    /\ object' = [d \in Clusters |-> IF d \in Siblings(c) THEN NoObject ELSE object[d]]
    /\ Then(c, "verify")
    /\ UNCHANGED <<faults, file, genesis, record, era, saved>>

\* Mutant: the Cluster is looked for, its inventory is not counted.
VerifyPresence(c) ==
    /\ cmd[c].next = "verify"
    /\ IF landed[c] # "none" THEN Then(c, "hand") ELSE Finish(c)
    /\ UNCHANGED <<faults, file, genesis, object, landed, record, era, saved>>

\* verifyMoved.  The code takes a move for whole when the Cluster is there with as
\* many Hosts and HostMachines as the genesis node had; that is what "whole" stands for.
VerifyMoved(c) ==
    /\ cmd[c].next = "verify"
    /\ IF landed[c] = "whole" THEN Then(c, "hand") ELSE Finish(c)
    /\ UNCHANGED <<faults, file, genesis, object, landed, record, era, saved>>

HandOver(c) ==
    /\ cmd[c].next = "hand"
    /\ Put(c, cmd[c].mode)
    /\ Then(c, "count")
    /\ UNCHANGED <<faults, file, genesis, object, landed, era, saved>>

\* Mutant: a cluster that is not up yet does not count.
RemainingReady(c) ==
    {d \in Clusters : object[d].there /\ Namespace[d] # Namespace[c] /\ ~object[d].paused
                      /\ object[d].ready}

\* clustersRemaining.
Remaining(c) ==
    {d \in Clusters : object[d].there /\ Namespace[d] # Namespace[c] /\ ~object[d].paused}

Count(c) ==
    /\ cmd[c].next = "count" /\ genesis
    /\ \/ Remaining(c) = {} /\ Then(c, "teardown")
       \/ Finish(c)     \* some are left, or --keep-bootstrap
    /\ UNCHANGED <<faults, file, genesis, object, landed, record, era, saved>>

\* kind's Delete: it takes its context out of the file, and leaves the file.
KindDelete ==
    /\ genesis' = FALSE
    /\ object' = [c \in Clusters |-> NoObject]
    /\ file' = IF file = "good" THEN "dead" ELSE file

\* Mutant: the file is left to kind.
TeardownLeaving(c) ==
    /\ cmd[c].next = "teardown"
    /\ KindDelete
    /\ Finish(c)
    /\ UNCHANGED <<faults, landed, record, era, saved>>

Teardown(c) ==
    /\ cmd[c].next = "teardown"
    /\ KindDelete
    /\ Then(c, "remove")
    /\ UNCHANGED <<faults, landed, record, era, saved>>

\* os.Remove, by eject and by reset.
RemoveFile(c) ==
    /\ cmd[c].next = "remove"
    /\ file' = "none"
    /\ Finish(c)
    /\ UNCHANGED <<faults, genesis, object, landed, record, era, saved>>

-----------------------------------------------------------------------------
(* The other commands.                                                     *)

BeginDelete(c) ==
    /\ Idle(c) /\ RequireGenesisManaged(c) /\ Up
    /\ Start(c, "delete", "none")
    /\ UNCHANGED <<faults, file, genesis, object, landed, record, era, saved>>

DeleteCluster(c) ==
    /\ cmd[c].next = "delete" /\ genesis
    /\ \/ /\ object[c].there
          /\ object' = [object EXCEPT ![c].deleting = TRUE]
          /\ Then(c, "wait") /\ UNCHANGED record
       \/ /\ ~object[c].there
          /\ Drop(c)
          /\ Finish(c) /\ UNCHANGED object
    /\ UNCHANGED <<faults, file, genesis, landed, era, saved>>

\* waitForClusterGone: the object is gone, or the timeout expires first.
WaitForClusterGone(c) ==
    /\ cmd[c].next = "wait" /\ genesis
    /\ IF object[c].there THEN UNCHANGED record ELSE Drop(c)
    /\ Finish(c)
    /\ UNCHANGED <<faults, file, genesis, object, landed, era, saved>>

\* cluster forget.  An operator uses it on a cluster that manages itself only
\* after retiring it, as the refusals of the other commands say.
Forget(c) ==
    /\ Idle(c) /\ record[c] # "none"
    /\ record[c] = "SelfManaged" => landed[c] = "retired"
    /\ Drop(c)
    /\ UNCHANGED <<faults, file, genesis, object, landed, era, saved, cmd>>

\* kg clusters adds the identities it finds and does not know.
Discover(c) ==
    /\ Idle(c) /\ Up /\ object[c].there /\ record[c] = "none"
    /\ Put(c, "Managed")
    /\ UNCHANGED <<faults, file, genesis, object, landed, era, saved, cmd>>

\* requireWorkloadKubeconfig: the registered manager is there to be asked.  Otherwise,
\* and for a released cluster, the file is all there is.
ManagerAnswers(c) ==
    \/ record[c] \in {"none", "Managed"} /\ Up /\ object[c].there
    \/ record[c] = "SelfManaged" /\ landed[c] = "whole"

\* kg kubeconfig and kg cni install; eject --dry-run does the same.
WriteKubeconfig(c) ==
    /\ Idle(c) /\ ManagerAnswers(c)
    /\ saved' = [saved EXCEPT ![c] = era[c]]
    /\ UNCHANGED <<faults, file, genesis, object, landed, record, era, cmd>>

\* kg reset asks for no more than a confirmation, and does nothing when kind does
\* not know the cluster.
ResetGenesis(c) ==
    /\ Idle(c) /\ genesis
    /\ KindDelete
    /\ Start(c, "remove", "none")
    /\ UNCHANGED <<faults, landed, record, era, saved>>

-----------------------------------------------------------------------------
(* Cluster API, the operator's kubectl, and failures.                      *)

BecomeReady(c) ==
    /\ object[c].there /\ ~object[c].ready /\ ~object[c].paused /\ ~object[c].deleting
    /\ object' = [object EXCEPT ![c].ready = TRUE]
    /\ UNCHANGED <<faults, file, genesis, landed, record, era, saved, cmd>>

TornDown(c) ==
    /\ object[c].deleting /\ ~object[c].paused
    /\ object' = [object EXCEPT ![c] = NoObject]
    /\ UNCHANGED <<faults, file, genesis, landed, record, era, saved, cmd>>

Maintain(c) ==
    /\ "pause" \in faults /\ cmd[c] = Done
    /\ object[c].there /\ record[c] = "Managed"
    /\ object' = [object EXCEPT ![c].paused = ~@, ![c].released = FALSE]
    /\ UNCHANGED <<faults, file, genesis, landed, record, era, saved, cmd>>

\* The operator takes a cluster that manages itself out of service.
Retire(c) ==
    /\ landed[c] = "whole" /\ record[c] = "SelfManaged"
    /\ landed' = [landed EXCEPT ![c] = "retired"]
    /\ UNCHANGED <<faults, file, genesis, object, record, era, saved, cmd>>

\* The next call of c's command cannot succeed: the genesis node or the Cluster
\* has gone, clusterctl refuses to move, or the bound on eras is reached.
Fails(c) ==
    \/ ~genesis /\ cmd[c].next \notin {"idle", "remember", "confirm", "verify", "hand",
                                         "teardown", "remove"}
    \/ ~Up /\ cmd[c].next \in {"save", "moveOut"}
    \/ ~object[c].there /\ cmd[c].next \in {"save", "pause", "moveOut"}
    \/ cmd[c].next = "moveOut" /\ \E d \in Siblings(c) : object[d].there /\ ~object[d].ready
    \/ cmd[c].next = "apply" /\ ~object[c].there /\ era[c] = MaxEra

\* The command ends without its next write: that fails, or the command is killed.
Interrupt(c) ==
    /\ cmd[c] # Done
    /\ "stop" \in faults \/ Fails(c)
    /\ Finish(c)
    /\ UNCHANGED <<faults, file, genesis, object, landed, record, era, saved>>

-----------------------------------------------------------------------------

Command(c) ==
    \/ InitGenesis(c) \/ Export(c) \/ BeginCreate(c) \/ Apply(c) \/ Remember(c)
    \/ \E mode \in Modes : BeginEject(c, mode)
    \/ SaveKubeconfig(c) \/ Confirm(c) \/ PauseCluster(c)
    \/ MoveOut(c) \/ MoveIn(c) \/ VerifyMoved(c) \/ HandOver(c) \/ Count(c) \/ Teardown(c)
    \/ RemoveFile(c) \/ ResetGenesis(c)
    \/ BeginDelete(c) \/ DeleteCluster(c) \/ WaitForClusterGone(c)
    \/ Forget(c) \/ Discover(c) \/ WriteKubeconfig(c)

Next ==
    \E c \in Clusters : \/ Command(c) \/ BecomeReady(c) \/ TornDown(c) \/ Maintain(c)
                        \/ Retire(c) \/ Interrupt(c)

Spec == Init /\ [][Next]_vars

-----------------------------------------------------------------------------
(* Properties.                                                             *)

\* One command at a time, none of them stopped, and no pause that is not kg's own.
Orderly == faults \subseteq {"strayMove"}

\* In an orderly world a cluster that has taken over its own management is not
\* managed by the genesis node as well: an old configuration cannot bring it back.
OneManager ==
    Orderly => \A c \in Clusters :
        ~(object[c].there /\ ~object[c].paused /\ landed[c] = "whole")

\* In an orderly world, between commands, the kubeconfig of the genesis node is on
\* disk exactly while it runs: later commands take the one for the other.
FileTellsGenesis ==
    Orderly /\ (\A c \in Clusters : cmd[c] = Done) => (genesis <=> file # "none")

\* While the genesis node still holds a cluster that the registry calls
\* released, the cluster is paused there: its machines are not acted on.
ReleasedIsPaused ==
    \A c \in Clusters : record[c] = "Released" /\ object[c].there => object[c].paused

\* In an orderly world eject tears the genesis node down only when every other
\* cluster that is still on it has been released by an eject of its own.
GenesisKept ==
    [][Orderly => \A c \in Clusters : Teardown(c) =>
          \A d \in Clusters \ {c} : object[d].there => object[d].released]_vars

\* The kubeconfig that is left of an ejected cluster is the one of the cluster
\* that runs, not of an earlier one of the same name.
CurrentKubeconfig ==
    \A c \in Clusters : record[c] \in {"Released", "SelfManaged"} => saved[c] = era[c]

\* The registry calls a cluster self-managed only if its Cluster and its inventory,
\* the Hosts and HostMachines that verifyMoved counts, have arrived there.
MovedWhole ==
    \A c \in Clusters : record[c] = "SelfManaged" => landed[c] \in {"whole", "retired"}
=============================================================================
