-------------------------- MODULE ManagementProofs --------------------------
(***************************************************************************)
(* Proofs about Management, for every set of clusters and every bound on   *)
(* how often they are built.  What the registry says is true in every      *)
(* world; what needs one command at a time is proved for the orderly ones. *)
(***************************************************************************)
EXTENDS Management, TLAPS

\* The steps of the commands that require a cluster the genesis node manages.
OnManaged == {"apply", "remember", "save", "confirm", "pause", "moveOut", "moveIn", "verify",
              "hand", "delete", "wait"}

\* Between its check of the registry and its handover a command finds the registry as
\* it was: nobody else writes the record of its cluster.
StepInv(c) ==
    /\ cmd[c].next \in OnManaged => record[c] \in {"none", "Managed"}
    /\ cmd[c].next = "pause" => cmd[c].mode = "Released"
    /\ cmd[c].next \in {"moveOut", "moveIn", "verify"} => cmd[c].mode = "SelfManaged"
    /\ cmd[c].next = "hand" => cmd[c].mode \in {"Released", "SelfManaged"}

\* What eject has made true by the time it gets to each step.
EjectInv(c) ==
    /\ cmd[c].next \in {"confirm", "pause", "moveOut", "moveIn", "verify", "hand"}
          => saved[c] = era[c]
    /\ cmd[c].next = "verify" => ~object[c].there
    /\ cmd[c].next = "hand" /\ cmd[c].mode = "SelfManaged"
          => ~object[c].there /\ landed[c] = "whole"
    /\ cmd[c].next = "hand" /\ cmd[c].mode = "Released" /\ object[c].there
          => object[c].paused

\* What it leaves behind.
RecordInv(c) ==
    /\ record[c] = "Released" => saved[c] = era[c] /\ (object[c].there => object[c].paused)
    /\ record[c] = "SelfManaged"
          => saved[c] = era[c] /\ ~object[c].there /\ landed[c] \in {"whole", "retired"}

Sound(c) == StepInv(c) /\ EjectInv(c) /\ RecordInv(c)
Inv      == TypeOK /\ \A c \in Clusters : Sound(c)

-----------------------------------------------------------------------------

\* No two clusters share a namespace.
Apart == \A c, d \in Clusters : Namespace[c] = Namespace[d] => c = d

\* One command at a time.
Solo == \A c, d \in Clusters : cmd[c] # Done /\ cmd[d] # Done => c = d

\* Outside the two steps that change both, the kubeconfig stands for the node.
FileInv ==
    /\ \A c \in Clusters : cmd[c].next = "export" => genesis
    /\ \A c \in Clusters : cmd[c].next = "remove" => ~genesis
    /\ (\A c \in Clusters : cmd[c].next \notin {"export", "remove"})
          => (genesis <=> file # "none")

\* Everything on the genesis node goes with it.
GoneInv == \A c \in Clusters : object[c].there => genesis

OrderInv == Orderly => Solo /\ FileInv

\* A cluster holds a whole inventory only while eject is about to record it, or has.
LandedInv(c) ==
    landed[c] = "whole" => \/ record[c] = "SelfManaged" \/ cmd[c].next = "verify"
                           \/ cmd[c].next = "hand" /\ cmd[c].mode = "SelfManaged"

\* A pause that eject did not set is one of a move that is going on.
PausedInv(c) ==
    object[c].there /\ object[c].paused => object[c].released \/ cmd[c].next = "moveIn"

\* Nothing else is left to manage when eject is about to remove the genesis node.
LastInv(c) ==
    cmd[c].next = "teardown" => \A d \in Clusters \ {c} : object[d].there => object[d].paused

ApartInv == Orderly => \A c \in Clusters : LandedInv(c) /\ PausedInv(c) /\ LastInv(c)

-----------------------------------------------------------------------------
(* The types.                                                              *)

\* A Cluster that is not there, and one that has just been made.
LEMMA BlankObjects == NoObject \in Objects /\ NewObject \in Objects
BY DEF Objects, NoObject, NewObject

\* The edits of a Cluster object.
LEMMA ObjectEdits ==
    ASSUME NEW o \in Objects, NEW p \in BOOLEAN, NEW r \in BOOLEAN
    PROVE  /\ [o EXCEPT !.paused = TRUE] \in Objects
           /\ [o EXCEPT !.paused = p, !.released = r] \in Objects
           /\ [o EXCEPT !.deleting = TRUE] \in Objects
           /\ [o EXCEPT !.ready = TRUE] \in Objects
BY DEF Objects

\* init, create, and eject up to the move.
LEMMA FirstStepsTyped ==
    ASSUME TypeOK, NEW c \in Clusters,
           \/ InitGenesis(c) \/ Export(c) \/ BeginCreate(c) \/ Apply(c) \/ Remember(c)
           \/ \E mode \in Modes : BeginEject(c, mode)
           \/ SaveKubeconfig(c) \/ Confirm(c) \/ PauseCluster(c)
    PROVE  TypeOK'
<1>. USE DEF TypeOK, Then, Finish, Start, Done, Put
<1>1. CASE InitGenesis(c) BY <1>1 DEF InitGenesis
<1>2. CASE Export(c) BY <1>2 DEF Export
<1>3. CASE BeginCreate(c) BY <1>3 DEF BeginCreate
<1>4. CASE Apply(c)
  <2>1. object' \in [Clusters -> Objects]
    BY <1>4, BlankObjects DEF Apply
  <2>2. era' \in [Clusters -> 0 .. MaxEra] BY <1>4, EraAssumption DEF Apply
  <2>3. /\ cmd' = [cmd EXCEPT ![c].next = "remember"]
        /\ UNCHANGED <<faults, file, genesis, landed, record, saved>>
    BY <1>4 DEF Apply
  <2>. QED BY <2>1, <2>2, <2>3
<1>5. CASE Remember(c) BY <1>5 DEF Remember
<1>6. CASE \E mode \in Modes : BeginEject(c, mode)
  BY <1>6, ModesAssumption DEF BeginEject
<1>7. CASE SaveKubeconfig(c) BY <1>7 DEF SaveKubeconfig
<1>8. CASE Confirm(c) BY <1>8 DEF Confirm, CheckSelfManageable
<1>9. CASE PauseCluster(c)
  <2>1. object' = [object EXCEPT ![c] = [object[c] EXCEPT !.paused = TRUE, !.released = TRUE]]
    BY <1>9 DEF PauseCluster
  <2>2. object' \in [Clusters -> Objects] BY <2>1, ObjectEdits
  <2>. QED BY <1>9, <2>2 DEF PauseCluster
<1>. QED BY <1>1, <1>2, <1>3, <1>4, <1>5, <1>6, <1>7, <1>8, <1>9

\* The move, the handover and the end of the genesis node.
LEMMA LastStepsTyped ==
    ASSUME TypeOK, NEW c \in Clusters,
           \/ MoveOut(c) \/ MoveIn(c) \/ VerifyMoved(c) \/ HandOver(c) \/ Count(c) \/ Teardown(c)
           \/ RemoveFile(c) \/ ResetGenesis(c)
    PROVE  TypeOK'
<1>. USE DEF TypeOK, Then, Finish, Start, Done, Put
<1>1. CASE MoveOut(c)
  <2>1. object' \in [Clusters -> Objects] BY <1>1, ObjectEdits DEF MoveOut
  <2>2. landed' \in [Clusters -> {"none", "copy", "part", "whole", "retired"}]
    BY <1>1 DEF MoveOut
  <2>. QED BY <1>1, <2>1, <2>2 DEF MoveOut
<1>2. CASE MoveIn(c)
  <2>1. object' \in [Clusters -> Objects] BY <1>2, BlankObjects DEF MoveIn
  <2>2. landed' \in [Clusters -> {"none", "copy", "part", "whole", "retired"}]
    BY <1>2 DEF MoveIn
  <2>. QED BY <1>2, <2>1, <2>2 DEF MoveIn
<1>3. CASE VerifyMoved(c) BY <1>3 DEF VerifyMoved
<1>4. CASE HandOver(c) BY <1>4 DEF HandOver
<1>5. CASE Count(c) BY <1>5 DEF Count
<1>6. CASE Teardown(c)
  <2>1. object' \in [Clusters -> Objects] BY <1>6, BlankObjects DEF Teardown, KindDelete
  <2>. QED BY <1>6, <2>1 DEF Teardown, KindDelete
<1>7. CASE ResetGenesis(c)
  <2>1. object' \in [Clusters -> Objects] BY <1>7, BlankObjects DEF ResetGenesis, KindDelete
  <2>. QED BY <1>7, <2>1 DEF ResetGenesis, KindDelete
<1>8. CASE RemoveFile(c) BY <1>8 DEF RemoveFile
<1>. QED BY <1>1, <1>2, <1>3, <1>4, <1>5, <1>6, <1>7, <1>8

\* The other commands, Cluster API, the operator and failures.
LEMMA OtherStepsTyped ==
    ASSUME TypeOK, NEW c \in Clusters,
           \/ BeginDelete(c) \/ DeleteCluster(c) \/ WaitForClusterGone(c)
           \/ Forget(c) \/ Discover(c) \/ WriteKubeconfig(c)
           \/ BecomeReady(c) \/ TornDown(c) \/ Maintain(c) \/ Retire(c) \/ Interrupt(c)
    PROVE  TypeOK'
<1>. USE DEF TypeOK, Then, Finish, Start, Done, Put, Drop
<1>1. CASE BeginDelete(c) BY <1>1 DEF BeginDelete
<1>2. CASE DeleteCluster(c)
  <2>1. CASE object[c].there
    <3>1. object' = [object EXCEPT ![c] = [object[c] EXCEPT !.deleting = TRUE]]
      BY <1>2, <2>1 DEF DeleteCluster
    <3>2. object' \in [Clusters -> Objects] BY <3>1, ObjectEdits
    <3>. QED BY <1>2, <2>1, <3>2 DEF DeleteCluster
  <2>2. CASE ~object[c].there
    <3>1. /\ record' = [record EXCEPT ![c] = "none"] /\ cmd' = [cmd EXCEPT ![c] = Done]
          /\ UNCHANGED <<faults, file, genesis, object, landed, era, saved>>
      BY <1>2, <2>2 DEF DeleteCluster
    <3>. QED BY <3>1
  <2>. QED BY <2>1, <2>2
<1>3. CASE WaitForClusterGone(c) BY <1>3 DEF WaitForClusterGone
<1>4. CASE Forget(c) BY <1>4 DEF Forget
<1>5. CASE Discover(c) BY <1>5 DEF Discover
<1>6. CASE WriteKubeconfig(c) BY <1>6 DEF WriteKubeconfig
<1>7. CASE BecomeReady(c)
  <2>1. object' = [object EXCEPT ![c] = [object[c] EXCEPT !.ready = TRUE]]
    BY <1>7 DEF BecomeReady
  <2>2. object' \in [Clusters -> Objects] BY <2>1, ObjectEdits
  <2>. QED BY <1>7, <2>2 DEF BecomeReady
<1>8. CASE TornDown(c) BY <1>8, BlankObjects DEF TornDown
<1>9. CASE Maintain(c)
  <2>1. PICK p \in BOOLEAN :
           object' = [object EXCEPT ![c] = [object[c] EXCEPT !.paused = p, !.released = FALSE]]
    BY <1>9 DEF Maintain
  <2>2. object' \in [Clusters -> Objects] BY <2>1, ObjectEdits
  <2>. QED BY <1>9, <2>2 DEF Maintain
<1>10. CASE Retire(c) BY <1>10 DEF Retire
<1>11. CASE Interrupt(c) BY <1>11 DEF Interrupt
<1>. QED BY <1>1, <1>2, <1>3, <1>4, <1>5, <1>6, <1>7, <1>8, <1>9, <1>10, <1>11

\* No command starts or ends ill typed.
LEMMA TypeStep == TypeOK /\ [Next]_vars => TypeOK'
<1>. SUFFICES ASSUME TypeOK, [Next]_vars PROVE TypeOK'
  OBVIOUS
<1>1. CASE Next
  <2>. PICK c \in Clusters : \/ Command(c) \/ BecomeReady(c) \/ TornDown(c) \/ Maintain(c)
                             \/ Retire(c) \/ Interrupt(c)
    BY <1>1 DEF Next
  <2>. QED BY FirstStepsTyped, LastStepsTyped, OtherStepsTyped DEF Command
<1>2. CASE UNCHANGED vars BY <1>2 DEF vars, TypeOK
<1>. QED BY <1>1, <1>2

\* Nothing has been built.
LEMMA TypeInit == Init => TypeOK
<1>. SUFFICES ASSUME Init PROVE TypeOK
  OBVIOUS
<1>1. object \in [Clusters -> Objects] BY BlankObjects DEF Init
<1>2. 0 \in 0 .. MaxEra BY EraAssumption
<1>. QED BY <1>1, <1>2 DEF Init, TypeOK, Done

\* The genesis node, its objects, the registry and the commands are well typed, in
\* every world and for clusters in any namespaces.
THEOREM TypeCorrect == Spec => []TypeOK
BY TypeInit, TypeStep, PTL DEF Spec

-----------------------------------------------------------------------------
(* What the registry says, in every world.                                 *)

\* Nothing of cluster d changes.
Same(d) ==
    /\ cmd'[d] = cmd[d] /\ object'[d] = object[d] /\ landed'[d] = landed[d]
    /\ record'[d] = record[d] /\ era'[d] = era[d] /\ saved'[d] = saved[d]

\* A step that leaves a cluster alone keeps what is known of it.
LEMMA Untouched == ASSUME NEW d \in Clusters, Sound(d), Same(d) PROVE Sound(d)'
BY DEF Sound, StepInv, EjectInv, RecordInv, Same

\* The steps of a command that concern the objects of no other cluster.
Own(c) ==
    \/ InitGenesis(c) \/ Export(c) \/ BeginCreate(c) \/ Apply(c) \/ Remember(c)
    \/ \E mode \in Modes : BeginEject(c, mode)
    \/ SaveKubeconfig(c) \/ Confirm(c) \/ PauseCluster(c)
    \/ VerifyMoved(c) \/ HandOver(c) \/ Count(c) \/ RemoveFile(c)
    \/ BeginDelete(c) \/ DeleteCluster(c) \/ WaitForClusterGone(c)
    \/ Forget(c) \/ Discover(c) \/ WriteKubeconfig(c)
    \/ BecomeReady(c) \/ TornDown(c) \/ Maintain(c) \/ Retire(c) \/ Interrupt(c)

\* They leave every other cluster alone.
LEMMA OthersUntouched ==
    ASSUME TypeOK, NEW c \in Clusters, NEW d \in Clusters, d # c, Own(c)
    PROVE  Same(d)
<1>. USE DEF TypeOK, Same, Then, Finish, Start, Put, Drop
<1>1. CASE InitGenesis(c) \/ Export(c) \/ BeginCreate(c)
  BY <1>1 DEF InitGenesis, Export, BeginCreate
<1>2. CASE Apply(c) BY <1>2 DEF Apply
<1>3. CASE Remember(c) \/ SaveKubeconfig(c) BY <1>3 DEF Remember, SaveKubeconfig
<1>4. CASE \E mode \in Modes : BeginEject(c, mode) BY <1>4 DEF BeginEject
<1>5. CASE Confirm(c) BY <1>5 DEF Confirm, CheckSelfManageable
<1>6. CASE PauseCluster(c) BY <1>6 DEF PauseCluster
<1>7. CASE VerifyMoved(c) \/ HandOver(c) BY <1>7 DEF VerifyMoved, HandOver
<1>8. CASE Count(c) \/ RemoveFile(c) \/ BeginDelete(c) BY <1>8 DEF Count, RemoveFile, BeginDelete
<1>9. CASE DeleteCluster(c) BY <1>9 DEF DeleteCluster
<1>10. CASE WaitForClusterGone(c) BY <1>10 DEF WaitForClusterGone
<1>11. CASE Forget(c) \/ Discover(c) \/ WriteKubeconfig(c)
  BY <1>11 DEF Forget, Discover, WriteKubeconfig
<1>12. CASE BecomeReady(c) \/ TornDown(c) BY <1>12 DEF BecomeReady, TornDown
<1>13. CASE Maintain(c) BY <1>13 DEF Maintain
<1>14. CASE Retire(c) \/ Interrupt(c) BY <1>14 DEF Retire, Interrupt
<1>. QED BY <1>1, <1>2, <1>3, <1>4, <1>5, <1>6, <1>7, <1>8, <1>9, <1>10, <1>11, <1>12, <1>13, <1>14
         DEF Own

\* They keep what is known of their own.
LEMMA OwnSteps == ASSUME Inv, NEW c \in Clusters, Own(c) PROVE Sound(c)'
<1>0. TypeOK /\ Sound(c) BY DEF Inv
<1>. USE <1>0 DEF TypeOK, Then, Finish, Start, Done, Put, Drop, Idle, Sound, StepInv, EjectInv,
                  RecordInv, OnManaged, RequireGenesisManaged
<1>1. CASE InitGenesis(c) BY <1>1 DEF InitGenesis
<1>2. CASE Export(c) BY <1>2 DEF Export
<1>3. CASE BeginCreate(c) BY <1>3 DEF BeginCreate
<1>4. CASE Apply(c) BY <1>4 DEF Apply
<1>5. CASE Remember(c) BY <1>5 DEF Remember
<1>6. CASE \E mode \in Modes : BeginEject(c, mode) BY <1>6, ModesAssumption DEF BeginEject
<1>7. CASE SaveKubeconfig(c) BY <1>7 DEF SaveKubeconfig
<1>8. CASE Confirm(c) BY <1>8 DEF Confirm, CheckSelfManageable
<1>9. CASE PauseCluster(c) BY <1>9 DEF PauseCluster
<1>10. CASE VerifyMoved(c) BY <1>10 DEF VerifyMoved
<1>11. CASE HandOver(c) BY <1>11 DEF HandOver
<1>12. CASE Count(c) BY <1>12 DEF Count
<1>13. CASE RemoveFile(c) BY <1>13 DEF RemoveFile
<1>14. CASE BeginDelete(c) BY <1>14 DEF BeginDelete
<1>15. CASE DeleteCluster(c) BY <1>15 DEF DeleteCluster
<1>16. CASE WaitForClusterGone(c) BY <1>16 DEF WaitForClusterGone
<1>17. CASE Forget(c) BY <1>17 DEF Forget
<1>18. CASE Discover(c) BY <1>18 DEF Discover
<1>19. CASE WriteKubeconfig(c) BY <1>19 DEF WriteKubeconfig
<1>20. CASE BecomeReady(c) BY <1>20 DEF BecomeReady
<1>21. CASE TornDown(c) BY <1>21 DEF TornDown, NoObject
<1>22. CASE Maintain(c) BY <1>22 DEF Maintain
<1>23. CASE Retire(c) BY <1>23 DEF Retire
<1>24. CASE Interrupt(c) BY <1>24 DEF Interrupt
<1>. QED BY <1>1, <1>2, <1>3, <1>4, <1>5, <1>6, <1>7, <1>8, <1>9, <1>10, <1>11, <1>12, <1>13,
            <1>14, <1>15, <1>16, <1>17, <1>18, <1>19, <1>20, <1>21, <1>22, <1>23, <1>24
         DEF Own

\* A move, which takes the objects of the whole namespace, and the end of the genesis
\* node, which takes them all, keep what is known of every cluster.
LEMMA SharedSteps ==
    ASSUME Inv, NEW c \in Clusters, NEW d \in Clusters,
           MoveOut(c) \/ MoveIn(c) \/ Teardown(c) \/ ResetGenesis(c)
    PROVE  Sound(d)'
<1>0. TypeOK /\ Sound(c) /\ Sound(d) BY DEF Inv
<1>. USE <1>0 DEF TypeOK, Then, Finish, Start, Done, Idle, Sound, StepInv, EjectInv,
                  RecordInv, OnManaged
<1>1. CASE MoveOut(c) BY <1>1 DEF MoveOut
<1>2. CASE MoveIn(c) BY <1>2 DEF MoveIn, Siblings, NoObject
<1>3. CASE Teardown(c) BY <1>3 DEF Teardown, KindDelete, NoObject
<1>4. CASE ResetGenesis(c) BY <1>4 DEF ResetGenesis, KindDelete, NoObject
<1>. QED BY <1>1, <1>2, <1>3, <1>4

\* Every step is one of those.
LEMMA Steps ==
    ASSUME Next
    PROVE  \E c \in Clusters :
              Own(c) \/ MoveOut(c) \/ MoveIn(c) \/ Teardown(c) \/ ResetGenesis(c)
BY DEF Next, Command, Own

\* Before the first command the registry says nothing.
LEMMA InvInit == Init => Inv
<1>. SUFFICES ASSUME Init PROVE Inv
  OBVIOUS
<1>1. ASSUME NEW c \in Clusters PROVE Sound(c)
  BY DEF Init, Sound, StepInv, EjectInv, RecordInv, OnManaged, Done, NoObject
<1>. QED BY <1>1, TypeInit DEF Inv

\* No step of any command, interrupted or not, makes the registry wrong.
LEMMA InvStep == Inv /\ [Next]_vars => Inv'
<1>. SUFFICES ASSUME Inv, [Next]_vars PROVE Inv'
  OBVIOUS
<1>1. TypeOK' BY TypeStep DEF Inv
<1>2. ASSUME NEW d \in Clusters PROVE Sound(d)'
  <2>0. TypeOK /\ Sound(d) BY DEF Inv
  <2>1. CASE Next
    <3>. PICK c \in Clusters :
            Own(c) \/ MoveOut(c) \/ MoveIn(c) \/ Teardown(c) \/ ResetGenesis(c)
      BY <2>1, Steps
    <3>1. CASE Own(c) /\ c = d BY <3>1, OwnSteps
    <3>2. CASE Own(c) /\ c # d BY <2>0, <3>2, OthersUntouched, Untouched
    <3>3. CASE MoveOut(c) \/ MoveIn(c) \/ Teardown(c) \/ ResetGenesis(c)
      BY <3>3, SharedSteps
    <3>. QED BY <3>1, <3>2, <3>3
  <2>2. CASE UNCHANGED vars
    <3>1. Same(d) BY <2>2 DEF vars, Same
    <3>. QED BY <2>0, <3>1, Untouched
  <2>. QED BY <2>1, <2>2
<1>. QED BY <1>1, <1>2 DEF Inv

\* What is known of every cluster holds throughout.
LEMMA Invariance == Spec => []Inv
BY InvInit, InvStep, PTL DEF Spec

\* A cluster that the registry calls released and the genesis node still holds is
\* paused there, although eject writes the pause and the record apart, may be killed
\* in between, and other commands create, delete, move and discover meanwhile.
THEOREM ReleasedClustersArePaused == Spec => []ReleasedIsPaused
<1>1. Inv => ReleasedIsPaused BY DEF Inv, Sound, RecordInv, ReleasedIsPaused
<1>. QED BY <1>1, Invariance, PTL

\* The kubeconfig left of an ejected cluster is of its last building, however often
\* clusters of that name were built and whichever commands wrote the file before.
THEOREM KubeconfigsAreCurrent == Spec => []CurrentKubeconfig
<1>1. Inv => CurrentKubeconfig BY DEF Inv, Sound, RecordInv, CurrentKubeconfig
<1>. QED BY <1>1, Invariance, PTL

\* A cluster the registry calls self-managed has received its Cluster and inventory: also when
\* the move leaves some behind, and when a move of another cluster takes them along.
THEOREM MovesAreWhole == Spec => []MovedWhole
<1>1. Inv => MovedWhole BY DEF Inv, Sound, RecordInv, MovedWhole
<1>. QED BY <1>1, Invariance, PTL

-----------------------------------------------------------------------------
(* The genesis node and its kubeconfig, one command at a time.             *)

\* Cluster c is the only one whose command can have changed.
LEMMA OneCommandChanges ==
    ASSUME TypeOK, NEW c \in Clusters, NEW d \in Clusters, d # c,
           Own(c) \/ MoveOut(c) \/ MoveIn(c) \/ Teardown(c) \/ ResetGenesis(c)
    PROVE  cmd'[d] = cmd[d]
<1>1. CASE Own(c) BY <1>1, OthersUntouched DEF Same
<1>2. CASE MoveOut(c) \/ MoveIn(c) \/ Teardown(c) \/ ResetGenesis(c)
  BY <1>2 DEF MoveOut, MoveIn, Teardown, ResetGenesis, Then, Start, TypeOK
<1>. QED BY <1>1, <1>2

\* A command starts only when no other is running.
LEMMA StartsAlone ==
    ASSUME TypeOK, Orderly, NEW c \in Clusters, cmd[c] = Done, cmd'[c] # Done,
           Own(c) \/ MoveOut(c) \/ MoveIn(c) \/ Teardown(c) \/ ResetGenesis(c)
    PROVE  \A d \in Clusters : cmd[d] = Done
<1>1. "concurrent" \notin faults BY DEF Orderly
<1>2. Idle(c) BY DEF Own, InitGenesis, Export, BeginCreate, Apply, Remember, BeginEject,
   SaveKubeconfig, Confirm, PauseCluster, VerifyMoved, HandOver, Count, RemoveFile, BeginDelete,
   DeleteCluster, WaitForClusterGone, Forget, Discover, WriteKubeconfig, BecomeReady, TornDown,
   Maintain, Retire, Interrupt, MoveOut, MoveIn, Teardown, ResetGenesis, Done
<1>. QED BY <1>1, <1>2 DEF Idle

\* So there is at most one running.
LEMMA SoloStep ==
    ASSUME TypeOK, Orderly, Solo, [Next]_vars
    PROVE  Solo'
<1>. SUFFICES ASSUME NEW d \in Clusters, NEW e \in Clusters, cmd'[d] # Done, cmd'[e] # Done
              PROVE  d = e
  BY DEF Solo, Done
<1>1. CASE Next
  <2>. PICK c \in Clusters :
          Own(c) \/ MoveOut(c) \/ MoveIn(c) \/ Teardown(c) \/ ResetGenesis(c)
    BY <1>1, Steps
  <2>. QED BY OneCommandChanges, StartsAlone DEF Solo
<1>2. CASE UNCHANGED vars BY <1>2 DEF vars, Solo
<1>. QED BY <1>1, <1>2

\* A step that changes neither the node nor the file is not between the two.
LEMMA QuietSteps ==
    ASSUME TypeOK, Orderly, FileInv, NEW c \in Clusters,
           ~(InitGenesis(c) \/ Export(c) \/ RemoveFile(c)),
           Own(c) \/ MoveOut(c) \/ MoveIn(c)
    PROVE  /\ UNCHANGED <<genesis, file>>
           /\ cmd[c].next \notin {"export", "remove"} /\ cmd'[c].next \notin {"export", "remove"}
           \/ UNCHANGED <<genesis, file, cmd>>
<1>. USE DEF TypeOK, Then, Finish, Start, Done, Idle
<1>1. CASE Interrupt(c)
  <2>1. "stop" \notin faults BY DEF Orderly
  <2>2. Fails(c) BY <1>1, <2>1 DEF Interrupt
  <2>3. cmd[c].next = "export" => genesis BY DEF FileInv
  <2>4. cmd[c].next \notin {"export", "remove"} BY <2>2, <2>3 DEF Fails
  <2>. QED BY <1>1, <2>4 DEF Interrupt
<1>2. CASE BeginCreate(c) BY <1>2 DEF BeginCreate
<1>3. CASE Apply(c) BY <1>3 DEF Apply
<1>4. CASE Remember(c) BY <1>4 DEF Remember
<1>5. CASE \E mode \in Modes : BeginEject(c, mode) BY <1>5 DEF BeginEject
<1>6. CASE SaveKubeconfig(c) BY <1>6 DEF SaveKubeconfig
<1>7. CASE Confirm(c) BY <1>7 DEF Confirm, CheckSelfManageable
<1>8. CASE PauseCluster(c) BY <1>8 DEF PauseCluster
<1>9. CASE VerifyMoved(c) BY <1>9 DEF VerifyMoved
<1>10. CASE HandOver(c) BY <1>10 DEF HandOver
<1>11. CASE Count(c) BY <1>11 DEF Count
<1>12. CASE BeginDelete(c) BY <1>12 DEF BeginDelete
<1>13. CASE DeleteCluster(c) BY <1>13 DEF DeleteCluster
<1>14. CASE WaitForClusterGone(c) BY <1>14 DEF WaitForClusterGone
<1>15. CASE \/ Forget(c) \/ Discover(c) \/ WriteKubeconfig(c) \/ BecomeReady(c)
            \/ TornDown(c) \/ Maintain(c) \/ Retire(c)
  BY <1>15 DEF Forget, Discover, WriteKubeconfig, BecomeReady, TornDown, Maintain, Retire
<1>16. CASE MoveOut(c) BY <1>16 DEF MoveOut
<1>17. CASE MoveIn(c) BY <1>17 DEF MoveIn
<1>. QED BY <1>1, <1>2, <1>3, <1>4, <1>5, <1>6, <1>7, <1>8, <1>9, <1>10, <1>11, <1>12, <1>13,
            <1>14, <1>15, <1>16, <1>17 DEF Own

\* The file is written where the node comes up, and removed where it goes.
LEMMA FileStep == ASSUME TypeOK, Orderly, Solo, FileInv, [Next]_vars PROVE FileInv'
<1>. USE DEF TypeOK, Then, Finish, Start, Done, Idle
<1>0. "concurrent" \notin faults BY DEF Orderly
<1>1. CASE Next
  <2>. PICK c \in Clusters :
          Own(c) \/ MoveOut(c) \/ MoveIn(c) \/ Teardown(c) \/ ResetGenesis(c)
    BY <1>1, Steps
  <2>1. CASE InitGenesis(c) BY <1>0, <2>1 DEF InitGenesis, FileInv
  <2>2. CASE Export(c) BY <2>2 DEF Export, FileInv, Solo
  <2>3. CASE RemoveFile(c) BY <2>3 DEF RemoveFile, FileInv, Solo
  <2>4. CASE Teardown(c) BY <2>4 DEF Teardown, KindDelete, FileInv, Solo
  <2>5. CASE ResetGenesis(c) BY <1>0, <2>5 DEF ResetGenesis, KindDelete, FileInv
  <2>6. CASE /\ ~(InitGenesis(c) \/ Export(c) \/ RemoveFile(c))
             /\ Own(c) \/ MoveOut(c) \/ MoveIn(c)
    <3>1. \A d \in Clusters : d # c => cmd'[d] = cmd[d] BY OneCommandChanges
    <3>. QED BY <2>6, <3>1, QuietSteps DEF FileInv
  <2>. QED BY <2>1, <2>2, <2>3, <2>4, <2>5, <2>6
<1>2. CASE UNCHANGED vars BY <1>2 DEF vars, FileInv
<1>. QED BY <1>1, <1>2

\* The world stays what it is.
LEMMA SameWorld == ASSUME [Next]_vars PROVE faults' = faults
BY DEF Next, vars, Command, InitGenesis, Export, BeginCreate, Apply, Remember, BeginEject,
   SaveKubeconfig, Confirm, PauseCluster, VerifyMoved, HandOver, Count, RemoveFile, BeginDelete,
   DeleteCluster, WaitForClusterGone, Forget, Discover, WriteKubeconfig, BecomeReady, TornDown,
   Maintain, Retire, Interrupt, MoveOut, MoveIn, Teardown, ResetGenesis

\* An orderly world stays in order.
LEMMA OrderStep == TypeOK /\ OrderInv /\ [Next]_vars => OrderInv'
BY SameWorld, SoloStep, FileStep DEF OrderInv, Orderly

\* In an orderly world, between commands, the kubeconfig of the genesis node is on disk
\* exactly while the node runs: through init, the teardown by eject, and reset.
THEOREM TheFileTellsOfGenesis == Spec => []FileTellsGenesis
<1>1. Init => OrderInv
  BY DEF Init, OrderInv, Solo, FileInv, Done
<1>2. OrderInv => FileTellsGenesis
  BY DEF OrderInv, FileInv, FileTellsGenesis, Done
<1>. QED BY <1>1, <1>2, OrderStep, TypeCorrect, PTL DEF Spec

-----------------------------------------------------------------------------
(* Clusters in namespaces of their own, one command at a time.             *)

\* A Cluster is made only on a genesis node that is up, and goes with it.
LEMMA GoneStep ==
    ASSUME TypeOK, GoneInv, [Next]_vars
    PROVE  GoneInv'
<1>. SUFFICES ASSUME NEW d \in Clusters, object'[d].there PROVE genesis'
  BY DEF GoneInv
<1>0. object[d].there => genesis BY DEF GoneInv
<1>. USE <1>0 DEF TypeOK
<1>1. CASE Next
  <2>. PICK c \in Clusters :
          Own(c) \/ MoveOut(c) \/ MoveIn(c) \/ Teardown(c) \/ ResetGenesis(c)
    BY <1>1, Steps
  <2>1. CASE Own(c) /\ d # c
    <3>1. object'[d] = object[d] BY <2>1, OthersUntouched DEF Same
    <3>2. genesis => genesis'
      BY <2>1 DEF Own, InitGenesis, Export, BeginCreate, Apply, Remember, BeginEject,
         SaveKubeconfig, Confirm, PauseCluster, VerifyMoved, HandOver, Count, RemoveFile,
         BeginDelete, DeleteCluster, WaitForClusterGone, Forget, Discover, WriteKubeconfig,
         BecomeReady, TornDown, Maintain, Retire, Interrupt
    <3>. QED BY <3>1, <3>2
  <2>2. CASE Own(c) /\ d = c
    <3>1. CASE Apply(c) BY <3>1 DEF Apply
    <3>2. CASE PauseCluster(c) BY <3>2 DEF PauseCluster
    <3>3. CASE DeleteCluster(c) BY <3>3 DEF DeleteCluster
    <3>4. CASE BecomeReady(c) BY <2>2, <3>4 DEF BecomeReady
    <3>5. CASE TornDown(c) BY <2>2, <3>5 DEF TornDown, NoObject
    <3>6. CASE Maintain(c) BY <2>2, <3>6 DEF Maintain
    <3>7. CASE ~(\/ Apply(c) \/ PauseCluster(c) \/ DeleteCluster(c) \/ BecomeReady(c)
                 \/ TornDown(c) \/ Maintain(c))
      BY <2>2, <3>7 DEF Own, InitGenesis, Export, BeginCreate, Remember, BeginEject,
         SaveKubeconfig, Confirm, VerifyMoved, HandOver, Count, RemoveFile, BeginDelete,
         WaitForClusterGone, Forget, Discover, WriteKubeconfig, Retire, Interrupt
    <3>. QED BY <3>1, <3>2, <3>3, <3>4, <3>5, <3>6, <3>7
  <2>3. CASE MoveOut(c) BY <2>3 DEF MoveOut
  <2>4. CASE MoveIn(c) BY <2>4 DEF MoveIn
  <2>5. CASE Teardown(c) BY <2>5 DEF Teardown, KindDelete, NoObject
  <2>6. CASE ResetGenesis(c) BY <2>6 DEF ResetGenesis, KindDelete, NoObject
  <2>. QED BY <2>1, <2>2, <2>3, <2>4, <2>5, <2>6
<1>2. CASE UNCHANGED vars BY <1>2 DEF vars
<1>. QED BY <1>1, <1>2

\* Everything that holds of an orderly world with clusters in namespaces of their own.
WorldInv == Inv /\ GoneInv /\ OrderInv /\ ApartInv

\* A step of c that concerns no other cluster keeps where c's objects are known to be
\* and why they are paused.
LEMMA OwnApart ==
    ASSUME WorldInv, Orderly, NEW c \in Clusters, Own(c)
    PROVE  LandedInv(c)' /\ PausedInv(c)'
<1>0. /\ TypeOK /\ Sound(c) /\ LandedInv(c) /\ PausedInv(c)
      /\ object[c].there => genesis
      /\ "stop" \notin faults /\ "pause" \notin faults /\ "concurrent" \notin faults
  BY DEF WorldInv, Inv, ApartInv, GoneInv, Orderly
<1>. USE <1>0 DEF TypeOK, Then, Finish, Start, Done, Put, Drop, Idle, Sound, StepInv, EjectInv,
                  LandedInv, PausedInv, OnManaged, RequireGenesisManaged
<1>1. CASE InitGenesis(c) BY <1>1 DEF InitGenesis
<1>2. CASE Export(c) BY <1>2 DEF Export
<1>3. CASE BeginCreate(c) BY <1>3 DEF BeginCreate
<1>4. CASE Apply(c) BY <1>4 DEF Apply, NewObject, NoObject
<1>5. CASE Remember(c) BY <1>5 DEF Remember
<1>6. CASE \E mode \in Modes : BeginEject(c, mode) BY <1>6, ModesAssumption DEF BeginEject
<1>7. CASE SaveKubeconfig(c) BY <1>7 DEF SaveKubeconfig
<1>8. CASE Confirm(c) BY <1>8 DEF Confirm, CheckSelfManageable
<1>9. CASE PauseCluster(c) BY <1>9 DEF PauseCluster
<1>10. CASE VerifyMoved(c) BY <1>10 DEF VerifyMoved
<1>11. CASE HandOver(c) BY <1>11 DEF HandOver
<1>12. CASE Count(c) BY <1>12 DEF Count
<1>13. CASE RemoveFile(c) BY <1>13 DEF RemoveFile
<1>14. CASE BeginDelete(c) BY <1>14 DEF BeginDelete
<1>15. CASE DeleteCluster(c)
  <2>1. cmd'[c].next \in {"wait", "idle"} BY <1>15 DEF DeleteCluster
  <2>2. object'[c] \in {object[c], [object[c] EXCEPT !.deleting = TRUE]}
    BY <1>15 DEF DeleteCluster
  <2>3. /\ object'[c].there = object[c].there /\ object'[c].paused = object[c].paused
        /\ object'[c].released = object[c].released
    BY <2>2 DEF Objects
  <2>4. landed[c] # "whole" /\ landed'[c] = landed[c] BY <1>15 DEF DeleteCluster
  <2>. QED BY <1>15, <2>3, <2>4 DEF DeleteCluster
<1>16. CASE WaitForClusterGone(c) BY <1>16 DEF WaitForClusterGone
<1>17. CASE Forget(c) BY <1>17 DEF Forget
<1>18. CASE Discover(c) BY <1>18 DEF Discover
<1>19. CASE WriteKubeconfig(c) BY <1>19 DEF WriteKubeconfig
<1>20. CASE BecomeReady(c) BY <1>20 DEF BecomeReady
<1>21. CASE TornDown(c) BY <1>21 DEF TornDown, NoObject
<1>22. CASE Maintain(c) BY <1>22 DEF Maintain
<1>23. CASE Retire(c) BY <1>23 DEF Retire
<1>24. CASE Interrupt(c) BY <1>24 DEF Interrupt, Fails
<1>. QED BY <1>1, <1>2, <1>3, <1>4, <1>5, <1>6, <1>7, <1>8, <1>9, <1>10, <1>11, <1>12, <1>13,
            <1>14, <1>15, <1>16, <1>17, <1>18, <1>19, <1>20, <1>21, <1>22, <1>23, <1>24
         DEF Own

\* So does a move, which takes along no other cluster, and the end of the genesis node.
LEMMA SharedApart ==
    ASSUME Apart, WorldInv, Orderly, NEW c \in Clusters, NEW d \in Clusters,
           MoveOut(c) \/ MoveIn(c) \/ Teardown(c) \/ ResetGenesis(c)
    PROVE  LandedInv(d)' /\ PausedInv(d)'
<1>0. TypeOK /\ Sound(d) /\ LandedInv(d) /\ PausedInv(d) /\ "concurrent" \notin faults
  BY DEF WorldInv, Inv, ApartInv, Orderly
<1>1. d \in Siblings(c) <=> d = c BY DEF Siblings, Apart
<1>. USE <1>0, <1>1 DEF TypeOK, Then, Finish, Start, Done, Idle, Sound, StepInv, EjectInv,
                        LandedInv, PausedInv
<1>2. CASE MoveOut(c)
  <2>1. CASE d = c BY <1>2, <2>1 DEF MoveOut
  <2>2. CASE d # c
    <3>1. cmd'[d] = cmd[d] BY <1>2, <2>2 DEF MoveOut
    <3>2. object'[d] = object[d] /\ landed'[d] = landed[d] BY <1>2, <2>2 DEF MoveOut
    <3>. QED BY <1>2, <3>1, <3>2 DEF MoveOut
  <2>. QED BY <2>1, <2>2
<1>3. CASE MoveIn(c) BY <1>3 DEF MoveIn, NoObject
<1>4. CASE Teardown(c) BY <1>4 DEF Teardown, KindDelete, NoObject
<1>5. CASE ResetGenesis(c) BY <1>5 DEF ResetGenesis, KindDelete, NoObject
<1>. QED BY <1>2, <1>3, <1>4, <1>5

\* A cluster that no command is at work on changes only by being torn down, becoming
\* ready or being retired.
LEMMA NoCommandNoPause ==
    ASSUME TypeOK, Orderly, NEW d \in Clusters, cmd[d] = Done, cmd'[d] = Done, Own(d),
           object'[d].there
    PROVE  object[d].there /\ object'[d].paused = object[d].paused
<1>0. "pause" \notin faults BY DEF Orderly
<1>. USE <1>0 DEF TypeOK, Then, Finish, Start, Done
<1>1. CASE BecomeReady(d) BY <1>1 DEF BecomeReady
<1>2. CASE TornDown(d) BY <1>2 DEF TornDown, NoObject
<1>3. CASE Maintain(d) BY <1>3 DEF Maintain
<1>4. CASE ~(BecomeReady(d) \/ TornDown(d) \/ Maintain(d))
  BY <1>4 DEF Own, InitGenesis, Export, BeginCreate, Apply, Remember, BeginEject,
     SaveKubeconfig, Confirm, PauseCluster, VerifyMoved, HandOver, Count, RemoveFile,
     BeginDelete, DeleteCluster, WaitForClusterGone, Forget, Discover, WriteKubeconfig,
     Retire, Interrupt
<1>. QED BY <1>1, <1>2, <1>3, <1>4

\* Nobody brings a cluster to a genesis node that eject has found to be free, or lifts
\* a pause there.
LEMMA LastStep ==
    ASSUME Apart, WorldInv, Orderly, Solo', Next, NEW c \in Clusters
    PROVE  LastInv(c)'
<1>0. TypeOK /\ TypeOK' /\ LastInv(c) /\ "concurrent" \notin faults /\ Solo
  BY TypeStep DEF WorldInv, Inv, ApartInv, Orderly, OrderInv
<1>. SUFFICES ASSUME cmd'[c].next = "teardown", NEW d \in Clusters, d # c, object'[d].there
              PROVE  object'[d].paused
  BY DEF LastInv
<1>1. cmd'[c] # Done /\ cmd'[d] = Done BY DEF Done, Solo
<1>. PICK e \in Clusters : Own(e) \/ MoveOut(e) \/ MoveIn(e) \/ Teardown(e) \/ ResetGenesis(e)
  BY Steps
<1>2. CASE e = c
  <2>1. Own(c)
    BY <1>0, <1>2 DEF MoveOut, MoveIn, Teardown, ResetGenesis, Then, Start, TypeOK
  <2>2. object'[d] = object[d] BY <1>0, <2>1, OthersUntouched DEF Same
  <2>3. CASE Count(c)
    <3>1. Namespace[d] # Namespace[c] BY DEF Apart
    <3>2. Remaining(c) = {} BY <1>0, <2>3 DEF Count, Finish, Done, TypeOK
    <3>. QED BY <2>2, <3>1, <3>2 DEF Remaining
  <2>4. CASE ~Count(c)
    <3>1. cmd[c].next = "teardown"
      BY <1>0, <2>1, <2>4 DEF Own, InitGenesis, Export, BeginCreate, Apply, Remember, BeginEject,
         SaveKubeconfig, Confirm, CheckSelfManageable, PauseCluster, VerifyMoved, HandOver,
         RemoveFile, BeginDelete, DeleteCluster, WaitForClusterGone, Forget, Discover,
         WriteKubeconfig, BecomeReady, TornDown, Maintain, Retire, Interrupt, Then, Finish,
         Start, Done, TypeOK
    <3>. QED BY <1>0, <2>2, <3>1 DEF LastInv
  <2>. QED BY <2>3, <2>4
<1>3. CASE e # c
  <2>1. cmd[c].next = "teardown" /\ cmd[c] # Done /\ cmd[e] = Done
    BY <1>0, <1>1, <1>3, OneCommandChanges DEF Solo
  <2>2. Own(e)
    BY <1>0, <2>1 DEF MoveOut, MoveIn, Teardown, ResetGenesis, Idle, Done
  <2>3. object[d].there => object[d].paused BY <1>0, <2>1 DEF LastInv
  <2>4. CASE e = d BY <1>0, <1>1, <2>1, <2>2, <2>3, <2>4, NoCommandNoPause
  <2>5. CASE e # d BY <1>0, <2>2, <2>3, <2>5, OthersUntouched DEF Same
  <2>. QED BY <2>4, <2>5
<1>. QED BY <1>2, <1>3

\* The three together.
LEMMA ApartStep == Apart /\ WorldInv /\ [Next]_vars => WorldInv'
<1>. SUFFICES ASSUME Apart, WorldInv, [Next]_vars PROVE WorldInv'
  OBVIOUS
<1>0. TypeOK BY DEF WorldInv, Inv
<1>1. Inv' /\ GoneInv' /\ OrderInv' BY <1>0, InvStep, GoneStep, OrderStep DEF WorldInv
<1>2. ASSUME Orderly', NEW d \in Clusters PROVE LandedInv(d)' /\ PausedInv(d)' /\ LastInv(d)'
  <2>0. /\ Orderly /\ Solo'
        /\ LandedInv(d) /\ PausedInv(d) /\ LastInv(d)
    BY <1>1, <1>2, SameWorld DEF Orderly, OrderInv, WorldInv, ApartInv
  <2>1. CASE Next
    <3>. PICK c \in Clusters :
            Own(c) \/ MoveOut(c) \/ MoveIn(c) \/ Teardown(c) \/ ResetGenesis(c)
      BY <2>1, Steps
    <3>1. LastInv(d)' BY <2>0, <2>1, LastStep
    <3>2. CASE Own(c) /\ c = d BY <2>0, <3>1, <3>2, OwnApart
    <3>3. CASE Own(c) /\ c # d
      <4>1. Same(d) BY <1>0, <3>3, OthersUntouched
      <4>. QED BY <2>0, <3>1, <4>1 DEF Same, LandedInv, PausedInv
    <3>4. CASE MoveOut(c) \/ MoveIn(c) \/ Teardown(c) \/ ResetGenesis(c)
      BY <2>0, <3>1, <3>4, SharedApart
    <3>. QED BY <3>2, <3>3, <3>4
  <2>2. CASE UNCHANGED vars BY <2>0, <2>2 DEF vars, LandedInv, PausedInv, LastInv
  <2>. QED BY <2>1, <2>2
<1>. QED BY <1>1, <1>2 DEF WorldInv, ApartInv

\* It begins so.
LEMMA ApartInit == Init => WorldInv
<1>. SUFFICES ASSUME Init PROVE WorldInv
  OBVIOUS
<1>1. Inv BY InvInit
<1>. QED BY <1>1 DEF Init, WorldInv, GoneInv, OrderInv, Solo, FileInv, ApartInv, LandedInv,
                     PausedInv, LastInv, Done, NoObject

\* And it holds throughout.
LEMMA ApartInvariance == ASSUME Apart PROVE Spec => []WorldInv
<1>1. WorldInv /\ [Next]_vars => WorldInv' BY ApartStep
<1>. QED BY <1>1, ApartInit, PTL DEF Spec

\* Clusters in namespaces of their own, one command at a time: a cluster that has taken
\* over its own management is never managed by the genesis node as well, whatever
\* moves leave behind and however often it is created, ejected and created again.
THEOREM OneManagerAtATime == ASSUME Apart PROVE Spec => []OneManager
<1>1. WorldInv => OneManager
  BY DEF WorldInv, Inv, Sound, EjectInv, RecordInv, ApartInv, LandedInv, OneManager
<1>. QED BY <1>1, ApartInvariance, PTL

\* Under the same conditions eject tears the genesis node down only when every other
\* cluster that is on it has been released by an eject of its own.
THEOREM TheGenesisNodeIsKept == ASSUME Apart PROVE Spec => GenesisKept
<1>1. ASSUME WorldInv, Orderly, NEW c \in Clusters, Teardown(c),
             NEW d \in Clusters \ {c}, object[d].there
      PROVE  object[d].released
  <2>1. object[d].paused BY <1>1 DEF WorldInv, ApartInv, LastInv, Teardown
  <2>2. cmd[c] # Done BY <1>1 DEF Teardown, Done
  <2>3. cmd[d].next = "idle" BY <1>1, <2>2 DEF WorldInv, OrderInv, Solo, Done
  <2>. QED BY <1>1, <2>1, <2>3 DEF WorldInv, ApartInv, PausedInv
<1>2. WorldInv => (Orderly => \A c \in Clusters : Teardown(c) =>
                     \A d \in Clusters \ {c} : object[d].there => object[d].released)
  BY <1>1
<1>. QED BY <1>2, ApartInvariance, PTL DEF GenesisKept
=============================================================================
