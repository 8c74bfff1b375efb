-------------------------- MODULE ProvisionerProofs --------------------------
(***************************************************************************)
(* Proofs about Provisioner, for every set of scripts, any number of runs, *)
(* and every set of faults in which a machine is released only when its    *)
(* run has ended: with earlyRelease the properties do not hold.            *)
(***************************************************************************)
EXTENDS Provisioner, TLAPS

Starting == {"clear", "script", "runner", "checksum", "launch"}

\* The owner and the command its reconcile is at.
OwnerInv ==
    /\ want \in used \cup {None}
    /\ pc \in {"wipeNode", "wipeFiles"} => want = None
    /\ pc \in Starting \cup {"exit"} => want # None

\* What Start has left on the host when it gets to each command.
FilesInv ==
    /\ files.checksum \in used \cup {None, Torn}
    /\ pc \in Starting \ {"clear"} => files.dir /\ files.exit = "none"
    /\ pc \in {"runner", "checksum", "launch"} => files.script = want
    /\ pc \in Starting \ {"launch"} => files.checksum # want
    /\ pc \in {"launch", "exit"} => files.checksum = want

\* The owner's script has not been opened by any run.
Unrun == \A i \in DOMAIN runs : runs[i].script # want

\* A run that is going on is the owner's, and the only one; its files are complete
\* and nobody is writing them.
LiveInv ==
    \A i \in DOMAIN runs : Alive(i) =>
        /\ want # None /\ pc \in {"idle", "exit"}
        /\ files.dir /\ files.script = want /\ files.checksum = want /\ files.exit = "none"
        /\ runs[i].state = "launched" => runs[i].script = None /\ Unrun
        /\ runs[i].state # "launched" => runs[i].script = want
        /\ \A j \in DOMAIN runs : Alive(j) => j = i

\* Start goes to work only for a script that has never run.
RunsInv ==
    /\ \A i \in DOMAIN runs : runs[i].script \in used \cup {None}
    /\ want # None /\ (pc \in Starting \/ files.checksum # want) => Unrun
    /\ AtMostOnce

Reports(code) == IF code = "zero" THEN "Succeeded" ELSE "Failed"

\* The exit code beside the owner's checksum, the one its run is about to write,
\* and the report are how its script ended.
OutcomeInv ==
    /\ want # None /\ files.checksum = want /\ files.exit # "none"
          => outcome[want] = Reports(files.exit)
    /\ \A i \in DOMAIN runs : runs[i].state \in {"zero", "nonzero"}
          => outcome[want] = Reports(runs[i].state)
    /\ report \in {"Succeeded", "Failed"}
          => /\ want # None /\ files.checksum = want /\ files.exit # "none"
             /\ report = Reports(files.exit)

Inv == TypeOK /\ OwnerInv /\ FilesInv /\ LiveInv /\ RunsInv /\ OutcomeInv

-----------------------------------------------------------------------------

\* A function on the indices of the runs is a sequence of runs.
LEMMA RunsAreASequence ==
    ASSUME TypeOK
    PROVE  /\ Len(runs) \in Nat /\ DOMAIN runs = 1 .. Len(runs)
           /\ \A i \in DOMAIN runs : runs[i] \in Runs
           /\ \A f \in [DOMAIN runs -> Runs] : f \in Seq(Runs)
BY DEF TypeOK

\* The edits of a runner.
LEMMA EditRun ==
    ASSUME TypeOK, NEW i \in DOMAIN runs, NEW s \in {"launched", "executing", "zero", "nonzero",
                                                    "over", "killed"},
           NEW d \in Data \cup {None, Torn}
    PROVE  /\ [runs EXCEPT ![i] = [state |-> s, script |-> d]] \in Seq(Runs)
           /\ [runs EXCEPT ![i].state = s] \in Seq(Runs)
<1>1. \A r \in Runs : [runs EXCEPT ![i] = r] \in [DOMAIN runs -> Runs]
  BY RunsAreASequence
<1>2. [state |-> s, script |-> d] \in Runs /\ [runs[i] EXCEPT !.state = s] \in Runs
  BY RunsAreASequence DEF Runs
<1>. QED BY <1>1, <1>2, RunsAreASequence

\* The reconcile's commands keep the types.
LEMMA ReconcileTyped == ASSUME TypeOK, Reconcile \/ Interrupt PROVE TypeOK'
<1>. USE DEF TypeOK, Commands, Outcomes, Files, NoFiles, Proceed
<1>1. CASE ReadChecksum BY <1>1 DEF ReadChecksum
<1>2. CASE ReadExit BY <1>2 DEF ReadExit
<1>3. CASE Clear BY <1>3 DEF Clear
<1>4. CASE UploadScript
  <2>1. want \in Data \cup {None, Torn} OBVIOUS
  <2>. QED BY <1>4, <2>1 DEF UploadScript
<1>5. CASE UploadRunner BY <1>5 DEF UploadRunner
<1>6. CASE UploadChecksum BY <1>6 DEF UploadChecksum
<1>7. CASE Launch
  <2>1. [state |-> "launched", script |-> None] \in Runs BY DEF Runs
  <2>2. runs' \in Seq(Runs) BY <1>7, <2>1 DEF Launch
  <2>. QED BY <1>7, <2>2 DEF Launch
<1>8. CASE WipeNode BY <1>8 DEF WipeNode
<1>9. CASE WipeFiles BY <1>9 DEF WipeFiles
<1>10. CASE Interrupt BY <1>10 DEF Interrupt
<1>. QED BY <1>1, <1>2, <1>3, <1>4, <1>5, <1>6, <1>7, <1>8, <1>9, <1>10 DEF Reconcile

\* So do the runners.
LEMMA RunStepTyped == ASSUME TypeOK, NEW i \in DOMAIN runs, RunStep(i) PROVE TypeOK'
<1>0. runs[i] \in Runs BY RunsAreASequence
<1>1. CASE Begins(i)
  <2>1. files.script \in Data \cup {None, Torn} BY DEF TypeOK, Files
  <2>2. runs' \in Seq(Runs) BY <1>1, <2>1, EditRun DEF Begins
  <2>. QED BY <1>1, <2>2 DEF Begins, TypeOK
<1>2. CASE Ends(i)
  <2>1. PICK code \in {"zero", "nonzero"} : runs' = [runs EXCEPT ![i].state = code]
    BY <1>2 DEF Ends
  <2>2. runs' \in Seq(Runs)
    <3>1. None \in Data \cup {None, Torn} OBVIOUS
    <3>. QED BY <2>1, <3>1, EditRun
  <2>3. outcome' \in [Data -> Outcomes] BY <1>2 DEF Ends, TypeOK, Outcomes
  <2>. QED BY <1>2, <2>2, <2>3 DEF Ends, TypeOK
<1>3. CASE WritesExit(i)
  <2>1. runs' \in Seq(Runs)
    <3>1. None \in Data \cup {None, Torn} OBVIOUS
    <3>. QED BY <1>3, <3>1, EditRun DEF WritesExit
  <2>2. files' \in Files BY <1>3 DEF WritesExit, TypeOK, Files
  <2>. QED BY <1>3, <2>1, <2>2 DEF WritesExit, TypeOK
<1>. QED BY <1>1, <1>2, <1>3 DEF RunStep

\* A host nobody has used.
LEMMA TypeInit == Init => TypeOK
BY DEF Init, TypeOK, Files, NoFiles, Commands, Outcomes

\* Every step keeps the types, whatever the faults.
LEMMA TypeStep == TypeOK /\ [Next]_vars => TypeOK'
<1>. SUFFICES ASSUME TypeOK, [Next]_vars PROVE TypeOK'
  OBVIOUS
<1>1. CASE Reconcile \/ Interrupt BY <1>1, ReconcileTyped
<1>2. CASE \E i \in DOMAIN runs : RunStep(i) BY <1>2, RunStepTyped
<1>3. CASE Reboot
  <2>1. \A i \in DOMAIN runs : [runs[i] EXCEPT !.state = "killed"] \in Runs
    BY RunsAreASequence DEF Runs
  <2>2. runs' \in [DOMAIN runs -> Runs] BY <1>3, <2>1, RunsAreASequence DEF Reboot
  <2>. QED BY <1>3, <2>2, RunsAreASequence DEF Reboot, TypeOK, Commands
<1>4. CASE \E d \in Data : Claim(d) BY <1>4 DEF Claim, TypeOK
<1>5. CASE Release BY <1>5 DEF Release, TypeOK, Commands, Outcomes
<1>6. CASE UNCHANGED vars BY <1>6 DEF vars, TypeOK
<1>. QED BY <1>1, <1>2, <1>3, <1>4, <1>5, <1>6 DEF Next

\* The files, the runs and the reconcile are well typed, whatever the faults.
THEOREM TypeCorrect == Spec => []TypeOK
BY TypeInit, TypeStep, PTL DEF Spec

-----------------------------------------------------------------------------

\* A command that leaves the runs, the owner and the outcomes alone, and with them
\* everything a live run relies on.
LEMMA CommandKeepsRuns ==
    ASSUME Inv, UNCHANGED <<want, used, runs, outcome, report>>, TypeOK', FilesInv',
           pc \in Starting, pc' \in Starting \cup {"idle"},
           files'.checksum \in {files.checksum, None, Torn, want},
           files'.checksum = want => files'.exit = "none"
    PROVE  Inv'
<1>1. Quiet BY DEF Inv, LiveInv, Starting, Quiet
<1>2. Unrun BY DEF Inv, RunsInv, OwnerInv
<1>3. report \notin {"Succeeded", "Failed"}
  BY DEF Inv, OutcomeInv, FilesInv, Starting
<1>4. OwnerInv' BY DEF Inv, OwnerInv, Starting
<1>5. LiveInv' BY <1>1 DEF Quiet, Alive, LiveInv
<1>6. RunsInv' BY <1>2 DEF Inv, RunsInv, Unrun, AtMostOnce
<1>7. OutcomeInv' BY <1>1, <1>3 DEF Inv, OutcomeInv, Quiet, Alive
<1>. QED BY <1>4, <1>5, <1>6, <1>7 DEF Inv

\* Start, up to the launch.
LEMMA StartKeepsInv ==
    ASSUME Inv, Clear \/ UploadScript \/ UploadRunner \/ UploadChecksum
    PROVE  Inv'
<1>1. TypeOK' BY ReconcileTyped DEF Inv, Reconcile
<1>2. UNCHANGED <<want, used, runs, outcome, report>>
  BY DEF Clear, UploadScript, UploadRunner, UploadChecksum
<1>3. pc \in Starting /\ pc' \in Starting \cup {"idle"}
  BY DEF Clear, UploadScript, UploadRunner, UploadChecksum, Starting, Proceed
<1>4. want # None /\ want \in used /\ used \subseteq Data
  BY <1>3 DEF Inv, OwnerInv, TypeOK
<1>5. want # Torn BY <1>4, NamesAssumption
<1>. USE DEF TypeOK, Files
<1>6. CASE Clear
  BY <1>1, <1>2, <1>3, <1>4, <1>6, CommandKeepsRuns DEF Inv, FilesInv, Clear, Starting, Proceed
<1>7. CASE UploadScript
  BY <1>1, <1>2, <1>3, <1>4, <1>7, CommandKeepsRuns
     DEF Inv, FilesInv, UploadScript, Starting, Proceed
<1>8. CASE UploadRunner
  BY <1>1, <1>2, <1>3, <1>4, <1>8, CommandKeepsRuns
     DEF Inv, FilesInv, UploadRunner, Starting, Proceed
<1>9. CASE UploadChecksum
  BY <1>1, <1>2, <1>3, <1>4, <1>5, <1>9, CommandKeepsRuns
     DEF Inv, FilesInv, UploadChecksum, Starting, Proceed
<1>. QED BY <1>6, <1>7, <1>8, <1>9

\* The launch: the first run of the owner's script, and the only one alive.
LEMMA LaunchKeepsInv == ASSUME Inv, Launch PROVE Inv'
<1>1. TypeOK' BY ReconcileTyped DEF Inv, Reconcile
<1>2. Quiet /\ Unrun /\ want # None
  BY DEF Inv, LiveInv, RunsInv, OwnerInv, Starting, Launch, Quiet
<1>3. /\ Len(runs) \in Nat /\ DOMAIN runs = 1 .. Len(runs)
      /\ DOMAIN runs' = 1 .. Len(runs) + 1
      /\ \A i \in DOMAIN runs : runs'[i] = runs[i]
      /\ runs'[Len(runs) + 1] = [state |-> "launched", script |-> None]
  BY RunsAreASequence DEF Inv, Launch, TypeOK
<1>4. pc = "launch" /\ pc' = "idle" /\ report' \in {"Running", report}
      /\ UNCHANGED <<want, used, files, outcome>>
  BY DEF Launch
<1>5. OwnerInv' /\ FilesInv' BY <1>4 DEF Inv, OwnerInv, FilesInv, Starting
<1>6. Unrun' BY <1>2, <1>3, <1>4 DEF Unrun
<1>7. LiveInv'
  BY <1>2, <1>3, <1>4, <1>6 DEF Inv, LiveInv, FilesInv, Quiet, Alive, Starting
<1>8. RunsInv' BY <1>3, <1>4, <1>6 DEF Inv, RunsInv, AtMostOnce
<1>9. OutcomeInv'
  BY <1>2, <1>3, <1>4 DEF Inv, OutcomeInv, FilesInv, Starting, Quiet, Alive
<1>. QED BY <1>1, <1>5, <1>7, <1>8, <1>9 DEF Inv

\* Reading the files back, and a session that drops.
LEMMA ReadKeepsInv ==
    ASSUME Inv, ReadChecksum \/ ReadExit \/ Interrupt
    PROVE  Inv'
<1>1. TypeOK' BY ReconcileTyped DEF Inv, Reconcile
<1>2. UNCHANGED <<want, used, files, runs, outcome>>
  BY DEF ReadChecksum, ReadExit, Interrupt
<1>3. Unrun' <=> Unrun BY <1>2 DEF Unrun
<1>4. CASE ReadChecksum
  <2>1. Unrun \/ files.checksum = want BY <1>4 DEF Inv, RunsInv, ReadChecksum
  <2>. QED BY <1>1, <1>2, <1>3, <1>4, <2>1
           DEF Inv, OwnerInv, FilesInv, LiveInv, RunsInv, OutcomeInv, AtMostOnce, Alive,
               ReadChecksum, Starting
<1>5. CASE ReadExit
  <2>1. /\ pc = "exit" /\ pc' = "idle" /\ files.checksum = want /\ want # None
        /\ report' \in {"Succeeded", "Failed"} => files.exit # "none" /\ report' = Reports(files.exit)
    BY <1>5 DEF ReadExit, Reports, Inv, FilesInv, OwnerInv, Starting
  <2>. QED BY <1>1, <1>2, <1>3, <2>1
           DEF Inv, OwnerInv, FilesInv, LiveInv, RunsInv, OutcomeInv, AtMostOnce, Alive, Starting
<1>6. CASE Interrupt
  BY <1>1, <1>2, <1>3, <1>6
     DEF Inv, OwnerInv, FilesInv, LiveInv, RunsInv, OutcomeInv, AtMostOnce, Alive,
         Interrupt, Starting
<1>. QED BY <1>4, <1>5, <1>6

\* bash opens the script: the upload was whole, and no run had it before.
LEMMA BeginsKeepsInv == ASSUME Inv, NEW i \in DOMAIN runs, Begins(i) PROVE Inv'
<1>1. TypeOK' BY RunStepTyped DEF Inv, RunStep
<1>2. Alive(i) /\ Unrun /\ want # None /\ files.script = want /\ files.checksum = want
      /\ pc \in {"idle", "exit"} /\ \A j \in DOMAIN runs : Alive(j) => j = i
  BY DEF Begins, Alive, Inv, LiveInv
<1>3. /\ DOMAIN runs' = DOMAIN runs
      /\ runs'[i] = [state |-> "executing", script |-> want]
      /\ \A j \in DOMAIN runs \ {i} : runs'[j] = runs[j]
  BY <1>2, RunsAreASequence DEF Begins, Inv
<1>4. UNCHANGED <<want, used, pc, report, files, outcome>> BY DEF Begins
<1>5. OwnerInv' /\ FilesInv' BY <1>4 DEF Inv, OwnerInv, FilesInv
<1>6. LiveInv'
  BY <1>2, <1>3, <1>4 DEF Inv, LiveInv, Alive
<1>7. RunsInv'
  BY <1>2, <1>3, <1>4 DEF Inv, RunsInv, AtMostOnce, Unrun, OwnerInv, Starting
<1>8. OutcomeInv' BY <1>3, <1>4 DEF Inv, OutcomeInv
<1>. QED BY <1>1, <1>5, <1>6, <1>7, <1>8 DEF Inv

\* The script ends, and its outcome is the owner's.
LEMMA EndsKeepsInv == ASSUME Inv, NEW i \in DOMAIN runs, Ends(i) PROVE Inv'
<1>1. TypeOK' BY RunStepTyped DEF Inv, RunStep
<1>2. Alive(i) /\ runs[i].script = want /\ want # None /\ files.exit = "none"
      /\ \A j \in DOMAIN runs : Alive(j) => j = i
  BY DEF Ends, Alive, Inv, LiveInv
<1>3. PICK code \in {"zero", "nonzero"} :
        /\ runs' = [runs EXCEPT ![i].state = code]
        /\ outcome' = IF runs[i].script \notin Data THEN outcome
                      ELSE [outcome EXCEPT ![runs[i].script] = Reports(code)]
  BY DEF Ends, Reports
<1>4. want \in Data BY <1>2 DEF Inv, TypeOK
<1>5. outcome'[want] = Reports(code) BY <1>2, <1>3, <1>4 DEF Inv, TypeOK
<1>6. /\ DOMAIN runs' = DOMAIN runs
      /\ runs'[i].state = code /\ runs'[i].script = want
      /\ \A j \in DOMAIN runs \ {i} : runs'[j] = runs[j]
  BY <1>2, <1>3, RunsAreASequence DEF Inv, Runs
<1>7. UNCHANGED <<want, used, pc, report, files>> BY DEF Ends
<1>8. OwnerInv' /\ FilesInv' BY <1>7 DEF Inv, OwnerInv, FilesInv
<1>9. LiveInv' BY <1>2, <1>6, <1>7 DEF Inv, LiveInv, Alive
<1>10. RunsInv'
  <2>1. \A j \in DOMAIN runs : runs'[j].script = runs[j].script BY <1>2, <1>6
  <2>. QED BY <2>1, <1>6, <1>7 DEF Inv, RunsInv, AtMostOnce, Unrun
<1>11. OutcomeInv'
  BY <1>2, <1>5, <1>6, <1>7 DEF Inv, OutcomeInv, Alive
<1>. QED BY <1>1, <1>8, <1>9, <1>10, <1>11 DEF Inv

\* The exit code goes beside the checksum of the script it belongs to.
LEMMA WritesExitKeepsInv == ASSUME Inv, NEW i \in DOMAIN runs, WritesExit(i) PROVE Inv'
<1>1. TypeOK' BY RunStepTyped DEF Inv, RunStep
<1>2. /\ Alive(i) /\ runs[i].script = want /\ want # None /\ files.exit = "none" /\ files.dir
      /\ files.checksum = want /\ pc \in {"idle", "exit"}
      /\ \A j \in DOMAIN runs : Alive(j) => j = i
      /\ runs[i].state \in {"zero", "nonzero"} /\ outcome[want] = Reports(runs[i].state)
  BY DEF WritesExit, Alive, Inv, LiveInv, OutcomeInv
<1>3. /\ DOMAIN runs' = DOMAIN runs
      /\ runs'[i].state = "over" /\ runs'[i].script = want
      /\ \A j \in DOMAIN runs \ {i} : runs'[j] = runs[j]
  BY <1>2, RunsAreASequence DEF WritesExit, Inv, Runs
<1>4. UNCHANGED <<want, used, pc, report, outcome>> BY DEF WritesExit
<1>5. /\ files'.exit = runs[i].state /\ files'.dir
      /\ files'.checksum = files.checksum /\ files'.script = files.script
  BY <1>2 DEF WritesExit, Inv, TypeOK, Files
<1>6. OwnerInv' /\ FilesInv' BY <1>2, <1>4, <1>5 DEF Inv, OwnerInv, FilesInv, Starting
<1>7. LiveInv' BY <1>2, <1>3 DEF LiveInv, Alive
<1>8. RunsInv'
  <2>1. \A j \in DOMAIN runs : runs'[j].script = runs[j].script BY <1>2, <1>3
  <2>. QED BY <2>1, <1>3, <1>4, <1>5 DEF Inv, RunsInv, AtMostOnce, Unrun
<1>9. report \notin {"Succeeded", "Failed"} BY <1>2 DEF Inv, OutcomeInv
<1>10. OutcomeInv' BY <1>2, <1>3, <1>4, <1>5, <1>9 DEF OutcomeInv, Alive
<1>. QED BY <1>1, <1>6, <1>7, <1>8, <1>10 DEF Inv

\* A reboot ends every run and no more; the checksum stays, so none is launched again.
LEMMA RebootKeepsInv == ASSUME Inv, Reboot PROVE Inv'
<1>1. TypeOK' BY TypeStep DEF Inv, Next
<1>2. pc' = "idle" /\ UNCHANGED <<want, used, report, files, outcome>> BY DEF Reboot
<1>3. /\ DOMAIN runs' = DOMAIN runs
      /\ \A j \in DOMAIN runs : runs'[j].script = runs[j].script
                                /\ runs'[j].state \in {"over", "killed"}
  BY RunsAreASequence DEF Reboot, Inv, Runs, Alive
<1>4. OwnerInv' /\ FilesInv' BY <1>2 DEF Inv, OwnerInv, FilesInv, Starting
<1>5. LiveInv' BY <1>3 DEF LiveInv, Alive
<1>6. RunsInv' BY <1>2, <1>3 DEF Inv, RunsInv, AtMostOnce, Unrun, Starting
<1>7. OutcomeInv' BY <1>2, <1>3 DEF Inv, OutcomeInv
<1>. QED BY <1>1, <1>4, <1>5, <1>6, <1>7 DEF Inv

\* The machines come and go: a new owner's script has left no traces here.
LEMMA OwnersKeepInv ==
    ASSUME "earlyRelease" \notin Faults, Inv,
           (\E d \in Data : Claim(d)) \/ Release \/ WipeNode \/ WipeFiles
    PROVE  Inv'
<1>1. TypeOK' BY TypeStep DEF Inv, Next, Reconcile
<1>2. UNCHANGED runs BY DEF Claim, Release, WipeNode, WipeFiles
<1>3. Quiet
  BY DEF Claim, Release, WipeNode, WipeFiles, Inv, LiveInv, Quiet
<1>4. LiveInv' BY <1>2, <1>3 DEF LiveInv, Quiet, Alive
<1>5. want' = want \/ want = None \/ want' = None
  BY DEF Claim, Release, WipeNode, WipeFiles
<1>6. CASE \E d \in Data : Claim(d)
  <2>1. PICK d \in Data : Claim(d) BY <1>6
  <2>2. Unrun' BY <1>2, <2>1, NamesAssumption DEF Claim, Inv, RunsInv, Unrun
  <2>3. files.checksum # d BY <2>1, NamesAssumption DEF Claim, Inv, FilesInv
  <2>4. d # None BY NamesAssumption
  <2>. QED BY <1>1, <1>2, <1>3, <1>4, <2>1, <2>2, <2>3, <2>4
           DEF Claim, Inv, OwnerInv, FilesInv, RunsInv, OutcomeInv, AtMostOnce, Starting,
               Quiet, Alive
<1>7. CASE Release
  BY <1>1, <1>2, <1>3, <1>4, <1>7
     DEF Release, Inv, OwnerInv, FilesInv, RunsInv, OutcomeInv, AtMostOnce, Starting,
         Quiet, Alive
<1>8. CASE WipeNode
  BY <1>1, <1>2, <1>3, <1>4, <1>8
     DEF WipeNode, Inv, OwnerInv, FilesInv, RunsInv, OutcomeInv, AtMostOnce, Starting,
         Proceed, Quiet, Alive
<1>9. CASE WipeFiles
  BY <1>1, <1>2, <1>3, <1>4, <1>9
     DEF WipeFiles, NoFiles, Inv, OwnerInv, FilesInv, RunsInv, OutcomeInv, AtMostOnce,
         Starting, Quiet, Alive
<1>. QED BY <1>6, <1>7, <1>8, <1>9

-----------------------------------------------------------------------------

\* There are no files, no runs and no owner.
LEMMA InvInit == Init => Inv
<1>. SUFFICES ASSUME Init PROVE Inv
  OBVIOUS
<1>1. DOMAIN runs = {} BY DEF Init
<1>. QED BY <1>1, TypeInit
         DEF Init, Inv, OwnerInv, FilesInv, LiveInv, RunsInv, OutcomeInv, AtMostOnce, NoFiles,
             Starting

\* Every step keeps the invariant, as long as a machine leaves only when its run has ended.
LEMMA InvStep ==
    ASSUME "earlyRelease" \notin Faults
    PROVE  Inv /\ [Next]_vars => Inv'
<1>. SUFFICES ASSUME Inv, [Next]_vars PROVE Inv'
  OBVIOUS
<1>1. CASE Clear \/ UploadScript \/ UploadRunner \/ UploadChecksum BY <1>1, StartKeepsInv
<1>2. CASE Launch BY <1>2, LaunchKeepsInv
<1>3. CASE ReadChecksum \/ ReadExit \/ Interrupt BY <1>3, ReadKeepsInv
<1>4. CASE \E i \in DOMAIN runs : RunStep(i)
  BY <1>4, BeginsKeepsInv, EndsKeepsInv, WritesExitKeepsInv DEF RunStep
<1>5. CASE Reboot BY <1>5, RebootKeepsInv
<1>6. CASE (\E d \in Data : Claim(d)) \/ Release \/ WipeNode \/ WipeFiles BY <1>6, OwnersKeepInv
<1>7. CASE UNCHANGED vars
  BY <1>7 DEF vars, Inv, TypeOK, OwnerInv, FilesInv, LiveInv, RunsInv, OutcomeInv, AtMostOnce,
              Unrun, Alive
<1>. QED BY <1>1, <1>2, <1>3, <1>4, <1>5, <1>6, <1>7 DEF Next, Reconcile

\* So it holds in every reachable state.
LEMMA Invariance ==
    ASSUME "earlyRelease" \notin Faults
    PROVE  Spec => []Inv
BY InvInit, InvStep, PTL DEF Spec

\* Status never credits a machine with an exit code that is not its own script's: not
\* after dropped sessions, reboots, or a host that was handed on without a reset.
THEOREM OutcomesAreTruthful ==
    ASSUME "earlyRelease" \notin Faults
    PROVE  Spec => []TruthfulOutcome
<1>1. Inv => TruthfulOutcome BY DEF Inv, OutcomeInv, TruthfulOutcome
<1>. QED BY <1>1, Invariance, PTL

\* Start launches a script at most once, wherever it was interrupted.
THEOREM ScriptsRunAtMostOnce ==
    ASSUME "earlyRelease" \notin Faults
    PROVE  Spec => []AtMostOnce
<1>1. Inv => AtMostOnce BY DEF Inv, RunsInv
<1>. QED BY <1>1, Invariance, PTL

\* A script whose upload was cut short is never executed.
THEOREM NoTornScriptRuns ==
    ASSUME "earlyRelease" \notin Faults
    PROVE  Spec => []NoTornRun
<1>1. Inv => NoTornRun BY NamesAssumption DEF Inv, RunsInv, TypeOK, NoTornRun
<1>. QED BY <1>1, Invariance, PTL

-----------------------------------------------------------------------------
(* The files implement HostRun.                                            *)

\* The answer for one script.
Answer(d) ==
    IF d \in used /\ want # d THEN "over"
    ELSE IF files.checksum # d THEN "idle"
    ELSE CASE files.exit = "none" -> "running"
           [] files.exit = "zero" -> "succeeded"
           [] OTHER               -> "failed"

\* What Status answers for each machine, before and after a step.
LEMMA StatusAnswers ==
    /\ Status = [d \in Data |-> Answer(d)]
    /\ Status' = [d \in Data |-> Answer(d)']
BY DEF Status, Answer

\* A step that changes no answer stutters.
LEMMA SameAnswers ==
    ASSUME \A d \in Data : Answer(d)' = Answer(d)
    PROVE  UNCHANGED Status
BY StatusAnswers

\* A step that changes one answer along HostRun is a step of it.
LEMMA OneAnswer ==
    ASSUME NEW d \in Data, \A e \in Data \ {d} : Answer(e)' = Answer(e),
           \/ Answer(d) = "idle" /\ Answer(d)' = "running"
           \/ Answer(d) = "running" /\ Answer(d)' \in {"succeeded", "failed"}
           \/ Answer(d)' = "over"
    PROVE  Run!Next
<1>1. Status' = [Status EXCEPT ![d] = Answer(d)'] /\ Status[d] = Answer(d)
  BY StatusAnswers
<1>2. Run!Start(d) \/ Run!End(d) \/ Run!Leave(d)
  BY <1>1 DEF Run!Start, Run!End, Run!Leave
<1>. QED BY <1>2 DEF Run!Next

\* Files that are written while the owner's checksum is not there change no answer.
LEMMA UnansweredWrite ==
    ASSUME Inv, UNCHANGED <<want, used>>, want # None => files.checksum # want,
           files'.checksum \in {files.checksum, None, Torn}
    PROVE  UNCHANGED Status
<1>1. \A d \in Data : Answer(d)' = Answer(d)
  <2>. SUFFICES ASSUME NEW d \in Data, ~(d \in used /\ want # d)
                PROVE  files.checksum # d /\ files'.checksum # d
    BY DEF Answer
  <2>. QED BY NamesAssumption DEF Inv, FilesInv
<1>. QED BY <1>1, SameAnswers

\* Every step is a step of HostRun or changes no answer.
LEMMA RunStepRefines ==
    ASSUME "earlyRelease" \notin Faults, Inv, [Next]_vars
    PROVE  [Run!Next]_Status
<1>1. CASE UNCHANGED <<want, used, files>>
  BY <1>1, SameAnswers DEF Answer
<1>2. CASE Clear \/ UploadScript
  BY <1>2, UnansweredWrite DEF Clear, UploadScript, Inv, FilesInv, Starting, TypeOK, Files
<1>3. CASE UploadChecksum
  <2>1. PICK d \in Data : d = want
    BY <1>3 DEF UploadChecksum, Inv, OwnerInv, Starting, TypeOK
  <2>2. files.checksum # d /\ files.exit = "none"
    BY <1>3, <2>1 DEF UploadChecksum, Inv, FilesInv, Starting
  <2>3. CASE files'.checksum = d
    <3>1. files'.exit = "none" /\ UNCHANGED <<want, used>>
      BY <1>3, <2>2 DEF UploadChecksum, Inv, TypeOK, Files
    <3>2. Answer(d) = "idle" /\ Answer(d)' = "running"
      BY <2>1, <2>2, <2>3, <3>1 DEF Answer
    <3>3. \A e \in Data \ {d} : Answer(e)' = Answer(e)
      BY <2>1, <2>3, <3>1, NamesAssumption DEF Answer, Inv, FilesInv
    <3>. QED BY <3>2, <3>3, OneAnswer
  <2>4. CASE files'.checksum # d
    BY <1>3, <2>1, <2>2, <2>4, UnansweredWrite DEF UploadChecksum, Inv, TypeOK, Files
  <2>. QED BY <2>3, <2>4
<1>4. CASE \E i \in DOMAIN runs : WritesExit(i)
  <2>1. PICK i \in DOMAIN runs : WritesExit(i) BY <1>4
  <2>2. /\ want # None /\ files.checksum = want /\ files.exit = "none"
        /\ files.dir /\ runs[i].state \in {"zero", "nonzero"}
    BY <2>1 DEF WritesExit, Alive, Inv, LiveInv
  <2>3. PICK d \in Data : d = want BY <2>2 DEF Inv, TypeOK
  <2>4. files'.checksum = d /\ files'.exit = runs[i].state /\ UNCHANGED <<want, used>>
    BY <2>1, <2>2, <2>3 DEF WritesExit, Inv, TypeOK, Files
  <2>5. Answer(d) = "running" /\ Answer(d)' \in {"succeeded", "failed"}
    BY <2>2, <2>3, <2>4 DEF Answer
  <2>6. \A e \in Data \ {d} : Answer(e)' = Answer(e)
    BY <2>2, <2>3, <2>4 DEF Answer
  <2>. QED BY <2>5, <2>6, OneAnswer
<1>5. CASE \E d \in Data : Claim(d)
  <2>1. PICK d \in Data : Claim(d) BY <1>5
  <2>2. \A e \in Data : Answer(e)' = Answer(e)
    BY <2>1, NamesAssumption DEF Claim, Answer, Inv, FilesInv
  <2>. QED BY <2>2, SameAnswers
<1>6. CASE Release
  <2>1. PICK d \in Data : d = want /\ d \in used BY <1>6 DEF Release, Inv, OwnerInv, TypeOK
  <2>2. want' = None /\ UNCHANGED <<used, files>> BY <1>6 DEF Release
  <2>3. Answer(d)' = "over" BY <2>1, <2>2, NamesAssumption DEF Answer
  <2>4. \A e \in Data \ {d} : Answer(e)' = Answer(e)
    BY <2>1, <2>2, NamesAssumption DEF Answer
  <2>. QED BY <2>3, <2>4, OneAnswer
<1>7. CASE WipeFiles
  BY <1>7, UnansweredWrite DEF WipeFiles, NoFiles, Inv, OwnerInv
<1>. QED
  BY <1>1, <1>2, <1>3, <1>4, <1>5, <1>6, <1>7
     DEF Next, Reconcile, RunStep, ReadChecksum, ReadExit, UploadRunner, Launch, Interrupt,
         Begins, Ends, Reboot, WipeNode, vars

\* The files on the host implement HostRun: what Status answers for a machine goes from
\* idle to running to an outcome, and never back, although every file is written and
\* removed by a command of its own that may be cut short.
THEOREM FilesImplementHostRun ==
    ASSUME "earlyRelease" \notin Faults
    PROVE  Spec => ImplementsHostRun
<1>1. Init => Run!Init
  <2>1. ASSUME Init PROVE \A d \in Data : Answer(d) = "idle"
    BY <2>1, NamesAssumption DEF Init, NoFiles, Answer
  <2>. QED BY <2>1, StatusAnswers DEF Run!Init
<1>2. Inv /\ [Next]_vars => [Run!Next]_Status BY RunStepRefines
<1>. QED BY <1>1, <1>2, Invariance, PTL DEF Spec, ImplementsHostRun, Run!Spec
=============================================================================
