----------------------------- MODULE Provisioner -----------------------------
(***************************************************************************)
(* One host as internal/provisioner sees it.  The bootstrap run is         *)
(* detached on the host and all its state is files there, so a reconcile   *)
(* that is interrupted anywhere finds out on the next visit what happened. *)
(*                                                                         *)
(* Each SSH command is a step.  A session may drop before the command,     *)
(* after it, or halfway through an upload; the host may reboot; the        *)
(* machine that owns the host may be deleted and the host, reset or not,   *)
(* given to the next one.                                                  *)
(***************************************************************************)
EXTENDS Integers, Sequences

CONSTANTS
    Data,       \* rendered bootstrap scripts; a checksum identifies one
    Faults,     \* a subset of FaultKinds
    MaxRuns,    \* bound: how many runs are launched on the host
    None,       \* no file, no owner
    Torn        \* the content of a file whose upload was cut short

\* cut: an SSH session drops or the manager stops.  reboot: the host reboots.
\* earlyRelease: a machine is deleted while its bootstrap run is going on.
FaultKinds == {"cut", "reboot", "earlyRelease"}

ASSUME FaultsAssumption  == Faults \subseteq FaultKinds
ASSUME MaxRunsAssumption == MaxRuns \in Nat
ASSUME NamesAssumption   == None \notin Data /\ Torn \notin Data /\ None # Torn

VARIABLES
    want,       \* the script of the machine that owns the host
    used,       \* the scripts that have been wanted: no two machines share one
    pc,         \* the next SSH command of the running reconcile
    report,     \* the phase last recorded for the owner
    files,      \* the state directory, /var/lib/kgenesis
    runs,       \* the runner processes launched on the host
    outcome     \* outcome[d]: how script d ended on this host since it was reset

vars == <<want, used, pc, report, files, runs, outcome>>

-----------------------------------------------------------------------------

Files == [dir: BOOLEAN, script: Data \cup {None, Torn}, checksum: Data \cup {None, Torn},
          exit: {"none", "zero", "nonzero"}]
NoFiles == [dir |-> FALSE, script |-> None, checksum |-> None, exit |-> "none"]

\* A runner: launched, then executing what the script file held when bash
\* opened it, then about to write the exit code.
Runs == [state: {"launched", "executing", "zero", "nonzero", "over", "killed"},
         script: Data \cup {None, Torn}]

Commands == {"idle", "exit", "clear", "script", "runner", "checksum", "launch",
             "wipeNode", "wipeFiles"}
Outcomes == {"none", "Succeeded", "Failed"}

TypeOK ==
    /\ want \in Data \cup {None} /\ used \subseteq Data
    /\ pc \in Commands
    /\ report \in Outcomes \cup {"Running"}
    /\ files \in Files
    /\ runs \in Seq(Runs)
    /\ outcome \in [Data -> Outcomes]

Init ==
    /\ want = None /\ used = {}
    /\ pc = "idle" /\ report = "none"
    /\ files = NoFiles
    /\ runs = <<>>
    /\ outcome = [d \in Data |-> "none"]

Alive(i) == runs[i].state \notin {"over", "killed"}
Quiet    == \A i \in DOMAIN runs : ~Alive(i)

\* The command came back, or the session dropped once it had taken effect.
Proceed(next) == pc' = next \/ ("cut" \in Faults /\ pc' = "idle")

-----------------------------------------------------------------------------
(* Status.                                                                 *)

\* A checksum that is missing, torn or of other data reads as Idle, and Start
\* begins: preflight changes nothing, its failure is an Interrupt.
ReadChecksum ==
    /\ pc = "idle" /\ want # None
    /\ pc' = IF files.checksum = want THEN "exit" ELSE "clear"
    /\ UNCHANGED <<want, used, report, files, runs, outcome>>

\* Mutant: the content of the file is passed on as it is.
ReadExitRaw ==
    /\ pc = "exit"
    /\ report' = files.exit
    /\ pc' = "idle"
    /\ UNCHANGED <<want, used, files, runs, outcome>>

ReadExit ==
    /\ pc = "exit"
    /\ report' = CASE files.exit = "none" -> "Running"
                   [] files.exit = "zero" -> "Succeeded"
                   [] OTHER               -> "Failed"
    /\ pc' = "idle"
    /\ UNCHANGED <<want, used, files, runs, outcome>>

-----------------------------------------------------------------------------
(* Start.                                                                  *)

\* Mutant: the exit code of the previous run stays.
ClearChecksum ==
    /\ pc = "clear"
    /\ files' = [files EXCEPT !.dir = TRUE, !.checksum = None] /\ Proceed("script")
    /\ UNCHANGED <<want, used, report, runs, outcome>>

\* rm -f removes the exit code, then the checksum.
Clear ==
    /\ pc = "clear"
    /\ LET half == [files EXCEPT !.dir = TRUE, !.exit = "none"]
       IN  \/ files' = [half EXCEPT !.checksum = None] /\ Proceed("script")
           \/ "cut" \in Faults /\ files' = half /\ pc' = "idle"
    /\ UNCHANGED <<want, used, report, runs, outcome>>

\* Mutant: an upload that was cut short is not noticed.
UploadBlindly ==
    /\ pc = "script"
    /\ \/ files' = [files EXCEPT !.script = want]
       \/ "cut" \in Faults /\ files' = [files EXCEPT !.script = Torn]
    /\ pc' = "runner"
    /\ UNCHANGED <<want, used, report, runs, outcome>>

UploadScript ==
    /\ pc = "script"
    /\ \/ files' = [files EXCEPT !.script = want] /\ Proceed("runner")
       \/ "cut" \in Faults /\ files' = [files EXCEPT !.script = Torn] /\ pc' = "idle"
    /\ UNCHANGED <<want, used, report, runs, outcome>>

\* run.sh is the same whatever the data, but for a line in the log.
UploadRunner ==
    /\ pc = "runner"
    /\ Proceed("checksum")
    /\ UNCHANGED <<want, used, report, files, runs, outcome>>

\* Mutant: the checksum is uploaded once the run is launched.
LaunchFirst ==
    /\ pc = "checksum" /\ Len(runs) < MaxRuns
    /\ runs' = Append(runs, [state |-> "launched", script |-> None])
    /\ \/ files' = [files EXCEPT !.checksum = want] /\ pc' = "idle"
       \/ "cut" \in Faults /\ pc' = "idle" /\ UNCHANGED files
    /\ UNCHANGED <<want, used, report, outcome>>

UploadChecksum ==
    /\ pc = "checksum"
    /\ \/ files' = [files EXCEPT !.checksum = want] /\ Proceed("launch")
       \/ "cut" \in Faults /\ files' = [files EXCEPT !.checksum = Torn] /\ pc' = "idle"
    /\ UNCHANGED <<want, used, report, runs, outcome>>

Launch ==
    /\ pc = "launch" /\ Len(runs) < MaxRuns
    /\ runs' = Append(runs, [state |-> "launched", script |-> None])
    /\ report' \in {"Running"} \cup IF "cut" \in Faults THEN {report} ELSE {}
    /\ pc' = "idle"
    /\ UNCHANGED <<want, used, files, outcome>>

\* Mutant: the run is a child of the SSH session.
InterruptAttached ==
    /\ pc # "idle" /\ "cut" \in Faults
    /\ pc' = "idle"
    /\ runs' = [i \in DOMAIN runs |-> [runs[i] EXCEPT !.state = "over"]]
    /\ UNCHANGED <<want, used, report, files, outcome>>

\* The session drops before the next command: the reconcile ends in an error.
Interrupt ==
    /\ pc # "idle" /\ "cut" \in Faults
    /\ pc' = "idle"
    /\ UNCHANGED <<want, used, report, files, runs, outcome>>

-----------------------------------------------------------------------------
(* The runner.                                                             *)

Begins(i) ==
    /\ runs[i].state = "launched"
    /\ runs' = [runs EXCEPT ![i] = [state |-> "executing", script |-> files.script]]
    /\ UNCHANGED <<want, used, pc, report, files, outcome>>

Ends(i) ==
    /\ runs[i].state = "executing"
    /\ \E code \in {"zero", "nonzero"} :
         /\ runs' = [runs EXCEPT ![i].state = code]
         /\ LET d == runs[i].script
            IN  outcome' = IF d \notin Data THEN outcome
                           ELSE [outcome EXCEPT ![d] =
                                    IF code = "zero" THEN "Succeeded" ELSE "Failed"]
    /\ UNCHANGED <<want, used, pc, report, files>>

\* The exit code goes into the state directory, if a reset has not removed it.
WritesExit(i) ==
    /\ runs[i].state \in {"zero", "nonzero"}
    /\ files' = IF files.dir THEN [files EXCEPT !.exit = runs[i].state] ELSE files
    /\ runs' = [runs EXCEPT ![i].state = "over"]
    /\ UNCHANGED <<want, used, pc, report, outcome>>

Reboot ==
    /\ "reboot" \in Faults
    /\ runs' = [i \in DOMAIN runs |->
                   IF Alive(i) THEN [runs[i] EXCEPT !.state = "killed"] ELSE runs[i]]
    /\ pc' = "idle"
    /\ runs' # runs \/ pc' # pc
    /\ UNCHANGED <<want, used, report, files, outcome>>

-----------------------------------------------------------------------------
(* The machines that own the host, one after the other.                    *)

Claim(d) ==
    /\ pc = "idle" /\ want = None /\ d \notin used
    /\ want' = d /\ used' = used \cup {d}
    /\ UNCHANGED <<pc, report, files, runs, outcome>>

\* reconcileDelete connects and resets the host, and releases it either way.
Release ==
    /\ pc = "idle" /\ want # None
    /\ Quiet \/ "earlyRelease" \in Faults
    /\ want' = None /\ report' = "none"
    /\ pc' = "wipeNode"
    /\ UNCHANGED <<used, files, runs, outcome>>

\* The reset script: kubeadm's state first, the state directory after it.
\* It leaves a running bootstrap script alone.
WipeNode ==
    /\ pc = "wipeNode"
    /\ outcome' = [d \in Data |-> "none"]
    /\ Proceed("wipeFiles")
    /\ UNCHANGED <<want, used, report, files, runs>>

WipeFiles ==
    /\ pc = "wipeFiles"
    /\ files' = NoFiles
    /\ pc' = "idle"
    /\ UNCHANGED <<want, used, report, runs, outcome>>

-----------------------------------------------------------------------------

Reconcile == \/ ReadChecksum \/ ReadExit \/ Clear \/ UploadScript \/ UploadRunner
             \/ UploadChecksum \/ Launch \/ WipeNode \/ WipeFiles
RunStep(i) == Begins(i) \/ Ends(i) \/ WritesExit(i)

Next == \/ Reconcile \/ Interrupt \/ Reboot
        \/ \E i \in DOMAIN runs : RunStep(i)
        \/ \E d \in Data : Claim(d)
        \/ Release

Spec == Init /\ [][Next]_vars

\* Detached processes run, and controller-runtime calls again until a reconcile
\* gets through: not every session drops.
Fairness ==
    /\ WF_vars(Reconcile) /\ SF_vars(ReadExit)
    /\ \A i \in 1 .. MaxRuns : WF_vars(i \in DOMAIN runs /\ RunStep(i))

FairSpec == Spec /\ Fairness

-----------------------------------------------------------------------------
(* Properties.                                                             *)

\* What the controller records about the owner's bootstrap is how the owner's
\* own script ended on this host, through dropped sessions, reboots, and hosts
\* handed on without a reset.
TruthfulOutcome ==
    report \in {"Succeeded", "Failed"} => outcome[want] = report

\* A script is run at most once: whatever was interrupted in Start, the files
\* tell the next Status enough not to launch it again.
AtMostOnce ==
    \A i, j \in DOMAIN runs :
        runs[i].script = runs[j].script /\ runs[i].script # None => i = j

\* A script whose upload was cut short is never run.
NoTornRun == \A i \in DOMAIN runs : runs[i].script # Torn

\* A run that is going on for the owner is reported in the end, however many
\* sessions drop meanwhile, unless the host went down under it.
DetachedRunIsReported ==
    \A d \in Data :
        (want = d /\ \E i \in DOMAIN runs : Alive(i) /\ runs[i].script = d)
            ~> \/ want # d \/ report \in {"Succeeded", "Failed"}
               \/ \E i \in DOMAIN runs : runs[i] = [state |-> "killed", script |-> d]

\* What the files say of each script; a script whose machine has gone is not asked for.
Status == [d \in Data |->
    IF d \in used /\ want # d THEN "over"
    ELSE IF files.checksum # d THEN "idle"
    ELSE CASE files.exit = "none" -> "running"
           [] files.exit = "zero" -> "succeeded"
           [] OTHER               -> "failed"]

Run == INSTANCE HostRun WITH Jobs <- Data, status <- Status

\* The files implement one run for each script: what Status would answer for the
\* owner goes from idle to running to an outcome and never back or past a state,
\* although every file is written and removed on its own.
ImplementsHostRun == Run!Spec
=============================================================================
