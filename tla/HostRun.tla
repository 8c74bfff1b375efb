------------------------------- MODULE HostRun -------------------------------
(***************************************************************************)
(* What bootstrapping promises a machine, with no files, sessions or       *)
(* reconciles: its script is started once and ends once, the answer to     *)
(* "how is it going?" only ever moves forward, and nobody else's run is    *)
(* mistaken for it, until the machine itself is taken out of service.      *)
(* Provisioner implements it with files on a host; HostPool, which calls   *)
(* the provisioner, implements it for a pool of hosts that are reset and   *)
(* handed on.                                                              *)
(***************************************************************************)
CONSTANT Jobs       \* one for each machine, with its bootstrap script

VARIABLE status     \* status[j]: what the next Status for j answers

Init == status = [j \in Jobs |-> "idle"]

Start(j) ==
    /\ status[j] = "idle"
    /\ status' = [status EXCEPT ![j] = "running"]

End(j) ==
    /\ status[j] = "running"
    /\ \E answer \in {"succeeded", "failed"} : status' = [status EXCEPT ![j] = answer]

\* The machine is deleted: nobody asks for j any more.
Leave(j) == status' = [status EXCEPT ![j] = "over"]

Next == \E j \in Jobs : Start(j) \/ End(j) \/ Leave(j)

Spec == Init /\ [][Next]_status
=============================================================================
