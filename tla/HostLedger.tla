----------------------------- MODULE HostLedger -----------------------------
(***************************************************************************)
(* What the pool promises, with no reconcilers, caches or versions: a      *)
(* ledger in which every entry changes atomically.  A machine reserves a   *)
(* Host only while the Host is ready and nobody holds it, becomes its      *)
(* holder only on its own standing reservation, and a Host goes from one   *)
(* holder to the next only through being given up and verified again.      *)
(***************************************************************************)
CONSTANTS Hosts, Machines, None

VARIABLES
    listed,     \* the Hosts in the inventory
    reserved,   \* reserved[h]: the machine that marked h for itself
    holder,     \* holder[h]: the machine whose claim on h is recorded
    ready       \* ready[h]: h is verified, and may be reserved

ledger == <<listed, reserved, holder, ready>>

Init ==
    /\ listed   = Hosts
    /\ reserved = [h \in Hosts |-> None]
    /\ holder   = [h \in Hosts |-> None]
    /\ ready    = [h \in Hosts |-> FALSE]

\* A reservation that was never confirmed may be taken over.
Reserve(h, m) ==
    /\ h \in listed /\ ready[h] /\ holder[h] = None
    /\ reserved' = [reserved EXCEPT ![h] = m]
    /\ UNCHANGED <<listed, holder, ready>>

Confirm(h, m) ==
    /\ h \in listed /\ reserved[h] = m /\ holder[h] = None
    /\ holder' = [holder EXCEPT ![h] = m]
    /\ ready'  = [ready EXCEPT ![h] = FALSE]
    /\ UNCHANGED <<listed, reserved>>

\* Giving a Host up takes two steps, the reservation first.
Withdraw(h) ==
    /\ reserved[h] # None
    /\ reserved' = [reserved EXCEPT ![h] = None]
    /\ UNCHANGED <<listed, holder, ready>>

GiveUp(h) ==
    /\ reserved[h] = None
    /\ holder' = [holder EXCEPT ![h] = None]
    /\ ready'  = [ready EXCEPT ![h] = FALSE]
    /\ UNCHANGED <<listed, reserved>>

Verify(h, ok) ==
    /\ h \in listed /\ holder[h] = None
    /\ ready' = [ready EXCEPT ![h] = ok]
    /\ UNCHANGED <<listed, reserved, holder>>

Unlist(h) ==
    /\ listed'   = listed \ {h}
    /\ reserved' = [reserved EXCEPT ![h] = None]
    /\ holder'   = [holder EXCEPT ![h] = None]
    /\ ready'    = [ready EXCEPT ![h] = FALSE]

\* The ledger is carried elsewhere: reservations survive, the rest is rebuilt.
Carry ==
    /\ holder' = [h \in Hosts |-> None]
    /\ ready'  = [h \in Hosts |-> FALSE]
    /\ UNCHANGED <<listed, reserved>>

Next ==
    \/ \E h \in Hosts : \/ \E m \in Machines : Reserve(h, m) \/ Confirm(h, m)
                        \/ Withdraw(h) \/ GiveUp(h) \/ Unlist(h)
                        \/ \E ok \in BOOLEAN : Verify(h, ok)
    \/ Carry

Spec == Init /\ [][Next]_ledger
=============================================================================
