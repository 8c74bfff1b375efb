---------------------------- MODULE HostKeysProofs ----------------------------
(***************************************************************************)
(* Proofs about HostKeys, for every set of Hosts and any number of keys.   *)
(* OneKeyPerTrust is proved for reconciles that read an up-to-date cache   *)
(* and an operator who trusts what a probe has refused: without either it  *)
(* does not hold.                                                          *)
(***************************************************************************)
EXTENDS HostKeys, FiniteSetTheorems, TLAPS

\* Whoever has the current version of a Host has the Host; a machine's copy is one of
\* a Host that it holds.
CopyInv(h) ==
    /\ "cache" \in fresh[h] => cache[h] = host[h]
    /\ host[h].claimed <=> holder[h] # "none"
    /\ visit[h] # NoVisit => /\ holder[h] # "none"
                             /\ visit[h].copy.pin = host[h].pin
                             /\ "visit" \in fresh[h] => visit[h].copy = host[h]

\* A Host that can be claimed, or is, has a pin; one that is refused, and one that the
\* operator is about to trust, presents a later key than its pin.
PinInv(h) ==
    /\ host[h].pin <= key[h]
    /\ host[h].claimed \/ host[h].phase \in {"Available", "Claimed", "Provisioned"}
          => host[h].pin # NoKey
    /\ host[h].phase = "Refused" /\ host[h].pin # NoKey => host[h].pin < key[h]
    /\ trust[h] # "idle" => /\ host[h].pin # NoKey /\ host[h].pin < key[h] /\ ~host[h].claimed
                            /\ host[h].phase \notin {"Available", "Claimed", "Provisioned"}

\* A probe has read the pin, and only trust has forgotten it since; it has read that the
\* Host was refused if it is now, and finds it available under its pin only if it is
\* not refused and nobody is about to forget that pin.
ProbeInv(h) ==
    LET copy == probe[h].copy
        new  == probe[h].new
    IN /\ probe[h].at # "idle" =>
             /\ host[h].pin \in {copy.pin, NoKey} /\ copy.pin <= key[h]
             /\ host[h].phase = "Refused" => copy.phase = "Refused"
             /\ copy.phase = "Refused" /\ copy.pin # NoKey => copy.pin < key[h]
             /\ copy.pin # NoKey /\ host[h].pin = NoKey => copy.pin < key[h]
       /\ probe[h].at = "patch" =>
             /\ new.pin <= key[h]
             /\ copy.pin # NoKey => new.pin = copy.pin
             /\ new.phase \in {"Available", "Unreachable", "Refused"}
             /\ new.phase = "Available" => new.pin # NoKey
             /\ new.phase = "Available" /\ copy.pin # NoKey
                   => trust[h] = "idle" /\ host[h].pin = copy.pin /\ copy.phase # "Refused"
             /\ new.phase = "Refused" => copy.pin # NoKey /\ copy.pin < key[h]

\* The Host has been reached with the key that is pinned or, by a first contact whose pin
\* is not stored yet, with the key in that probe's copy; with none before that.
UsedInv(h) ==
    accepted[h] \subseteq IF PinInMemory(h) THEN {probe[h].new.pin} ELSE {host[h].pin} \ {NoKey}

Trusting(h) == policy[h] = "TOFU" => CopyInv(h) /\ PinInv(h) /\ ProbeInv(h) /\ UsedInv(h)
Inv         == TypeOK /\ \A h \in Hosts : Trusting(h)

-----------------------------------------------------------------------------
(* The types, whatever the faults.                                         *)

\* What the reconciles hold.
LEMMA Held ==
    ASSUME TypeOK, NEW h \in Hosts
    PROVE  /\ probe[h].at \in {"idle", "dial", "patch"} /\ (probe[h] = NoProbe <=> probe[h].at = "idle")
           /\ probe[h].at # "idle" => probe[h].copy \in HostObjects
           /\ probe[h].at = "patch" => probe[h].new \in HostObjects
           /\ visit[h].at \in {"idle", "dial", "mark", "release"}
           /\ visit[h] = NoVisit <=> visit[h].at = "idle"
           /\ visit[h].at # "idle" => visit[h].copy \in HostObjects
<1>. probe[h] \in Probes /\ visit[h] \in Visits BY DEF TypeOK
<1>. QED BY DEF Probes, NoProbe, Visits, NoVisit

\* What they may come to hold.
LEMMA Holds ==
    /\ NoProbe \in Probes /\ NoVisit \in Visits
    /\ \A o \in HostObjects : [at |-> "dial", copy |-> o] \in Probes
    /\ \A o, n \in HostObjects : [at |-> "patch", copy |-> o, new |-> n] \in Probes
    /\ \A o \in HostObjects, a \in {"dial", "mark", "release"} : [at |-> a, copy |-> o] \in Visits
BY DEF Probes, Visits

\* The edits of a Host.
LEMMA HostEdits ==
    ASSUME NEW o \in HostObjects, NEW k \in Keys \cup {NoKey}, NEW f \in Phases, NEW b \in BOOLEAN
    PROVE  /\ [o EXCEPT !.phase = f] \in HostObjects
           /\ [o EXCEPT !.pin = k] \in HostObjects
           /\ [o EXCEPT !.publicKey = k] \in HostObjects
           /\ [o EXCEPT !.phase = f, !.claimed = b] \in HostObjects
           /\ [o EXCEPT !.phase = f, !.pin = k] \in HostObjects
BY DEF HostObjects

\* A connection.
LEMMA PinnedTyped ==
    ASSUME TypeOK, NEW h \in Hosts, NEW o \in HostObjects
    PROVE  Pinned(h, o) \in HostObjects
<1>1. key[h] \in Keys \cup {NoKey} BY DEF TypeOK
<1>2. [o EXCEPT !.pin = key[h]] \in HostObjects BY <1>1 DEF HostObjects
<1>. QED BY <1>2 DEF Pinned

\* The keys a Host is reached with.
LEMMA MeetsTyped ==
    ASSUME TypeOK, NEW h \in Hosts, NEW copy,
           Meets(h, copy) \/ LosePins({h}) \/ LosePins(Hosts) \/ UNCHANGED accepted
    PROVE  accepted' \in [Hosts -> SUBSET Keys]
<1>1. CASE Meets(h, copy) BY <1>1 DEF TypeOK, Meets
<1>2. CASE LosePins({h}) \/ LosePins(Hosts) BY <1>2 DEF TypeOK, LosePins
<1>. QED BY <1>1, <1>2 DEF TypeOK

\* A Host is met with its pin, or a new one.
LEMMA PinnedKey ==
    ASSUME TypeOK, NEW h \in Hosts, policy[h] = "TOFU", NEW o \in HostObjects
    PROVE  /\ Pinned(h, o).pin \in Keys
           /\ Pinned(h, o).pin = IF o.pin = NoKey THEN key[h] ELSE o.pin
<1>1. key[h] \in Keys BY DEF TypeOK
<1>. QED BY <1>1 DEF Pinned, HostObjects, NoKey, Keys

\* The outcomes of a probe's connection.
LEMMA DialFinds ==
    ASSUME TypeOK, NEW h \in Hosts, Dial(h)
    PROVE  /\ probe[h].copy \in HostObjects
           /\ \E new \in HostObjects :
                 /\ probe' = [probe EXCEPT ![h] = [at |-> "patch", copy |-> probe[h].copy,
                                                   new |-> new]]
                 /\ \/ /\ Reaches(h, probe[h].copy) /\ new.phase \in {"Available", "Unreachable"}
                       /\ new.pin = Pinned(h, probe[h].copy).pin
                    \/ /\ ~Reaches(h, probe[h].copy) /\ new.pin = probe[h].copy.pin
                       /\ new.phase = IF up[h] THEN "Refused" ELSE "Unreachable"
<1>. DEFINE copy == probe[h].copy
            pinned == Pinned(h, copy)
<1>1. copy \in HostObjects BY Held DEF Dial
<1>2. pinned \in HostObjects BY <1>1, PinnedTyped
<1>3. \A f \in Phases, o \in {copy, pinned} :
         /\ [o EXCEPT !.phase = f] \in HostObjects
         /\ [o EXCEPT !.phase = f].phase = f /\ [o EXCEPT !.phase = f].pin = o.pin
  BY <1>1, <1>2 DEF HostObjects
<1>4. CASE Reaches(h, copy)
  <2>. PICK f \in {"Available", "Unreachable"} :
          probe' = [probe EXCEPT ![h] = [at |-> "patch", copy |-> copy,
                                         new |-> [pinned EXCEPT !.phase = f]]]
    BY <1>4 DEF Dial
  <2>. QED BY <1>1, <1>3, <1>4 DEF Phases
<1>5. CASE ~Reaches(h, copy)
  <2>. DEFINE f == IF up[h] THEN "Refused" ELSE "Unreachable"
  <2>1. probe' = [probe EXCEPT ![h] = [at |-> "patch", copy |-> copy,
                                       new |-> [copy EXCEPT !.phase = f]]]
    BY <1>5 DEF Dial
  <2>2. f \in Phases BY DEF Phases
  <2>. QED BY <1>1, <1>3, <1>5, <2>1, <2>2
<1>. QED BY <1>4, <1>5

\* HostReconciler.
LEMMA ReconcilerTyped ==
    ASSUME TypeOK, NEW h \in Hosts, HostReconciler(h)
    PROVE  TypeOK'
<1>. USE DEF hardware, machine, controller
<1>0. /\ cache[h] \in HostObjects /\ host[h] \in HostObjects /\ probe \in [Hosts -> Probes]
      /\ queue \subseteq Hosts /\ timer \subseteq Hosts
  BY DEF TypeOK
<1>1. CASE BeginProbe(h)
  <2>1. probe' \in [Hosts -> Probes] BY <1>0, <1>1, Holds DEF BeginProbe
  <2>. QED BY <1>0, <1>1, <2>1 DEF BeginProbe, TypeOK
<1>2. CASE Dial(h)
  <2>. DEFINE copy == probe[h].copy
  <2>1. copy \in HostObjects BY <1>2, DialFinds
  <2>2. PICK new \in HostObjects :
           probe' = [probe EXCEPT ![h] = [at |-> "patch", copy |-> copy, new |-> new]]
    BY <1>2, DialFinds
  <2>3. probe' \in [Hosts -> Probes] BY <1>0, <2>1, <2>2, Holds
  <2>4. up' \in [Hosts -> BOOLEAN] BY <1>2 DEF Dial, TypeOK
  <2>5. Meets(h, copy) \/ UNCHANGED accepted BY <1>2 DEF Dial
  <2>6. accepted' \in [Hosts -> SUBSET Keys] BY <2>5, MeetsTyped
  <2>. QED BY <1>2, <2>3, <2>4, <2>6 DEF Dial, TypeOK
<1>3. CASE PatchProbe(h)
  <2>1. probe[h].new \in HostObjects /\ probe[h].copy \in HostObjects
    BY <1>3, Held DEF PatchProbe
  <2>2. Merged(h) \in HostObjects BY <1>0, <2>1 DEF Merged, HostObjects
  <2>3. host' \in [Hosts -> HostObjects] BY <1>3, <2>2 DEF PatchProbe, TypeOK
  <2>4. probe' \in [Hosts -> Probes] BY <1>0, <1>3, Holds DEF PatchProbe
  <2>5. fresh' \in [Hosts -> SUBSET {"cache", "visit", "trust"}]
    BY <1>3 DEF PatchProbe, TypeOK
  <2>6. timer' \subseteq Hosts BY <1>0, <1>3 DEF PatchProbe, Requeue
  <2>. QED BY <1>3, <2>3, <2>4, <2>5, <2>6 DEF PatchProbe, TypeOK
<1>4. CASE PatchProbeFails(h)
  <2>1. probe' \in [Hosts -> Probes] BY <1>0, <1>4, Holds DEF PatchProbeFails
  <2>2. timer' \subseteq Hosts BY <1>0, <1>4 DEF PatchProbeFails, Requeue
  <2>3. accepted' \in [Hosts -> SUBSET Keys] BY <1>4, MeetsTyped DEF PatchProbeFails
  <2>. QED BY <1>4, <2>1, <2>2, <2>3 DEF PatchProbeFails, TypeOK
<1>5. CASE TimerFires(h) BY <1>5 DEF TimerFires, TypeOK
<1>6. CASE SyncHost(h) BY <1>6 DEF SyncHost, TypeOK
<1>. QED BY <1>1, <1>2, <1>3, <1>4, <1>5, <1>6 DEF HostReconciler

\* HostMachineReconciler.
LEMMA VisitsTyped ==
    ASSUME TypeOK, NEW h \in Hosts, HostMachineReconciler(h)
    PROVE  TypeOK' /\ UNCHANGED <<policy, probe>>
<1>. USE DEF hardware, machine, controller
<1>0. /\ cache[h] \in HostObjects /\ host[h] \in HostObjects /\ visit \in [Hosts -> Visits]
      /\ host \in [Hosts -> HostObjects] /\ key[h] \in Keys
  BY DEF TypeOK
<1>1. CASE Claim(h)
  <2>. DEFINE n == [host[h] EXCEPT !.phase = "Claimed", !.claimed = TRUE]
  <2>1. n \in HostObjects BY <1>0, HostEdits DEF Phases
  <2>2. host' = [host EXCEPT ![h] = n] /\ host'[h] = n BY <1>0, <1>1 DEF Claim, Store
  <2>3. host' \in [Hosts -> HostObjects] BY <1>0, <2>1, <2>2
  <2>4. visit' \in [Hosts -> Visits] BY <1>0, <1>1, <2>1, <2>2, Holds DEF Claim
  <2>5. fresh' \in [Hosts -> SUBSET {"cache", "visit", "trust"}]
    BY <1>1 DEF Claim, Store, TypeOK
  <2>. QED BY <1>1, <2>3, <2>4, <2>5 DEF Claim, TypeOK
<1>2. CASE BeginVisit(h)
  <2>1. visit' \in [Hosts -> Visits] BY <1>0, <1>2, Holds DEF BeginVisit
  <2>2. fresh' \in [Hosts -> SUBSET {"cache", "visit", "trust"}]
    BY <1>2 DEF BeginVisit, TypeOK
  <2>. QED BY <1>2, <2>1, <2>2 DEF BeginVisit, TypeOK
<1>3. CASE Connect(h)
  <2>. DEFINE copy == visit[h].copy
  <2>1. copy \in HostObjects BY <1>3, Held DEF Connect
  <2>2. Pinned(h, copy) \in HostObjects BY <2>1, PinnedTyped
  <2>3. /\ [at |-> "mark", copy |-> Pinned(h, copy)] \in Visits /\ NoVisit \in Visits
    BY <2>2, Holds
  <2>4. visit' \in [Hosts -> Visits] BY <1>0, <1>3, <2>3 DEF Connect
  <2>5. accepted' \in [Hosts -> SUBSET Keys] BY <1>3, MeetsTyped DEF Connect
  <2>6. wake' \subseteq Hosts BY <1>3 DEF Connect, TypeOK
  <2>. QED BY <1>3, <2>4, <2>5, <2>6 DEF Connect, TypeOK
<1>4. CASE ConnectToReset(h)
  <2>. DEFINE copy == visit[h].copy
  <2>1. copy \in HostObjects BY <1>4, Held DEF ConnectToReset
  <2>2. Pinned(h, copy) \in HostObjects BY <2>1, PinnedTyped
  <2>3. visit' \in [Hosts -> Visits] BY <1>0, <1>4, <2>1, <2>2, Holds DEF ConnectToReset
  <2>4. accepted' \in [Hosts -> SUBSET Keys] BY <1>4, MeetsTyped DEF ConnectToReset
  <2>. QED BY <1>4, <2>3, <2>4 DEF ConnectToReset, TypeOK
<1>5. CASE MarkHostProvisioned(h)
  <2>. DEFINE copy == visit[h].copy
              n == [copy EXCEPT !.phase = "Provisioned"]
  <2>1. copy \in HostObjects BY <1>5, Held DEF MarkHostProvisioned
  <2>2. n \in HostObjects BY <2>1, HostEdits DEF Phases
  <2>3. host' \in [Hosts -> HostObjects] BY <1>0, <1>5, <2>2 DEF MarkHostProvisioned, Store
  <2>4. visit' \in [Hosts -> Visits] BY <1>0, <1>5, Holds DEF MarkHostProvisioned
  <2>5. fresh' \in [Hosts -> SUBSET {"cache", "visit", "trust"}]
    BY <1>5 DEF MarkHostProvisioned, Store, TypeOK
  <2>6. wake' \subseteq Hosts BY <1>5 DEF MarkHostProvisioned, TypeOK
  <2>. QED BY <1>5, <2>3, <2>4, <2>5, <2>6 DEF MarkHostProvisioned, TypeOK
<1>6. CASE ReleaseHost(h)
  <2>. DEFINE copy == visit[h].copy
              n == [copy EXCEPT !.phase = "Pending", !.claimed = FALSE]
  <2>1. copy \in HostObjects BY <1>6, Held DEF ReleaseHost
  <2>2. n \in HostObjects BY <2>1, HostEdits DEF Phases
  <2>3. host' \in [Hosts -> HostObjects] BY <1>0, <1>6, <2>2 DEF ReleaseHost, Store
  <2>4. visit' \in [Hosts -> Visits] BY <1>0, <1>6, Holds DEF ReleaseHost
  <2>5. fresh' \in [Hosts -> SUBSET {"cache", "visit", "trust"}]
    BY <1>6 DEF ReleaseHost, Store, TypeOK
  <2>6. holder' \in [Hosts -> {"none", "live", "deleting"}] /\ wake' \subseteq Hosts
    BY <1>6 DEF ReleaseHost, TypeOK
  <2>. QED BY <1>6, <2>3, <2>4, <2>5, <2>6 DEF ReleaseHost, TypeOK
<1>7. CASE MachineEvent(h) BY <1>7 DEF MachineEvent, TypeOK
<1>8. CASE DeleteMachine(h) BY <1>8 DEF DeleteMachine, TypeOK
<1>. QED BY <1>1, <1>2, <1>3, <1>4, <1>5, <1>6, <1>7, <1>8 DEF HostMachineReconciler

\* kg inventory trust, the operator and the machines.
LEMMA OperatorTyped ==
    ASSUME TypeOK, NEW h \in Hosts, Operator(h)
    PROVE  TypeOK' /\ UNCHANGED <<policy, probe>>
<1>. USE DEF hardware, machine, controller
<1>0. /\ host[h] \in HostObjects /\ host \in [Hosts -> HostObjects] /\ key[h] \in Keys
      /\ NoKey \in Keys \cup {NoKey}
  BY DEF TypeOK
<1>1. CASE BeginTrust(h) BY <1>1 DEF BeginTrust, TypeOK
<1>2. CASE GetToTrust(h) BY <1>2 DEF GetToTrust, TypeOK
<1>3. CASE ForgetPin(h)
  <2>1. [host[h] EXCEPT !.pin = NoKey] \in HostObjects BY <1>0 DEF HostObjects
  <2>2. host' \in [Hosts -> HostObjects] BY <1>0, <1>3, <2>1 DEF ForgetPin, Store
  <2>3. fresh' \in [Hosts -> SUBSET {"cache", "visit", "trust"}]
    BY <1>3 DEF ForgetPin, Store, TypeOK
  <2>4. trust' \in [Hosts -> {"idle", "get", "update"}] BY <1>3 DEF ForgetPin, TypeOK
  <2>5. accepted' \in [Hosts -> SUBSET Keys] BY <1>3 DEF ForgetPin, TypeOK
  <2>. QED BY <1>3, <2>2, <2>3, <2>4, <2>5 DEF ForgetPin, TypeOK
<1>4. CASE EditPublicKey(h)
  <2>1. PICK k \in 1 .. key[h] : host' = [host EXCEPT ![h].publicKey = k]
    BY <1>4 DEF EditPublicKey
  <2>2. k \in Keys BY <1>0, KeyAssumption DEF Keys
  <2>3. [host[h] EXCEPT !.publicKey = k] \in HostObjects BY <1>0, <2>2 DEF HostObjects
  <2>4. host' = [host EXCEPT ![h] = [host[h] EXCEPT !.publicKey = k]] BY <1>0, <2>1
  <2>5. host' \in [Hosts -> HostObjects] BY <1>0, <2>3, <2>4
  <2>6. fresh' \in [Hosts -> SUBSET {"cache", "visit", "trust"}]
    BY <1>4 DEF EditPublicKey, TypeOK
  <2>. QED BY <1>4, <2>5, <2>6 DEF EditPublicKey, TypeOK
<1>5. CASE Reinstall(h)
  <2>1. key[h] + 1 \in Keys BY <1>0, <1>5, KeyAssumption DEF Keys, Reinstall
  <2>. QED BY <1>5, <2>1 DEF Reinstall, TypeOK
<1>6. CASE Switch(h) BY <1>6 DEF Switch, TypeOK
<1>. QED BY <1>1, <1>2, <1>3, <1>4, <1>5, <1>6 DEF Operator

\* Every step.
LEMMA TypeStep == TypeOK /\ [Next]_vars => TypeOK'
<1>. SUFFICES ASSUME TypeOK, [Next]_vars PROVE TypeOK'
  OBVIOUS
<1>1. CASE \E h \in Hosts : HostReconciler(h) BY <1>1, ReconcilerTyped
<1>2. CASE \E h \in Hosts : HostMachineReconciler(h) \/ Operator(h)
  BY <1>2, VisitsTyped, OperatorTyped
<1>3. CASE Restart
  <2>1. probe' \in [Hosts -> Probes] /\ visit' \in [Hosts -> Visits]
    BY <1>3, Holds DEF Restart
  <2>2. accepted' \in [Hosts -> SUBSET Keys] BY <1>3 DEF Restart, LosePins, TypeOK
  <2>. QED BY <1>3, <2>1, <2>2 DEF Restart, TypeOK, hardware
<1>4. CASE UNCHANGED vars BY <1>4 DEF vars, TypeOK
<1>. QED BY <1>1, <1>2, <1>3, <1>4 DEF Next

\* An inventory that has just been applied.
LEMMA TypeInit == Init => TypeOK
<1>. SUFFICES ASSUME Init PROVE TypeOK
  OBVIOUS
<1>1. 1 \in Keys BY KeyAssumption DEF Keys
<1>2. host \in [Hosts -> HostObjects]
  BY <1>1 DEF Init, HostObjects, Phases
<1>. QED BY <1>1, <1>2, Holds DEF Init, TypeOK

\* Hosts, their copies, the reconciles and the keys are well typed, whatever the faults.
THEOREM TypeCorrect == Spec => []TypeOK
BY TypeInit, TypeStep, PTL DEF Spec

-----------------------------------------------------------------------------
(* One key per trust.                                                      *)

\* Reconciles read what is on the API server, and the operator trusts Hosts that a
\* probe has refused and no machine holds.
Careful == "lag" \notin Faults /\ "trustAny" \notin Faults

\* Nothing of Host h changes that the invariant is about.
Same(h) ==
    /\ policy'[h] = policy[h] /\ host'[h] = host[h] /\ cache'[h] = cache[h]
    /\ fresh'[h] = fresh[h] /\ key'[h] = key[h] /\ probe'[h] = probe[h]
    /\ visit'[h] = visit[h] /\ holder'[h] = holder[h] /\ trust'[h] = trust[h]
    /\ accepted'[h] = accepted[h]

\* Then it is kept.
LEMMA Untouched == ASSUME NEW h \in Hosts, Trusting(h), Same(h) PROVE Trusting(h)'
BY DEF Trusting, CopyInv, PinInv, ProbeInv, UsedInv, PinInMemory, Same

\* A step for one Host leaves the others alone.
LEMMA OthersUntouched ==
    ASSUME TypeOK, NEW g \in Hosts, NEW h \in Hosts, g # h,
           HostReconciler(g) \/ HostMachineReconciler(g) \/ Operator(g)
    PROVE  Same(h)
<1>. USE DEF TypeOK, Same, hardware, machine, controller
<1>1. CASE BeginProbe(g) BY <1>1 DEF BeginProbe
<1>2. CASE Dial(g)
  <2>1. UNCHANGED <<policy, key, host, cache, fresh, visit, holder, trust>>
    BY <1>2 DEF Dial
  <2>2. probe'[h] = probe[h] BY <1>2, DialFinds
  <2>3. accepted'[h] = accepted[h] BY <1>2 DEF Dial, Meets
  <2>. QED BY <2>1, <2>2, <2>3
<1>3. CASE PatchProbe(g) BY <1>3 DEF PatchProbe
<1>4. CASE PatchProbeFails(g) \/ TimerFires(g) \/ SyncHost(g)
  BY <1>4 DEF PatchProbeFails, TimerFires, SyncHost, LosePins
<1>5. CASE Claim(g) BY <1>5 DEF Claim, Store
<1>6. CASE BeginVisit(g) BY <1>6 DEF BeginVisit
<1>7. CASE Connect(g)
  <2>1. accepted'[h] = accepted[h] /\ visit'[h] = visit[h] BY <1>7 DEF Connect, Meets
  <2>. QED BY <1>7, <2>1 DEF Connect
<1>8. CASE ConnectToReset(g)
  <2>1. accepted'[h] = accepted[h] /\ visit'[h] = visit[h] BY <1>8 DEF ConnectToReset, Meets
  <2>. QED BY <1>8, <2>1 DEF ConnectToReset
<1>9. CASE MarkHostProvisioned(g)
  <2>1. host'[h] = host[h] /\ fresh'[h] = fresh[h] BY <1>9 DEF MarkHostProvisioned, Store
  <2>. QED BY <1>9, <2>1 DEF MarkHostProvisioned
<1>10. CASE ReleaseHost(g)
  <2>1. host'[h] = host[h] /\ fresh'[h] = fresh[h] /\ holder'[h] = holder[h]
    BY <1>10 DEF ReleaseHost, Store
  <2>. QED BY <1>10, <2>1 DEF ReleaseHost
<1>11. CASE MachineEvent(g) \/ DeleteMachine(g) BY <1>11 DEF MachineEvent, DeleteMachine
<1>12. CASE BeginTrust(g) \/ GetToTrust(g) BY <1>12 DEF BeginTrust, GetToTrust
<1>13. CASE ForgetPin(g)
  <2>1. /\ host'[h] = host[h] /\ fresh'[h] = fresh[h] /\ trust'[h] = trust[h]
        /\ accepted'[h] = accepted[h]
    BY <1>13 DEF ForgetPin, Store
  <2>. QED BY <1>13, <2>1 DEF ForgetPin
<1>14. CASE EditPublicKey(g) BY <1>14 DEF EditPublicKey
<1>15. CASE Reinstall(g) \/ Switch(g) BY <1>15 DEF Reinstall, Switch
<1>. QED BY <1>1, <1>2, <1>3, <1>4, <1>5, <1>6, <1>7, <1>8, <1>9, <1>10, <1>11, <1>12, <1>13,
            <1>14, <1>15 DEF HostReconciler, HostMachineReconciler, Operator

\* What is known of a TOFU Host.
Known(h) ==
    /\ TypeOK /\ policy[h] = "TOFU" /\ CopyInv(h) /\ PinInv(h) /\ ProbeInv(h) /\ UsedInv(h)

\* The numbers in it.
LEMMA Numbers ==
    ASSUME TypeOK, NEW h \in Hosts
    PROVE  /\ key[h] \in Nat /\ host[h].pin \in Nat /\ cache[h].pin \in Nat
           /\ probe[h].at # "idle" => probe[h].copy.pin \in Nat
           /\ probe[h].at = "patch" => probe[h].new.pin \in Nat
<1>1. Keys \cup {NoKey} \subseteq Nat BY DEF Keys, NoKey
<1>2. /\ key[h] \in Keys /\ host[h] \in HostObjects /\ cache[h] \in HostObjects BY DEF TypeOK
<1>. QED BY <1>1, <1>2, Held DEF HostObjects

\* A probe begins with the Host as it is.
LEMMA BeginProbeStep ==
    ASSUME Careful, NEW h \in Hosts, Known(h), BeginProbe(h)
    PROVE  CopyInv(h)' /\ PinInv(h)' /\ ProbeInv(h)' /\ UsedInv(h)'
<1>0. TypeOK /\ CopyInv(h) /\ PinInv(h) /\ ProbeInv(h) /\ UsedInv(h) /\ probe \in [Hosts -> Probes]
  BY DEF Known, TypeOK
<1>1. cache[h] = host[h] BY <1>0 DEF BeginProbe, Read, Careful, CopyInv
<1>2. UNCHANGED <<host, cache, fresh, key, visit, holder, trust, accepted>>
  BY DEF BeginProbe, hardware, machine
<1>3. probe'[h] = NoProbe \/ probe'[h] = [at |-> "dial", copy |-> host[h]]
  BY <1>0, <1>1 DEF BeginProbe
<1>4. CopyInv(h)' /\ PinInv(h)' BY <1>0, <1>2 DEF CopyInv, PinInv
<1>5. ProbeInv(h)' BY <1>0, <1>2, <1>3 DEF ProbeInv, PinInv, NoProbe
<1>6. UsedInv(h)'
  <2>1. ~PinInMemory(h) BY DEF BeginProbe, PinInMemory, NoProbe
  <2>2. ~PinInMemory(h)' BY <1>3 DEF PinInMemory, NoProbe
  <2>. QED BY <1>0, <1>2, <2>1, <2>2 DEF UsedInv
<1>. QED BY <1>4, <1>5, <1>6

\* It meets a Host only with the key it has read, or under no pin.
LEMMA DialStep ==
    ASSUME NEW h \in Hosts, Known(h), Dial(h)
    PROVE  CopyInv(h)' /\ PinInv(h)' /\ ProbeInv(h)' /\ UsedInv(h)'
<1>. DEFINE copy == probe[h].copy
<1>0. /\ TypeOK /\ CopyInv(h) /\ PinInv(h) /\ ProbeInv(h) /\ UsedInv(h)
      /\ probe \in [Hosts -> Probes] /\ policy[h] = "TOFU" /\ probe[h].at = "dial"
  BY DEF Known, TypeOK, Dial
<1>1. UNCHANGED <<host, cache, fresh, key, visit, holder, trust>>
  BY DEF Dial, machine
<1>2. copy \in HostObjects BY <1>0, DialFinds
<1>3. PICK new \in HostObjects :
         /\ probe' = [probe EXCEPT ![h] = [at |-> "patch", copy |-> copy, new |-> new]]
         /\ \/ /\ Reaches(h, copy) /\ new.phase \in {"Available", "Unreachable"}
               /\ new.pin = Pinned(h, copy).pin
            \/ /\ ~Reaches(h, copy) /\ new.pin = copy.pin
               /\ new.phase = IF up[h] THEN "Refused" ELSE "Unreachable"
  BY <1>0, DialFinds
<1>4. probe'[h].at = "patch" /\ probe'[h].copy = copy /\ probe'[h].new = new BY <1>0, <1>3
<1>5. Reaches(h, copy) <=> up[h] /\ copy.pin \in {NoKey, key[h]}
  BY <1>0 DEF Reaches, Accepts, KnownPublicKey
<1>6. /\ Pinned(h, copy).pin = IF copy.pin = NoKey THEN key[h] ELSE copy.pin
      /\ Pinned(h, copy).pin # NoKey
  <2>1. Pinned(h, copy).pin \in Keys BY <1>0, <1>2, PinnedKey
  <2>. QED BY <1>0, <1>2, <2>1, PinnedKey DEF Keys, NoKey
<1>7. /\ key[h] \in Nat /\ copy.pin \in Nat /\ host[h].pin \in Nat BY <1>0, Numbers
<1>8. CopyInv(h)' /\ PinInv(h)' BY <1>0, <1>1 DEF CopyInv, PinInv
<1>9. ProbeInv(h)' BY <1>0, <1>1, <1>3, <1>4, <1>5, <1>6, <1>7 DEF ProbeInv, PinInv, NoKey
<1>10. UsedInv(h)'
  <2>1. accepted[h] \subseteq {host[h].pin} \ {NoKey} BY <1>0 DEF UsedInv, PinInMemory
  <2>2. PinInMemory(h)' <=> new.pin # copy.pin /\ host[h].pin = NoKey
    BY <1>1, <1>4 DEF PinInMemory
  <2>3. CASE ~Reaches(h, copy)
    <3>1. accepted' = accepted /\ ~PinInMemory(h)' BY <1>3, <2>2, <2>3 DEF Dial
    <3>. QED BY <1>1, <2>1, <3>1 DEF UsedInv
  <2>4. CASE Reaches(h, copy)
    <3>1. new.pin = Pinned(h, copy).pin BY <1>3, <2>4
    <3>2. accepted'[h] = IF copy.pin \in {NoKey, host[h].pin} THEN accepted[h] \cup {key[h]}
                         ELSE accepted[h]
      BY <1>0, <2>4 DEF Dial, Meets, TypeOK
    <3>3. CASE copy.pin = NoKey
      <4>1. host[h].pin = NoKey /\ new.pin = key[h] /\ new.pin # NoKey
        BY <1>0, <1>6, <3>1, <3>3 DEF ProbeInv
      <4>2. PinInMemory(h)' /\ accepted'[h] \subseteq {new.pin} BY <2>1, <2>2, <3>2, <3>3, <4>1
      <4>. QED BY <1>4, <4>2 DEF UsedInv
    <3>4. CASE copy.pin # NoKey
      <4>1. ~PinInMemory(h)' /\ copy.pin = key[h] BY <1>5, <1>6, <2>2, <2>4, <3>1, <3>4
      <4>2. accepted'[h] \subseteq {host[h].pin} \ {NoKey} BY <2>1, <3>2, <3>4, <4>1
      <4>. QED BY <1>1, <4>1, <4>2 DEF UsedInv
    <3>. QED BY <3>3, <3>4
  <2>. QED BY <2>3, <2>4
<1>. QED BY <1>8, <1>9, <1>10

\* Its patch changes no pin: a first one is stored where there is none.
LEMMA PatchProbeStep ==
    ASSUME NEW h \in Hosts, Known(h), PatchProbe(h)
    PROVE  CopyInv(h)' /\ PinInv(h)' /\ ProbeInv(h)' /\ UsedInv(h)'
<1>. DEFINE copy == probe[h].copy
            new  == probe[h].new
            o    == host[h]
            m    == Merged(h)
<1>0. /\ TypeOK /\ CopyInv(h) /\ PinInv(h) /\ ProbeInv(h) /\ UsedInv(h) /\ o \in HostObjects
      /\ policy[h] = "TOFU" /\ probe[h].at = "patch" /\ copy \in HostObjects /\ new \in HostObjects
  BY Held DEF Known, TypeOK, PatchProbe
<1>1. /\ UNCHANGED <<cache, key, visit, holder, trust, accepted>>
      /\ host'[h] = m /\ probe'[h] = NoProbe
      /\ fresh'[h] = {} \/ (fresh'[h] = fresh[h] /\ m = o)
  BY <1>0 DEF PatchProbe, hardware, machine, TypeOK
<1>2. /\ m.phase = (IF new.phase # copy.phase THEN new.phase ELSE o.phase)
      /\ m.pin = (IF new.pin # copy.pin THEN new.pin ELSE o.pin) /\ m.claimed = o.claimed
  BY <1>0 DEF Merged, HostObjects
<1>3. /\ key[h] \in Nat /\ copy.pin \in Nat /\ o.pin \in Nat /\ new.pin \in Nat BY <1>0, Numbers
<1>4. /\ copy.pin = NoKey => o.pin = NoKey /\ m.pin = new.pin
      /\ copy.pin # NoKey => new.pin = copy.pin /\ m.pin = o.pin
  BY <1>0, <1>2 DEF ProbeInv
<1>5. CopyInv(h)'
  <2>1. visit[h] # NoVisit => o.pin # NoKey BY <1>0 DEF CopyInv, PinInv
  <2>. QED BY <1>0, <1>1, <1>2, <1>4, <2>1 DEF CopyInv
<1>6. PinInv(h)' BY <1>0, <1>1, <1>2, <1>3, <1>4 DEF PinInv, ProbeInv, NoKey
<1>7. UsedInv(h)'
  <2>1. ~PinInMemory(h)' BY <1>1 DEF PinInMemory, NoProbe
  <2>2. CASE PinInMemory(h)
    <3>1. accepted[h] \subseteq {m.pin} \ {NoKey}
      BY <1>0, <1>4, <2>2 DEF UsedInv, PinInMemory
    <3>. QED BY <1>1, <2>1, <3>1 DEF UsedInv
  <2>3. CASE ~PinInMemory(h)
    <3>1. o.pin # NoKey => m.pin = o.pin BY <1>4
    <3>. QED BY <1>0, <1>1, <2>1, <2>3, <3>1 DEF UsedInv
  <2>. QED BY <2>2, <2>3
<1>8. ProbeInv(h)' BY <1>1 DEF ProbeInv, NoProbe
<1>. QED BY <1>5, <1>6, <1>7, <1>8

\* Where only the queues, the timers and the cache change.
LEMMA QueueStep ==
    ASSUME NEW h \in Hosts, Known(h), PatchProbeFails(h) \/ TimerFires(h) \/ SyncHost(h)
    PROVE  CopyInv(h)' /\ PinInv(h)' /\ ProbeInv(h)' /\ UsedInv(h)'
<1>0. TypeOK /\ CopyInv(h) /\ PinInv(h) /\ ProbeInv(h) /\ UsedInv(h)
  BY DEF Known
<1>1. /\ UNCHANGED <<host, key, visit, holder, trust>>
      /\ probe'[h] \in {probe[h], NoProbe}
      /\ \/ cache'[h] = cache[h] /\ fresh'[h] = fresh[h]
         \/ cache'[h] = host[h] /\ fresh'[h] = fresh[h] \cup {"cache"}
  BY <1>0 DEF PatchProbeFails, TimerFires, SyncHost, hardware, machine, TypeOK
<1>2. CopyInv(h)' /\ PinInv(h)' BY <1>0, <1>1 DEF CopyInv, PinInv
<1>3. ProbeInv(h)' BY <1>0, <1>1 DEF ProbeInv, NoProbe
<1>4. UsedInv(h)'
  <2>1. CASE UNCHANGED <<probe, accepted>> BY <1>0, <1>1, <2>1 DEF UsedInv, PinInMemory
  <2>2. CASE PatchProbeFails(h)
    <3>1. /\ probe'[h] = NoProbe
          /\ accepted'[h] = IF PinInMemory(h) THEN {} ELSE accepted[h]
      BY <1>0, <2>2 DEF PatchProbeFails, LosePins, TypeOK
    <3>2. ~PinInMemory(h)' BY <3>1 DEF PinInMemory, NoProbe
    <3>. QED BY <1>0, <1>1, <3>1, <3>2 DEF UsedInv
  <2>. QED BY <2>1, <2>2 DEF TimerFires, SyncHost
<1>. QED BY <1>2, <1>3, <1>4

\* A Host that is claimed has been probed, and has its pin.
LEMMA ClaimStep ==
    ASSUME NEW h \in Hosts, Known(h), Claim(h)
    PROVE  CopyInv(h)' /\ PinInv(h)' /\ ProbeInv(h)' /\ UsedInv(h)'
<1>. DEFINE o == host[h]
            n == [o EXCEPT !.phase = "Claimed", !.claimed = TRUE]
<1>0. /\ TypeOK /\ CopyInv(h) /\ PinInv(h) /\ ProbeInv(h) /\ UsedInv(h) /\ o \in HostObjects
      /\ o = cache[h] /\ o.phase = "Available" /\ ~o.claimed
  BY DEF Known, TypeOK, Claim, CopyInv
<1>1. n # o /\ n.phase = "Claimed" /\ n.claimed /\ n.pin = o.pin BY <1>0 DEF HostObjects
<1>2. /\ UNCHANGED <<cache, key, probe, trust, accepted>>
      /\ host'[h] = n /\ fresh'[h] = {"visit"} /\ holder'[h] = "live"
  BY <1>0, <1>1 DEF Claim, Store, hardware, controller, TypeOK
<1>3. visit'[h].copy = n BY <1>0, <1>2 DEF Claim, TypeOK
<1>4. CopyInv(h)' BY <1>1, <1>2, <1>3 DEF CopyInv
<1>5. PinInv(h)' BY <1>0, <1>1, <1>2 DEF PinInv
<1>6. ProbeInv(h)' BY <1>0, <1>1, <1>2 DEF ProbeInv
<1>7. UsedInv(h)' BY <1>0, <1>1, <1>2 DEF UsedInv, PinInMemory
<1>. QED BY <1>4, <1>5, <1>6, <1>7

\* A machine comes back to its Host.
LEMMA BeginVisitStep ==
    ASSUME Careful, NEW h \in Hosts, Known(h), BeginVisit(h)
    PROVE  CopyInv(h)' /\ PinInv(h)' /\ ProbeInv(h)' /\ UsedInv(h)'
<1>0. /\ TypeOK /\ CopyInv(h) /\ PinInv(h) /\ ProbeInv(h) /\ UsedInv(h)
      /\ "cache" \in fresh[h] /\ cache[h] = host[h] /\ holder[h] # "none"
  BY DEF Known, BeginVisit, Read, Careful, CopyInv
<1>1. /\ UNCHANGED <<host, cache, key, probe, holder, trust, accepted>>
      /\ visit'[h] = [at |-> "dial", copy |-> host[h]]
  BY <1>0 DEF BeginVisit, hardware, controller, TypeOK
<1>2. CopyInv(h)' BY <1>0, <1>1 DEF CopyInv
<1>3. PinInv(h)' /\ ProbeInv(h)' /\ UsedInv(h)'
  BY <1>0, <1>1 DEF PinInv, ProbeInv, UsedInv, PinInMemory
<1>. QED BY <1>2, <1>3

\* It uses the Host only with the key that is pinned.
LEMMA VisitStep ==
    ASSUME NEW h \in Hosts, Known(h), Connect(h) \/ ConnectToReset(h)
    PROVE  CopyInv(h)' /\ PinInv(h)' /\ ProbeInv(h)' /\ UsedInv(h)'
<1>. DEFINE copy == visit[h].copy
<1>0. /\ TypeOK /\ CopyInv(h) /\ PinInv(h) /\ ProbeInv(h) /\ UsedInv(h) /\ policy[h] = "TOFU"
      /\ visit[h] # NoVisit
  BY DEF Known, Connect, ConnectToReset, NoVisit
<1>1. copy.pin = host[h].pin /\ host[h].pin # NoKey /\ holder[h] # "none"
  BY <1>0 DEF CopyInv, PinInv
<1>2. Pinned(h, copy) = copy BY <1>1 DEF Pinned
<1>3. Reaches(h, copy) => key[h] = host[h].pin
  BY <1>0, <1>1 DEF Reaches, Accepts, KnownPublicKey
<1>4. UNCHANGED <<host, cache, fresh, key, probe, holder, trust>>
  BY DEF Connect, ConnectToReset, hardware, controller
<1>5. visit'[h] = NoVisit \/ visit'[h].copy = copy
  BY <1>0, <1>2 DEF Connect, ConnectToReset, TypeOK
<1>6. accepted'[h] = accepted[h] \/ accepted'[h] = accepted[h] \cup {host[h].pin}
  <2>1. CASE Reaches(h, copy)
    BY <1>0, <1>3, <2>1 DEF Connect, ConnectToReset, Meets, TypeOK
  <2>2. CASE ~Reaches(h, copy) BY <2>2 DEF Connect, ConnectToReset
  <2>. QED BY <2>1, <2>2
<1>7. CopyInv(h)' BY <1>0, <1>1, <1>4, <1>5 DEF CopyInv
<1>8. PinInv(h)' /\ ProbeInv(h)' BY <1>0, <1>4 DEF PinInv, ProbeInv
<1>9. UsedInv(h)' BY <1>0, <1>1, <1>4, <1>6 DEF UsedInv, PinInMemory
<1>. QED BY <1>7, <1>8, <1>9

\* It stores the Host with the pin it has.
LEMMA StoreStep ==
    ASSUME NEW h \in Hosts, Known(h), MarkHostProvisioned(h) \/ ReleaseHost(h)
    PROVE  CopyInv(h)' /\ PinInv(h)' /\ ProbeInv(h)' /\ UsedInv(h)'
<1>. DEFINE copy == visit[h].copy
            o    == host[h]
<1>0. /\ TypeOK /\ CopyInv(h) /\ PinInv(h) /\ ProbeInv(h) /\ UsedInv(h) /\ o \in HostObjects
      /\ visit[h] # NoVisit /\ visit'[h] = NoVisit
  BY DEF Known, TypeOK, MarkHostProvisioned, ReleaseHost, NoVisit
<1>1. UNCHANGED <<cache, key, probe, trust, accepted>>
  BY DEF MarkHostProvisioned, ReleaseHost, hardware, controller
<1>2. holder[h] # "none" /\ o.claimed /\ o.pin # NoKey /\ trust[h] = "idle"
  BY <1>0 DEF CopyInv, PinInv
<1>3. /\ host'[h].pin = o.pin /\ host'[h].phase \in {o.phase, "Provisioned", "Pending"}
      /\ host'[h].claimed <=> holder'[h] # "none"
      /\ "cache" \in fresh'[h] => "cache" \in fresh[h] /\ host'[h] = o
  <2>1. CASE UNCHANGED <<host, fresh, holder>> BY <1>0, <1>2, <2>1 DEF CopyInv
  <2>2. CASE /\ "visit" \in fresh[h]
             /\ \/ Store(h, [copy EXCEPT !.phase = "Provisioned"], "visit") /\ holder' = holder
                \/ /\ Store(h, [copy EXCEPT !.phase = "Pending", !.claimed = FALSE], "visit")
                   /\ holder'[h] = "none"
    <3>1. copy = o BY <1>0, <2>2 DEF CopyInv
    <3>2. PICK n : /\ Store(h, n, "visit") /\ n.pin = o.pin /\ n.phase \in {"Provisioned", "Pending"}
                   /\ n.claimed <=> holder'[h] # "none"
      <4>1. LET n == [o EXCEPT !.phase = "Provisioned"]
            IN n.pin = o.pin /\ n.phase = "Provisioned" /\ n.claimed = o.claimed
        BY <1>0 DEF HostObjects
      <4>2. LET n == [o EXCEPT !.phase = "Pending", !.claimed = FALSE]
            IN n.pin = o.pin /\ n.phase = "Pending" /\ ~n.claimed
        BY <1>0 DEF HostObjects
      <4>. QED BY <1>2, <2>2, <3>1, <4>1, <4>2
    <3>3. host'[h] = n /\ fresh'[h] = IF n = o THEN fresh[h] ELSE {"visit"}
      BY <1>0, <3>2 DEF Store, TypeOK
    <3>. QED BY <3>2, <3>3
  <2>3. CASE MarkHostProvisioned(h) BY <2>1, <2>2, <2>3 DEF MarkHostProvisioned
  <2>4. CASE ReleaseHost(h) BY <1>0, <2>1, <2>2, <2>4 DEF ReleaseHost, TypeOK
  <2>. QED BY <2>3, <2>4
<1>4. CopyInv(h)' BY <1>0, <1>1, <1>3 DEF CopyInv
<1>5. PinInv(h)' BY <1>0, <1>1, <1>2, <1>3 DEF PinInv
<1>6. ProbeInv(h)' BY <1>0, <1>1, <1>3 DEF ProbeInv
<1>7. UsedInv(h)' BY <1>0, <1>1, <1>3 DEF UsedInv, PinInMemory
<1>. QED BY <1>4, <1>5, <1>6, <1>7

\* The HostMachine is woken up, or deleted.
LEMMA MachineStep ==
    ASSUME NEW h \in Hosts, Known(h), MachineEvent(h) \/ DeleteMachine(h)
    PROVE  CopyInv(h)' /\ PinInv(h)' /\ ProbeInv(h)' /\ UsedInv(h)'
<1>0. TypeOK /\ CopyInv(h) /\ PinInv(h) /\ ProbeInv(h) /\ UsedInv(h)
  BY DEF Known
<1>1. /\ UNCHANGED <<host, cache, fresh, key, probe, visit, trust, accepted>>
      /\ holder'[h] # "none" <=> holder[h] # "none"
  BY <1>0 DEF MachineEvent, DeleteMachine, hardware, controller, TypeOK
<1>2. CopyInv(h)' BY <1>0, <1>1 DEF CopyInv
<1>3. PinInv(h)' /\ ProbeInv(h)' /\ UsedInv(h)'
  BY <1>0, <1>1 DEF PinInv, ProbeInv, UsedInv, PinInMemory
<1>. QED BY <1>2, <1>3

\* What the operator trusts has been refused: a probe under way knows that, and will
\* not find the Host available under its old pin.
LEMMA BeginTrustStep ==
    ASSUME Careful, NEW h \in Hosts, Known(h), BeginTrust(h)
    PROVE  CopyInv(h)' /\ PinInv(h)' /\ ProbeInv(h)' /\ UsedInv(h)'
<1>0. /\ TypeOK /\ CopyInv(h) /\ PinInv(h) /\ ProbeInv(h) /\ UsedInv(h)
      /\ host[h].phase = "Refused" /\ ~host[h].claimed /\ host[h].pin # NoKey
  BY DEF Known, BeginTrust, Asked, Careful
<1>1. UNCHANGED <<host, cache, fresh, key, probe, visit, holder, accepted>>
  BY DEF BeginTrust, hardware, controller, machine
<1>2. CopyInv(h)' /\ PinInv(h)' /\ UsedInv(h)'
  BY <1>0, <1>1 DEF CopyInv, PinInv, UsedInv, PinInMemory
<1>3. ProbeInv(h)' BY <1>0, <1>1 DEF ProbeInv
<1>. QED BY <1>2, <1>3

\* The rest of the command: what was read is forgotten, with the keys used under it.
LEMMA TrustStep ==
    ASSUME NEW h \in Hosts, Known(h), GetToTrust(h) \/ ForgetPin(h)
    PROVE  CopyInv(h)' /\ PinInv(h)' /\ ProbeInv(h)' /\ UsedInv(h)'
<1>. DEFINE o == host[h]
            n == [o EXCEPT !.pin = NoKey]
<1>0. /\ TypeOK /\ CopyInv(h) /\ PinInv(h) /\ ProbeInv(h) /\ UsedInv(h) /\ o \in HostObjects
      /\ trust[h] # "idle"
  BY DEF Known, TypeOK, GetToTrust, ForgetPin
<1>1. UNCHANGED <<cache, key, probe, visit, holder>>
  BY DEF GetToTrust, ForgetPin, hardware, controller, machine
<1>2. /\ o.pin # NoKey /\ o.pin < key[h] /\ ~o.claimed /\ visit[h] = NoVisit
      /\ o.phase \notin {"Available", "Claimed", "Provisioned"}
  BY <1>0 DEF PinInv, CopyInv
<1>3. /\ n.pin = NoKey /\ n.phase = o.phase /\ n.claimed = o.claimed /\ n # o
  BY <1>0, <1>2 DEF HostObjects
<1>4. key[h] \in Nat BY <1>0, Numbers
<1>5. CASE UNCHANGED <<host, accepted>> /\ fresh'[h] \in {fresh[h], fresh[h] \cup {"trust"}}
  <2>1. CopyInv(h)' BY <1>0, <1>1, <1>5 DEF CopyInv
  <2>2. PinInv(h)' /\ UsedInv(h)' BY <1>0, <1>1, <1>2, <1>5 DEF PinInv, UsedInv, PinInMemory
  <2>3. ProbeInv(h)' BY <1>0, <1>1, <1>5 DEF ProbeInv
  <2>. QED BY <2>1, <2>2, <2>3
<1>6. CASE /\ host'[h] = n /\ fresh'[h] = {"trust"} /\ accepted'[h] = {} /\ trust'[h] = "idle"
  <2>1. CopyInv(h)' BY <1>0, <1>1, <1>2, <1>3, <1>6 DEF CopyInv
  <2>2. PinInv(h)' BY <1>1, <1>2, <1>3, <1>4, <1>6 DEF PinInv, NoKey
  <2>3. ProbeInv(h)' BY <1>0, <1>1, <1>2, <1>3, <1>6 DEF ProbeInv
  <2>4. UsedInv(h)' BY <1>6 DEF UsedInv
  <2>. QED BY <2>1, <2>2, <2>3, <2>4
<1>7. CASE GetToTrust(h) BY <1>0, <1>5, <1>7 DEF GetToTrust, TypeOK
<1>8. CASE ForgetPin(h) BY <1>0, <1>3, <1>5, <1>6, <1>8 DEF ForgetPin, Store, TypeOK
<1>. QED BY <1>7, <1>8

\* A later key only moves away from the pins.
LEMMA OutsideStep ==
    ASSUME NEW h \in Hosts, Known(h), EditPublicKey(h) \/ Reinstall(h) \/ Switch(h)
    PROVE  CopyInv(h)' /\ PinInv(h)' /\ ProbeInv(h)' /\ UsedInv(h)'
<1>0. /\ TypeOK /\ CopyInv(h) /\ PinInv(h) /\ ProbeInv(h) /\ UsedInv(h)
  BY DEF Known
<1>1. ~EditPublicKey(h) BY DEF Known, EditPublicKey
<1>2. /\ UNCHANGED <<host, cache, fresh, probe, visit, holder, trust, accepted>>
      /\ key'[h] \in {key[h], key[h] + 1}
  BY <1>0, <1>1 DEF Reinstall, Switch, controller, machine, TypeOK
<1>3. /\ key[h] \in Nat /\ host[h].pin \in Nat
      /\ probe[h].at # "idle" => probe[h].copy.pin \in Nat
      /\ probe[h].at = "patch" => probe[h].new.pin \in Nat
  BY <1>0, Numbers
<1>4. CopyInv(h)' /\ UsedInv(h)' BY <1>0, <1>2 DEF CopyInv, UsedInv, PinInMemory
<1>5. PinInv(h)' BY <1>0, <1>2, <1>3 DEF PinInv
<1>6. ProbeInv(h)' BY <1>0, <1>2, <1>3 DEF ProbeInv
<1>. QED BY <1>4, <1>5, <1>6

\* A new manager has no reconciles under way and reads the Hosts as they are.
LEMMA RestartStep ==
    ASSUME NEW h \in Hosts, Known(h), Restart
    PROVE  CopyInv(h)' /\ PinInv(h)' /\ ProbeInv(h)' /\ UsedInv(h)'
<1>0. TypeOK /\ CopyInv(h) /\ PinInv(h) /\ ProbeInv(h) /\ UsedInv(h)
  BY DEF Known
<1>1. /\ UNCHANGED <<host, key, holder, trust>> /\ cache' = host
      /\ probe'[h] = NoProbe /\ visit'[h] = NoVisit
      /\ accepted'[h] = IF PinInMemory(h) THEN {} ELSE accepted[h]
  BY DEF Restart, LosePins, hardware
<1>2. CopyInv(h)' BY <1>0, <1>1 DEF CopyInv
<1>3. PinInv(h)' /\ ProbeInv(h)' BY <1>0, <1>1 DEF PinInv, ProbeInv, NoProbe
<1>4. UsedInv(h)'
  <2>1. ~PinInMemory(h)' BY <1>1 DEF PinInMemory, NoProbe
  <2>. QED BY <1>0, <1>1, <2>1 DEF UsedInv
<1>. QED BY <1>2, <1>3, <1>4

\* Initially no Host has a pin, and none has been used.
LEMMA InvInit == Init => Inv
<1>. SUFFICES ASSUME Init PROVE Inv
  OBVIOUS
<1>1. TypeOK BY TypeInit
<1>2. ASSUME NEW h \in Hosts PROVE Trusting(h)
  <2>1. /\ host[h].pin = NoKey /\ host[h].phase = "Pending" /\ ~host[h].claimed
        /\ cache = host /\ key[h] = 1 /\ probe[h].at = "idle" /\ visit[h] = NoVisit
        /\ holder[h] = "none" /\ trust[h] = "idle" /\ accepted[h] = {}
    BY DEF Init, NoProbe
  <2>. QED BY <2>1 DEF Trusting, CopyInv, PinInv, ProbeInv, UsedInv, NoKey
<1>. QED BY <1>1, <1>2 DEF Inv

\* Every step keeps the invariant.
LEMMA InvStep == ASSUME Careful PROVE Inv /\ [Next]_vars => Inv'
<1>. SUFFICES ASSUME Inv, [Next]_vars PROVE Inv'
  OBVIOUS
<1>0. TypeOK /\ (\A h \in Hosts : Trusting(h)) /\ TypeOK'
  BY TypeStep DEF Inv
<1>1. \A h \in Hosts : Trusting(h)'
  <2>. SUFFICES ASSUME NEW h \in Hosts, ~Same(h), policy'[h] = "TOFU" PROVE Trusting(h)'
    BY <1>0, Untouched DEF Trusting
  <2>1. policy' = policy
    BY <1>0, VisitsTyped, OperatorTyped
       DEF Next, vars, HostReconciler, BeginProbe, Dial, PatchProbe, PatchProbeFails, TimerFires,
           SyncHost, Restart, hardware
  <2>2. Known(h) BY <1>0, <2>1 DEF Known, Trusting
  <2>3. \/ Restart \/ HostReconciler(h) \/ HostMachineReconciler(h) \/ Operator(h)
    <3>1. ~UNCHANGED vars BY DEF vars, Same
    <3>. QED BY <1>0, <3>1, OthersUntouched DEF Next
  <2>4. CopyInv(h)' /\ PinInv(h)' /\ ProbeInv(h)' /\ UsedInv(h)'
    <3>1. CASE HostReconciler(h)
      BY <2>2, <3>1, BeginProbeStep, DialStep, PatchProbeStep, QueueStep DEF HostReconciler
    <3>2. CASE HostMachineReconciler(h)
      BY <2>2, <3>2, ClaimStep, BeginVisitStep, VisitStep, StoreStep, MachineStep
         DEF HostMachineReconciler
    <3>3. CASE Operator(h)
      BY <2>2, <3>3, BeginTrustStep, TrustStep, OutsideStep DEF Operator
    <3>. QED BY <2>2, <2>3, <3>1, <3>2, <3>3, RestartStep
  <2>. QED BY <2>4 DEF Trusting
<1>. QED BY <1>0, <1>1 DEF Inv

\* A Host has been reached with no key, or with the one that is pinned or will be.
LEMMA OneKey == Inv => OneKeyPerTrust
<1>. SUFFICES ASSUME Inv, NEW h \in Hosts, policy[h] = "TOFU"
              PROVE  Cardinality(accepted[h]) <= 1
  BY DEF OneKeyPerTrust
<1>1. PICK k : accepted[h] \subseteq {k} BY DEF Inv, Trusting, UsedInv
<1>2. IsFiniteSet({k}) /\ Cardinality({k}) = 1 BY FS_Singleton
<1>. QED BY <1>1, <1>2, FS_Subset

\* Under TOFU the connections to a Host, by probes, by the bootstrap and by the reset, are
\* all accepted with one key, from a first contact on until the operator trusts the Host
\* anew or the pin of that first contact is lost before it is stored: for any number of
\* Hosts and keys, with managers replaced, patches failing and machines switched off at
\* any time, as long as reconciles read an up-to-date cache and the operator trusts Hosts
\* that a probe has refused.
THEOREM OneKeyUntilTrustedAnew == ASSUME Careful PROVE Spec => []OneKeyPerTrust
BY OneKey, InvInit, InvStep, PTL DEF Spec
=============================================================================
