--------------------------- MODULE HostPoolProofs ---------------------------
(* Proofs about HostPool, for every set of Hosts, Machines and Faults.     *)
EXTENDS HostPool, TLAPS

\* The first Host of a non-empty set of candidates is one of them.
LEMMA FirstIsMember ==
    ASSUME NEW S \in SUBSET Hosts, S # {}
    PROVE  First(S) \in S
BY HostsAssumption DEF First

\* The fixed records have their types.
LEMMA RecordTypes ==
    /\ NewHost \in HostObjects /\ GoneHost \in HostObjects
    /\ NoMachine \in MachineObjects /\ GoneMachine \in MachineObjects
    /\ Idle \in WorkStates /\ NotProbing \in ProbeStates /\ CleanDisk \in DiskStates
BY DEF NewHost, GoneHost, NoMachine, GoneMachine, Idle, NotProbing, CleanDisk,
       HostObjects, MachineObjects, WorkStates, ProbeStates, DiskStates,
       Phases, Steps, MachineOrNone, HostOrNone, ResetStates

-----------------------------------------------------------------------------

\* Writing a well-typed object keeps the objects and the cache well-typed.
LEMMA StoreHostTyped ==
    ASSUME TypeOK, NEW h \in Hosts, NEW r \in HostObjects, StoreHost(h, r)
    PROVE  host' \in [Hosts -> HostObjects] /\ hostCache' \in [Hosts -> HostObjects]
BY DEF TypeOK, StoreHost

\* Writing a well-typed HostMachine keeps objects and cache well-typed.
LEMMA StoreMachineTyped ==
    ASSUME TypeOK, NEW m \in Machines, NEW r \in MachineObjects, StoreMachine(m, r)
    PROVE  /\ machine' \in [Machines -> MachineObjects]
           /\ machineCache' \in [Machines -> MachineObjects]
BY DEF TypeOK, StoreMachine

\* Marking the copies of a Host out of date keeps fresh well-typed.
LEMMA OutdatedTyped ==
    ASSUME TypeOK, NEW h \in Hosts
    PROVE  Outdated(h) \in [Readers -> SUBSET Hosts]
BY DEF TypeOK, Outdated

\* So does reading Hosts from the cache.
LEMMA ReadTyped ==
    ASSUME TypeOK, NEW m \in Machines, NEW S \in SUBSET Hosts, Read(m, S)
    PROVE  fresh' \in [Readers -> SUBSET Hosts]
BY DEF TypeOK, Read, Readers

\* An Update that carries a version keeps everything it writes well-typed.
LEMMA UpdateTyped ==
    ASSUME TypeOK, NEW m \in Machines, NEW h \in Hosts, NEW r \in HostObjects,
           NEW keep \in SUBSET Hosts, Update(m, h, r, keep)
    PROVE  /\ host' \in [Hosts -> HostObjects] /\ hostCache' \in [Hosts -> HostObjects]
           /\ fresh' \in [Readers -> SUBSET Hosts]
<1>1. StoreHost(h, r) BY DEF Update
<1>2. Outdated(h) \in [Readers -> SUBSET Hosts] BY OutdatedTyped
<1>3. fresh' \in [Readers -> SUBSET Hosts] BY <1>2 DEF Update, TypeOK, Readers
<1>. QED BY <1>1, <1>3, StoreHostTyped

\* Returning from a reconcile, or going on with it, keeps its record in shape.
Shaped(t) ==
    /\ t.pc = "label" => t.todo # {}
    /\ t.pc \in {"record", "boot", "mark", "reset", "unlabel", "unclaim"} => t.host \in Hosts

\* A reconcile that goes on in a shaped record keeps WorkShape.
LEMMA BecomeShaped ==
    ASSUME TypeOK, WorkShape, NEW m \in Machines, NEW t \in WorkStates, Shaped(t),
           Become(m, t)
    PROVE  work' \in [Machines -> WorkStates] /\ WorkShape'
BY DEF TypeOK, WorkShape, Shaped, Become

\* So does one that returns, to the deferred patch or to nothing.
LEMMA ReturnShaped ==
    ASSUME TypeOK, WorkShape, NEW m \in Machines, NEW t \in WorkStates, Return(m, t)
    PROVE  work' \in [Machines -> WorkStates] /\ WorkShape'
<1>. DEFINE u == IF t.seen = t.new THEN Idle
                 ELSE [Idle EXCEPT !.pc = "patchMeta", !.seen = t.seen, !.new = t.new]
<1>1. u \in WorkStates /\ Shaped(u)
  BY RecordTypes DEF WorkStates, Idle, Steps, Shaped
<1>2. Become(m, u) BY DEF Return, Become
<1>. QED BY <1>1, <1>2, BecomeShaped

\* The copy a reconcile starts from.
LEMMA BeginTyped ==
    ASSUME TypeOK, NEW m \in Machines
    PROVE  /\ machineCache[m] \in MachineObjects
           /\ Begin(m) \in WorkStates
           /\ Begin(m).todo = {} /\ Begin(m).host = None
           /\ Begin(m).new \in MachineObjects
<1>1. machineCache[m] \in MachineObjects BY DEF TypeOK
<1>. DEFINE n == [machineCache[m] EXCEPT !.fin = TRUE]
<1>2. n \in MachineObjects BY <1>1 DEF MachineObjects
<1>3. Begin(m) = [Idle EXCEPT !.seen = machineCache[m], !.new = n] BY DEF Begin
<1>4. Idle \in WorkStates /\ Idle.todo = {} /\ Idle.host = None
  BY RecordTypes DEF Idle
<1>. HIDE DEF n
<1>. QED BY <1>1, <1>2, <1>3, <1>4 DEF WorkStates

\* The edits the actions make to a reconcile's record keep its type.
LEMMA EditWork ==
    ASSUME NEW t \in WorkStates, NEW pc \in Steps, NEW h \in HostOrNone
    PROVE  /\ [t EXCEPT !.pc = pc] \in WorkStates
           /\ [t EXCEPT !.pc = pc, !.host = h] \in WorkStates
           /\ [t EXCEPT !.pc = pc, !.host = h, !.todo = {}] \in WorkStates
           /\ [t EXCEPT !.pc = pc, !.new.ref = h] \in WorkStates
           /\ [t EXCEPT !.new.ref = h] \in WorkStates
           /\ [t EXCEPT !.pc = pc, !.host = h, !.new.ref = h] \in WorkStates
           /\ [t EXCEPT !.new.ref = h, !.new.fin = FALSE] \in WorkStates
           /\ [t EXCEPT !.new.provisioned = TRUE, !.pc = pc] \in WorkStates
BY DEF WorkStates, MachineObjects

\* The edits the actions make to a Host keep its type.
LEMMA EditHost ==
    ASSUME TypeOK, NEW h \in Hosts, NEW m \in MachineOrNone, NEW p \in Phases,
           NEW c \in {"none", "clean", "unverified"}, NEW b \in BOOLEAN
    PROVE  /\ host[h] \in HostObjects
           /\ [host[h] EXCEPT !.label = m] \in HostObjects
           /\ [host[h] EXCEPT !.claim = m, !.phase = p] \in HostObjects
           /\ [host[h] EXCEPT !.phase = p] \in HostObjects
           /\ [host[h] EXCEPT !.claim = m, !.phase = p, !.reset = c] \in HostObjects
           /\ [host[h] EXCEPT !.claim = m, !.phase = p, !.waits = FALSE, !.reset = c] \in HostObjects
           /\ [host[h] EXCEPT !.fin = b] \in HostObjects
           /\ [host[h] EXCEPT !.deleting = b] \in HostObjects
           /\ [host[h] EXCEPT !.unhealthy = b] \in HostObjects
<1>1. host[h] \in HostObjects BY DEF TypeOK
<1>. QED BY <1>1 DEF HostObjects, ResetStates

\* What no patch of a Host's status touches.
SameHolder(r, q) ==
    /\ r.there = q.there /\ r.deleting = q.deleting
    /\ r.label = q.label /\ r.claim = q.claim

\* Replacing the conditions keeps the type and everything but the conditions.
LEMMA ConditionsReplaced ==
    ASSUME NEW r \in HostObjects, NEW p, p.reset \in ResetStates, NEW w \in BOOLEAN
    PROVE  /\ ReplaceConditions(r, p, w) \in HostObjects
           /\ SameHolder(ReplaceConditions(r, p, w), r)
           /\ ReplaceConditions(r, p, w).phase = r.phase
           /\ ReplaceConditions(r, p, w).reset = p.reset
BY DEF ReplaceConditions, HostObjects, SameHolder

\* The deferred patch of a Host writes the phase or leaves it, and puts back the Reset
\* condition of the copy it was computed from or leaves it.
LEMMA HostPatched ==
    ASSUME TypeOK, NEW h \in Hosts, NEW p, p.reset \in ResetStates, NEW v \in Phases,
           NEW changed \in BOOLEAN, PatchHost(h, p, v, changed)
    PROVE  \E r \in HostObjects :
              /\ StoreHost(h, r) /\ fresh' = Outdated(h) /\ SameHolder(r, host[h])
              /\ r.reset \in {host[h].reset, p.reset} /\ r.phase \in {host[h].phase, v}
<1>0. host[h] \in HostObjects BY DEF TypeOK
<1>. DEFINE r == [host[h] EXCEPT !.phase = IF v = p.phase THEN @ ELSE v]
            q == ReplaceConditions(r, p, FALSE)
<1>1. StoreHost(h, IF changed THEN q ELSE r) /\ fresh' = Outdated(h) BY DEF PatchHost
<1>2. /\ r \in HostObjects /\ SameHolder(r, host[h])
      /\ r.phase \in {host[h].phase, v} /\ r.reset = host[h].reset
  BY <1>0 DEF HostObjects, SameHolder
<1>. HIDE DEF r
<1>3. q \in HostObjects /\ SameHolder(q, r) /\ q.phase = r.phase /\ q.reset = p.reset
  BY <1>2, ConditionsReplaced
<1>4. SameHolder(q, host[h]) BY <1>2, <1>3 DEF SameHolder
<1>. HIDE DEF q
<1>5. CASE changed BY <1>1, <1>2, <1>3, <1>4, <1>5
<1>6. CASE ~changed BY <1>1, <1>2, <1>6
<1>. QED BY <1>5, <1>6

\* HostReconciler's patch of a status writes nothing, or a phase and conditions, of which
\* Reset stays or becomes the one the reconcile read; a phase Available comes from a probe
\* that read no label.
LEMMA StatusPatch ==
    ASSUME TypeOK, NEW h \in Hosts, PatchesStatus(h)
    PROVE  /\ UNCHANGED <<machine, machineCache, work, disk>>
           /\ probe' \in {probe, [probe EXCEPT ![h] = NotProbing]}
           /\ \/ UNCHANGED <<host, hostCache, fresh>>
              \/ \E r \in HostObjects :
                    /\ host[h].there /\ StoreHost(h, r) /\ fresh' = Outdated(h)
                    /\ SameHolder(r, host[h])
                    /\ r.reset \in {host[h].reset, PatchedFrom(h).reset}
                    /\ \/ r.phase = host[h].phase \/ r.phase # "Available"
                       \/ probe[h].pc = "probe" /\ probe[h].label = None
<1>0. /\ host[h] \in HostObjects /\ hostCache[h].reset \in ResetStates
      /\ probe[h].reset \in ResetStates
  BY DEF TypeOK, HostObjects, ProbeStates
<1>1. CASE EndProbe(h)
  <2>1. /\ probe[h].pc = "probe" /\ UNCHANGED <<machine, machineCache, work, disk>>
        /\ probe' = [probe EXCEPT ![h] = NotProbing]
        /\ \/ UNCHANGED <<host, hostCache, fresh>>
           \/ /\ host[h].there
              /\ \E up \in BOOLEAN, changed \in BOOLEAN :
                    PatchHost(h, probe[h], Verdict(probe[h], up), changed)
    BY <1>1 DEF EndProbe
  <2>2. PatchedFrom(h) = probe[h] BY <2>1 DEF PatchedFrom
  <2>3. ASSUME NEW up \in BOOLEAN, NEW changed \in BOOLEAN, host[h].there,
               PatchHost(h, probe[h], Verdict(probe[h], up), changed)
        PROVE  \E r \in HostObjects :
                    /\ host[h].there /\ StoreHost(h, r) /\ fresh' = Outdated(h)
                    /\ SameHolder(r, host[h])
                    /\ r.reset \in {host[h].reset, PatchedFrom(h).reset}
                    /\ \/ r.phase = host[h].phase \/ r.phase # "Available"
                       \/ probe[h].pc = "probe" /\ probe[h].label = None
    <3>. DEFINE v == Verdict(probe[h], up)
    <3>1. v \in Phases /\ (v = "Available" => probe[h].label = None) BY DEF Verdict, Phases
    <3>. HIDE DEF v
    <3>2. PatchHost(h, probe[h], v, changed) BY <2>3 DEF v
    <3>3. PICK r \in HostObjects :
              /\ StoreHost(h, r) /\ fresh' = Outdated(h) /\ SameHolder(r, host[h])
              /\ r.reset \in {host[h].reset, probe[h].reset} /\ r.phase \in {host[h].phase, v}
      BY <1>0, <3>1, <3>2, HostPatched
    <3>. QED BY <2>1, <2>2, <2>3, <3>1, <3>3
  <2>. QED BY <2>1, <2>3
<1>2. CASE MarkUnreachable(h)
  <2>1. /\ UNCHANGED <<machine, machineCache, work, probe, disk>>
        /\ probe[h].pc = "idle" /\ host[h].there
    BY <1>2 DEF MarkUnreachable
  <2>2. PICK changed \in BOOLEAN : PatchHost(h, hostCache[h], "Unreachable", changed)
    BY <1>2 DEF MarkUnreachable
  <2>3. PatchedFrom(h) = hostCache[h] BY <2>1 DEF PatchedFrom
  <2>4. "Unreachable" \in Phases BY DEF Phases
  <2>5. PICK r \in HostObjects :
            /\ StoreHost(h, r) /\ fresh' = Outdated(h) /\ SameHolder(r, host[h])
            /\ r.reset \in {host[h].reset, hostCache[h].reset}
            /\ r.phase \in {host[h].phase, "Unreachable"}
    BY <1>0, <2>2, <2>4, HostPatched
  <2>. QED BY <2>1, <2>3, <2>5
<1>3. CASE AnnounceWait(h)
  <2>. DEFINE q == ReplaceConditions(host[h], hostCache[h], TRUE)
  <2>1. /\ q \in HostObjects /\ SameHolder(q, host[h]) /\ q.phase = host[h].phase
        /\ q.reset = hostCache[h].reset
    BY <1>0, ConditionsReplaced
  <2>2. /\ UNCHANGED <<machine, machineCache, work, probe, disk>>
        /\ probe[h].pc = "idle" /\ host[h].there /\ StoreHost(h, q) /\ fresh' = Outdated(h)
    BY <1>3 DEF AnnounceWait
  <2>3. PatchedFrom(h) = hostCache[h] BY <2>2 DEF PatchedFrom
  <2>. HIDE DEF q
  <2>. QED BY <2>1, <2>2, <2>3
<1>. QED BY <1>1, <1>2, <1>3 DEF PatchesStatus

-----------------------------------------------------------------------------

\* The steps of HostMachineReconciler that claim a Host keep the types.
LEMMA ClaimStepsTyped ==
    ASSUME TypeOK, WorkShape, NEW m \in Machines,
           \/ WaitForDependency(m) \/ UseHostRef(m) \/ RecoverClaim(m)
           \/ RecoverLabel(m) \/ ChooseHost(m) \/ LabelHost(m) \/ RecordClaim(m)
    PROVE  TypeOK' /\ WorkShape'
<1>. DEFINE Free == UNCHANGED <<host, machine, hostCache, machineCache, probe, disk>>
            Goal == TypeOK' /\ WorkShape'
            c    == machineCache[m]
<1>b. c \in MachineObjects /\ Begin(m) \in WorkStates BY BeginTyped
<1>f. FreeFor(m) \in SUBSET Hosts BY SelectorAssumption DEF FreeFor
<1>s. Steps = {"idle", "label", "record", "boot", "mark", "reset", "unlabel", "unclaim",
               "patchMeta", "patchStatus"}
  BY DEF Steps
<1>g. ASSUME Free, NEW S \in SUBSET Hosts, Read(m, S),
             work' \in [Machines -> WorkStates], WorkShape'
      PROVE  Goal
  BY <1>g, ReadTyped DEF TypeOK
<1>1. CASE WaitForDependency(m)
  BY <1>1, <1>b, <1>g, ReturnShaped DEF WaitForDependency, Forget
<1>2. CASE UseHostRef(m)
  <2>. DEFINE h == c.ref
  <2>0. Free /\ h \in Hosts
    BY <1>2, <1>b DEF UseHostRef, MachineObjects, HostOrNone
  <2>1. CASE /\ Become(m, [Begin(m) EXCEPT !.pc = "boot", !.host = h])
             /\ Read(m, {h})
    <3>1. [Begin(m) EXCEPT !.pc = "boot", !.host = h] \in WorkStates
      BY <1>b, <1>s, <2>0, EditWork DEF HostOrNone
    <3>2. Shaped([Begin(m) EXCEPT !.pc = "boot", !.host = h])
      BY <1>b, <2>0 DEF Shaped, WorkStates
    <3>. QED BY <2>0, <2>1, <3>1, <3>2, <1>g, BecomeShaped
  <2>2. CASE Return(m, [Begin(m) EXCEPT !.new.ref = None]) /\ Forget(m)
    <3>1. [Begin(m) EXCEPT !.new.ref = None] \in WorkStates
      BY <1>b, <1>s, EditWork DEF HostOrNone
    <3>. QED BY <2>0, <2>2, <3>1, <1>g, ReturnShaped DEF Forget
  <2>. QED BY <1>2, <2>1, <2>2 DEF UseHostRef
<1>3. CASE RecoverClaim(m)
  <2>. DEFINE h == First(ClaimedFor(m))
              t == [Begin(m) EXCEPT !.pc = "boot", !.host = h, !.new.ref = h]
  <2>1. h \in Hosts BY <1>3, FirstIsMember DEF RecoverClaim, ClaimedFor
  <2>2. t \in WorkStates BY <1>b, <1>s, <2>1, EditWork DEF HostOrNone
  <2>3. Shaped(t) BY <1>b, <2>1 DEF Shaped, WorkStates
  <2>. QED BY <1>3, <2>1, <2>2, <2>3, <1>g, BecomeShaped DEF RecoverClaim
<1>4. CASE RecoverLabel(m)
  <2>. DEFINE h == First(LabelledFor(m))
              t == [Begin(m) EXCEPT !.pc = "record", !.host = h]
  <2>1. h \in Hosts BY <1>4, FirstIsMember DEF RecoverLabel, LabelledFor
  <2>2. t \in WorkStates BY <1>b, <1>s, <2>1, EditWork DEF HostOrNone
  <2>3. Shaped(t) BY <1>b, <2>1 DEF Shaped, WorkStates
  <2>. QED BY <1>4, <2>1, <2>2, <2>3, <1>g, BecomeShaped DEF RecoverLabel
<1>5. CASE ChooseHost(m)
  <2>. DEFINE t == [Begin(m) EXCEPT !.pc = "label", !.todo = FreeFor(m)]
  <2>1. t \in WorkStates BY <1>b, <1>f, <1>s DEF WorkStates
  <2>2. CASE FreeFor(m) # {} /\ Become(m, t) /\ Read(m, FreeFor(m))
    <3>1. Shaped(t) BY <2>2, <1>b DEF Shaped, WorkStates
    <3>. QED BY <1>5, <2>1, <2>2, <3>1, <1>f, <1>g, BecomeShaped DEF ChooseHost
  <2>3. CASE Return(m, Begin(m)) /\ Forget(m)
    BY <1>5, <2>3, <1>b, <1>g, ReturnShaped DEF ChooseHost, Forget
  <2>. QED BY <1>5, <2>2, <2>3 DEF ChooseHost
<1>6. CASE LabelHost(m)
  <2>. DEFINE t == work[m]
              h == First(t.todo)
  <2>0. /\ t \in WorkStates /\ t.pc = "label" /\ h \in t.todo /\ h \in Hosts
        /\ UNCHANGED <<machine, machineCache, probe, disk>>
    BY <1>6, FirstIsMember DEF LabelHost, TypeOK, WorkShape, WorkStates
  <2>1. CASE /\ Update(m, h, [host[h] EXCEPT !.label = m], {h})
             /\ Become(m, [t EXCEPT !.pc = "record", !.host = h, !.todo = {}])
    <3>1. [host[h] EXCEPT !.label = m] \in HostObjects
      BY <2>0, EditHost DEF MachineOrNone, Phases
    <3>2. [t EXCEPT !.pc = "record", !.host = h, !.todo = {}] \in WorkStates
      BY <2>0, <1>s, EditWork DEF HostOrNone
    <3>3. Shaped([t EXCEPT !.pc = "record", !.host = h, !.todo = {}])
      BY <2>0 DEF Shaped, WorkStates
    <3>. QED BY <2>0, <2>1, <3>1, <3>2, <3>3, UpdateTyped, BecomeShaped DEF TypeOK
  <2>2. CASE /\ t.todo \ {h} # {}
             /\ Become(m, [t EXCEPT !.todo = t.todo \ {h}])
             /\ UNCHANGED <<fresh, host, hostCache>>
    <3>1. [t EXCEPT !.todo = t.todo \ {h}] \in WorkStates BY <2>0 DEF WorkStates
    <3>2. Shaped([t EXCEPT !.todo = t.todo \ {h}]) BY <2>0, <2>2 DEF Shaped, WorkStates
    <3>. QED BY <2>0, <2>2, <3>1, <3>2, BecomeShaped DEF TypeOK
  <2>3. CASE Return(m, t) /\ Forget(m) /\ UNCHANGED <<host, hostCache>>
    BY <2>0, <2>3, <1>g, ReturnShaped DEF Forget
  <2>. QED BY <1>6, <2>1, <2>2, <2>3 DEF LabelHost
<1>7. CASE RecordClaim(m)
  <2>. DEFINE t == work[m]
              h == t.host
  <2>0. /\ t \in WorkStates /\ h \in Hosts /\ UNCHANGED <<machine, machineCache, probe, disk>>
    BY <1>7 DEF RecordClaim, TypeOK, WorkShape
  <2>1. CASE /\ Update(m, h, [host[h] EXCEPT !.claim = m, !.phase = "Claimed"], {h})
             /\ Become(m, [t EXCEPT !.pc = "boot", !.new.ref = h])
    <3>1. [host[h] EXCEPT !.claim = m, !.phase = "Claimed"] \in HostObjects
      BY <2>0, EditHost DEF MachineOrNone, Phases
    <3>2. [t EXCEPT !.pc = "boot", !.new.ref = h] \in WorkStates
      BY <2>0, <1>s, EditWork DEF HostOrNone
    <3>3. Shaped([t EXCEPT !.pc = "boot", !.new.ref = h])
      BY <2>0 DEF Shaped, WorkStates
    <3>. QED BY <2>0, <2>1, <3>1, <3>2, <3>3, UpdateTyped, BecomeShaped DEF TypeOK
  <2>2. CASE Return(m, t) /\ Forget(m) /\ UNCHANGED <<host, hostCache>>
    BY <2>0, <2>2, <1>g, ReturnShaped DEF Forget
  <2>. QED BY <1>7, <2>1, <2>2 DEF RecordClaim
<1>. QED BY <1>1, <1>2, <1>3, <1>4, <1>5, <1>6, <1>7

\* So do the steps that bootstrap a Host and patch the HostMachine.
LEMMA BootstrapStepsTyped ==
    ASSUME TypeOK, WorkShape, NEW m \in Machines,
           \/ BootstrapUnavailable(m) \/ RunBootstrap(m) \/ MarkProvisioned(m)
           \/ PatchMeta(m) \/ PatchStatus(m) \/ PatchFails(m)
    PROVE  TypeOK' /\ WorkShape'
<1>. DEFINE t == work[m]
            h == t.host
<1>0. t \in WorkStates BY DEF TypeOK
<1>s. {"mark", "patchStatus"} \subseteq Steps BY DEF Steps
<1>i. Idle \in WorkStates /\ Shaped(Idle) BY RecordTypes DEF Idle, Shaped
<1>f. Forget(m) => fresh' \in [Readers -> SUBSET Hosts]
  BY ReadTyped DEF Forget
<1>1. CASE BootstrapUnavailable(m)
  BY <1>0, <1>1, <1>f, ReturnShaped DEF BootstrapUnavailable, TypeOK
<1>2. CASE RunBootstrap(m)
  <2>0. h \in Hosts /\ UNCHANGED <<host, machine, hostCache, machineCache, probe>>
    BY <1>2 DEF RunBootstrap, WorkShape
  <2>1. CASE /\ disk' = [disk EXCEPT ![h] = [by |-> m, run |-> "running"]]
             /\ Return(m, t) /\ Forget(m)
    <3>1. disk' \in [Hosts -> DiskStates]
      BY <2>1 DEF TypeOK, DiskStates, MachineOrNone
    <3>. QED BY <1>0, <1>f, <2>0, <2>1, <3>1, ReturnShaped DEF TypeOK
  <2>2. CASE Return(m, t) /\ Forget(m) /\ UNCHANGED disk
    BY <1>0, <1>f, <2>0, <2>2, ReturnShaped DEF TypeOK
  <2>3. CASE /\ Become(m, [t EXCEPT !.new.provisioned = TRUE, !.pc = "mark"])
             /\ UNCHANGED <<fresh, disk>>
    <3>1. [t EXCEPT !.new.provisioned = TRUE, !.pc = "mark"] \in WorkStates
      BY <1>0, <1>s, EditWork DEF HostOrNone
    <3>2. Shaped([t EXCEPT !.new.provisioned = TRUE, !.pc = "mark"])
      BY <1>0, <2>0 DEF Shaped, WorkStates
    <3>. QED BY <2>0, <2>3, <3>1, <3>2, BecomeShaped DEF TypeOK
  <2>. QED BY <1>2, <2>1, <2>2, <2>3 DEF RunBootstrap
<1>3. CASE MarkProvisioned(m)
  <2>0. h \in Hosts /\ UNCHANGED <<machine, machineCache, probe, disk>> /\ Return(m, t)
    BY <1>3 DEF MarkProvisioned, WorkShape
  <2>1. CASE Update(m, h, [host[h] EXCEPT !.phase = "Provisioned"], {})
    <3>1. [host[h] EXCEPT !.phase = "Provisioned"] \in HostObjects
      BY <2>0, EditHost DEF MachineOrNone, Phases
    <3>. QED BY <1>0, <2>0, <2>1, <3>1, UpdateTyped, ReturnShaped DEF TypeOK
  <2>2. CASE Forget(m) /\ UNCHANGED <<host, hostCache>>
    BY <1>0, <1>f, <2>0, <2>2, ReturnShaped DEF TypeOK
  <2>. QED BY <1>3, <2>1, <2>2 DEF MarkProvisioned
<1>4. CASE PatchMeta(m)
  <2>0. UNCHANGED <<host, hostCache, fresh, probe, disk>> BY <1>4 DEF PatchMeta
  <2>1. [machine[m] EXCEPT !.fin = TRUE] \in MachineObjects
    <3>1. machine[m] \in MachineObjects BY DEF TypeOK
    <3>. QED BY <3>1 DEF MachineObjects
  <2>2. [t EXCEPT !.pc = "patchStatus"] \in WorkStates /\ Shaped([t EXCEPT !.pc = "patchStatus"])
    BY <1>0, <1>s DEF WorkStates, Shaped
  <2>3. /\ machine' \in [Machines -> MachineObjects]
        /\ machineCache' \in [Machines -> MachineObjects]
    BY <1>4, <2>1, RecordTypes, StoreMachineTyped DEF PatchMeta, TypeOK
  <2>4. work' \in [Machines -> WorkStates] /\ WorkShape'
    <3>1. Become(m, Idle) \/ Become(m, [t EXCEPT !.pc = "patchStatus"])
      BY <1>4 DEF PatchMeta, StatusNext, Become
    <3>. QED BY <3>1, <1>i, <2>2, BecomeShaped
  <2>. QED BY <2>0, <2>3, <2>4 DEF TypeOK
<1>5. CASE PatchStatus(m)
  <2>. DEFINE r == [machine[m] EXCEPT
               !.ref = IF t.new.ref = t.seen.ref THEN @ ELSE t.new.ref,
               !.provisioned = @ \/ t.new.provisioned]
  <2>1. r \in MachineObjects
    <3>1. machine[m] \in MachineObjects /\ t.new \in MachineObjects
      BY <1>0 DEF TypeOK, WorkStates
    <3>. QED BY <3>1 DEF MachineObjects
  <2>2. StoreMachine(m, r) /\ Become(m, Idle) /\ UNCHANGED <<host, hostCache, fresh, probe, disk>>
    BY <1>5 DEF PatchStatus
  <2>. QED BY <1>i, <2>1, <2>2, StoreMachineTyped, BecomeShaped DEF TypeOK
<1>6. CASE PatchFails(m)
  <2>1. [t EXCEPT !.pc = "patchStatus"] \in WorkStates /\ Shaped([t EXCEPT !.pc = "patchStatus"])
    BY <1>0, <1>s DEF WorkStates, Shaped
  <2>2. Become(m, Idle) \/ Become(m, [t EXCEPT !.pc = "patchStatus"])
    BY <1>6 DEF PatchFails, StatusNext, Become
  <2>3. work' \in [Machines -> WorkStates] /\ WorkShape' BY <1>i, <2>1, <2>2, BecomeShaped
  <2>. QED BY <1>6, <2>3 DEF PatchFails, TypeOK
<1>. QED BY <1>1, <1>2, <1>3, <1>4, <1>5, <1>6

\* And the steps that reset and release a Host.
LEMMA ReleaseStepsTyped ==
    ASSUME TypeOK, WorkShape, NEW m \in Machines,
           BeginDelete(m) \/ ResetHost(m) \/ UnlabelHost(m) \/ UnclaimHost(m)
    PROVE  TypeOK' /\ WorkShape'
<1>. DEFINE t == work[m]
            h == t.host
<1>0. t \in WorkStates BY DEF TypeOK
<1>s. {"reset", "unlabel", "unclaim"} \subseteq Steps BY DEF Steps
<1>f. Forget(m) => fresh' \in [Readers -> SUBSET Hosts]
  BY ReadTyped DEF Forget
<1>1. CASE BeginDelete(m)
  <2>. DEFINE c == machineCache[m]
              b == [Idle EXCEPT !.seen = c, !.new = c]
  <2>1. c \in MachineObjects BY DEF TypeOK
  <2>2. b \in WorkStates BY <2>1, RecordTypes DEF WorkStates
  <2>3. UNCHANGED <<host, machine, hostCache, machineCache, probe, disk>>
    BY <1>1 DEF BeginDelete
  <2>4. CASE Return(m, [b EXCEPT !.new.ref = None, !.new.fin = FALSE]) /\ Forget(m)
    <3>1. [b EXCEPT !.new.ref = None, !.new.fin = FALSE] \in WorkStates
      BY <2>2, <1>s, EditWork DEF HostOrNone
    <3>. QED BY <1>f, <2>3, <2>4, <3>1, ReturnShaped DEF TypeOK
  <2>5. CASE /\ c.ref # None
             /\ Become(m, [b EXCEPT !.pc = "reset", !.host = c.ref]) /\ Read(m, {c.ref})
    <3>1. c.ref \in Hosts BY <2>1, <2>5 DEF MachineObjects, HostOrNone
    <3>2. [b EXCEPT !.pc = "reset", !.host = c.ref] \in WorkStates
      BY <2>2, <3>1, <1>s, EditWork DEF HostOrNone
    <3>3. Shaped([b EXCEPT !.pc = "reset", !.host = c.ref])
      BY <2>2, <3>1 DEF Shaped, WorkStates
    <3>4. fresh' \in [Readers -> SUBSET Hosts] BY <2>5, <3>1, ReadTyped
    <3>. QED BY <2>3, <2>5, <3>2, <3>3, <3>4, BecomeShaped DEF TypeOK
  <2>. QED BY <1>1, <2>4, <2>5 DEF BeginDelete
<1>2. CASE ResetHost(m)
  <2>0. h \in Hosts /\ UNCHANGED <<host, machine, hostCache, machineCache, fresh, probe>>
    BY <1>2 DEF ResetHost, WorkShape
  <2>1. disk' \in [Hosts -> DiskStates]
    BY <1>2, <2>0, RecordTypes DEF ResetHost, TypeOK
  <2>2. \A c \in {"clean", "unverified"} :
            /\ [t EXCEPT !.pc = "unlabel", !.cond = c] \in WorkStates
            /\ Shaped([t EXCEPT !.pc = "unlabel", !.cond = c])
    BY <1>0, <2>0, <1>s DEF WorkStates, ResetStates, Shaped
  <2>. QED BY <1>2, <2>0, <2>1, <2>2, BecomeShaped DEF ResetHost, TypeOK
<1>3. CASE UnlabelHost(m)
  <2>0. h \in Hosts /\ UNCHANGED <<machine, machineCache, probe, disk>>
    BY <1>3 DEF UnlabelHost, WorkShape
  <2>1. [t EXCEPT !.pc = "unclaim"] \in WorkStates /\ Shaped([t EXCEPT !.pc = "unclaim"])
    BY <1>0, <2>0, <1>s DEF WorkStates, Shaped
  <2>2. CASE Update(m, h, [host[h] EXCEPT !.label = None], {h})
             /\ Become(m, [t EXCEPT !.pc = "unclaim"])
    <3>1. [host[h] EXCEPT !.label = None] \in HostObjects
      BY <2>0, EditHost DEF MachineOrNone, Phases
    <3>. QED BY <2>0, <2>1, <2>2, <3>1, UpdateTyped, BecomeShaped DEF TypeOK
  <2>3. CASE Become(m, [t EXCEPT !.pc = "unclaim"]) /\ Forget(m) /\ UNCHANGED <<host, hostCache>>
    BY <1>f, <2>0, <2>1, <2>3, BecomeShaped DEF TypeOK
  <2>4. CASE Return(m, t) /\ Forget(m) /\ UNCHANGED <<host, hostCache>>
    BY <1>0, <1>f, <2>0, <2>4, ReturnShaped DEF TypeOK
  <2>. QED BY <1>3, <2>2, <2>3, <2>4 DEF UnlabelHost
<1>4. CASE UnclaimHost(m)
  <2>. DEFINE u == [t EXCEPT !.new.ref = None, !.new.fin = FALSE]
              r == [host[h] EXCEPT !.claim = None, !.phase = "Pending", !.reset = t.cond]
  <2>0. h \in Hosts /\ UNCHANGED <<machine, machineCache, probe, disk>>
    BY <1>4 DEF UnclaimHost, WorkShape
  <2>1. u \in WorkStates BY <1>0, <1>s, EditWork DEF HostOrNone
  <2>2. CASE Update(m, h, r, {}) /\ Return(m, u)
    <3>1. t.cond \in {"none", "clean", "unverified"} BY <1>0 DEF WorkStates, ResetStates
    <3>2. r \in HostObjects BY <2>0, <3>1, EditHost DEF MachineOrNone, Phases
    <3>. QED BY <2>0, <2>1, <2>2, <3>2, UpdateTyped, ReturnShaped DEF TypeOK
  <2>3. CASE Return(m, u) /\ Forget(m) /\ UNCHANGED <<host, hostCache>>
    BY <1>f, <2>0, <2>1, <2>3, ReturnShaped DEF TypeOK
  <2>4. CASE Return(m, t) /\ Forget(m) /\ UNCHANGED <<host, hostCache>>
    BY <1>0, <1>f, <2>0, <2>4, ReturnShaped DEF TypeOK
  <2>. QED BY <1>4, <2>2, <2>3, <2>4 DEF UnclaimHost
<1>. QED BY <1>1, <1>2, <1>3, <1>4

\* The steps of HostReconciler and of the environment keep the types.
LEMMA HostStepsTyped ==
    ASSUME TypeOK, WorkShape, NEW h \in Hosts,
           HostStep(h) \/ RunEnds(h) \/ DeleteHost(h) \/ SetUnhealthy(h) \/ SyncHost(h)
    PROVE  TypeOK' /\ WorkShape'
<1>. DEFINE Goal == TypeOK' /\ WorkShape'
<1>o. Outdated(h) \in [Readers -> SUBSET Hosts] BY OutdatedTyped
<1>g. ASSUME UNCHANGED <<machine, machineCache, work, disk>>,
             NEW r \in HostObjects, StoreHost(h, r) \/ UNCHANGED <<host, hostCache>>,
             fresh' \in {fresh, Outdated(h)}, probe' \in [Hosts -> ProbeStates]
      PROVE  Goal
  BY <1>g, <1>o, StoreHostTyped DEF TypeOK, WorkShape
<1>1. CASE AddHostFinalizer(h)
  <2>1. [host[h] EXCEPT !.fin = TRUE] \in HostObjects
    BY EditHost DEF MachineOrNone, Phases
  <2>. QED BY <1>1, <2>1, <1>g DEF AddHostFinalizer, TypeOK
<1>2. CASE BeginProbe(h)
  <2>1. hostCache[h] \in HostObjects BY DEF TypeOK
  <2>2. probe' \in [Hosts -> ProbeStates]
    BY <1>2, <2>1 DEF BeginProbe, TypeOK, HostObjects, ProbeStates
  <2>. QED BY <1>2, <2>1, <2>2, <1>g DEF BeginProbe
<1>3. CASE PatchesStatus(h)
  <2>1. /\ UNCHANGED <<machine, machineCache, work, disk>>
        /\ probe' \in {probe, [probe EXCEPT ![h] = NotProbing]}
        /\ \/ UNCHANGED <<host, hostCache, fresh>>
           \/ \E r \in HostObjects : StoreHost(h, r) /\ fresh' = Outdated(h)
    BY <1>3, StatusPatch
  <2>2. probe' \in [Hosts -> ProbeStates] BY <2>1, RecordTypes DEF TypeOK
  <2>. QED BY <2>1, <2>2, <1>g, RecordTypes
<1>4. CASE BeginHostDelete(h)
  <2>1. [NotProbing EXCEPT !.pc = "drop"] \in ProbeStates BY RecordTypes DEF ProbeStates
  <2>2. probe' \in [Hosts -> ProbeStates] BY <1>4, <2>1 DEF BeginHostDelete, TypeOK
  <2>. QED BY <1>4, <2>2, <1>g, RecordTypes DEF BeginHostDelete
<1>5. CASE EndHostDelete(h)
  <2>1. probe' \in [Hosts -> ProbeStates]
    BY <1>5, RecordTypes DEF EndHostDelete, TypeOK
  <2>. QED BY <1>5, <2>1, <1>g, RecordTypes DEF EndHostDelete
<1>6. CASE RunEnds(h)
  <2>1. disk' \in [Hosts -> DiskStates] BY <1>6 DEF RunEnds, TypeOK, DiskStates
  <2>. QED BY <1>6, <2>1 DEF RunEnds, TypeOK, WorkShape
<1>7. CASE DeleteHost(h)
  <2>1. [host[h] EXCEPT !.deleting = TRUE] \in HostObjects
    BY EditHost DEF MachineOrNone, Phases
  <2>. QED BY <1>7, <2>1, <1>g, RecordTypes DEF DeleteHost, TypeOK
<1>8. CASE SetUnhealthy(h)
  <2>1. [host[h] EXCEPT !.unhealthy = ~@] \in HostObjects
    BY DEF TypeOK, HostObjects
  <2>. QED BY <1>8, <2>1, <1>g DEF SetUnhealthy, TypeOK
<1>9. CASE SyncHost(h)
  BY <1>9 DEF SyncHost, TypeOK, WorkShape, Readers
<1>. QED BY <1>1, <1>2, <1>3, <1>4, <1>5, <1>6, <1>7, <1>8, <1>9 DEF HostStep, PatchesStatus

\* Operators, Cluster API, informers, restarts and moves keep the types.
LEMMA EnvironmentTyped ==
    ASSUME TypeOK, WorkShape,
           \/ \E m \in Machines : CreateMachine(m) \/ DeleteMachine(m) \/ SyncMachine(m)
           \/ Crash \/ Move
    PROVE  TypeOK' /\ WorkShape'
<1>1. ASSUME NEW m \in Machines, CreateMachine(m) PROVE TypeOK' /\ WorkShape'
  <2>1. [NoMachine EXCEPT !.state = "live"] \in MachineObjects
    BY RecordTypes DEF MachineObjects
  <2>. QED BY <1>1, <2>1, StoreMachineTyped DEF CreateMachine, TypeOK, WorkShape
<1>2. ASSUME NEW m \in Machines, DeleteMachine(m) PROVE TypeOK' /\ WorkShape'
  <2>1. [machine[m] EXCEPT !.state = "deleting"] \in MachineObjects
    BY DEF TypeOK, MachineObjects
  <2>. QED BY <1>2, <2>1, RecordTypes, StoreMachineTyped DEF DeleteMachine, TypeOK, WorkShape
<1>3. ASSUME NEW m \in Machines, SyncMachine(m) PROVE TypeOK' /\ WorkShape'
  BY <1>3 DEF SyncMachine, TypeOK, WorkShape
<1>4. ASSUME NEW hs \in [Hosts -> HostObjects], NEW ms \in [Machines -> MachineObjects],
             Restart(hs, ms)
      PROVE  TypeOK' /\ WorkShape'
  BY <1>4, RecordTypes DEF Restart, TypeOK, WorkShape, Readers, Idle
<1>5. CASE Crash BY <1>4, <1>5 DEF Crash, TypeOK
<1>6. CASE Move
  <2>1. [h \in Hosts |-> [host[h] EXCEPT !.claim = None, !.phase = "Pending", !.waits = FALSE,
                                        !.reset = "none"]] \in [Hosts -> HostObjects]
    BY EditHost DEF MachineOrNone, Phases
  <2>2. [m \in Machines |-> [machine[m] EXCEPT !.ref = None, !.provisioned = FALSE]]
           \in [Machines -> MachineObjects]
    BY DEF TypeOK, MachineObjects, HostOrNone
  <2>. QED BY <1>4, <1>6, <2>1, <2>2 DEF Move
<1>. QED BY <1>1, <1>2, <1>3, <1>5, <1>6

\* Every step keeps the types and the shape of the running reconciles.
LEMMA TypeStep == TypeOK /\ WorkShape /\ [Next]_vars => TypeOK' /\ WorkShape'
<1>. SUFFICES ASSUME TypeOK, WorkShape, [Next]_vars PROVE TypeOK' /\ WorkShape' OBVIOUS
<1>1. CASE UNCHANGED vars BY <1>1 DEF vars, TypeOK, WorkShape
<1>2. ASSUME NEW m \in Machines, MachineStep(m) PROVE TypeOK' /\ WorkShape'
  BY <1>2, ClaimStepsTyped, BootstrapStepsTyped, ReleaseStepsTyped DEF MachineStep
<1>. QED BY <1>1, <1>2, HostStepsTyped, EnvironmentTyped DEF Next

\* The initial state is well-typed.
LEMMA TypeInit == Init => TypeOK /\ WorkShape
BY RecordTypes DEF Init, TypeOK, WorkShape, Readers, Idle

\* The state keeps its types: in particular the reconcilers never write a
\* phase or a claim outside the ones the pool knows.
THEOREM TypeCorrect == Spec => []TypeOK
<1>1. Init => TypeOK /\ WorkShape BY TypeInit
<1>2. TypeOK /\ WorkShape /\ [Next]_vars => (TypeOK /\ WorkShape)' BY TypeStep
<1>. QED BY <1>1, <1>2, PTL DEF Spec

-----------------------------------------------------------------------------
(* Claims.                                                                 *)

\* A step leaves machine x alone: its reconcile stands, and what it holds
\* current copies of did not change.
Untouched(x) ==
    work'[x] = work[x] /\ \A g \in fresh'[x] : g \in fresh[x] /\ host'[g] = host[g]

\* What a machine relies on about its copies survives a step that leaves it alone.
LEMMA UntouchedKeepsCopies ==
    ASSUME NEW x \in Machines, CopyOf(x), Untouched(x)
    PROVE  CopyOf(x)'
BY DEF CopyOf, Untouched

\* A step of machine m that leaves the others alone keeps all copies in order
\* if it keeps m's.
LEMMA OneMachineMoves ==
    ASSUME NEW m \in Machines, CopyIsCurrent, CopyOf(m)',
           \A x \in Machines \ {m} : Untouched(x)
    PROVE  CopyIsCurrent'
<1>1. ASSUME NEW x \in Machines PROVE CopyOf(x)'
  BY UntouchedKeepsCopies DEF CopyIsCurrent
<1>. QED BY <1>1 DEF CopyIsCurrent

\* What Update does to the copies: the writer's is current again, everybody
\* else's of that Host is not, unless nothing was written.
LEMMA UpdateFrame ==
    ASSUME TypeOK, CacheIsCurrent, NEW m \in Machines, NEW h \in Hosts, NEW r,
           NEW keep \in SUBSET Hosts, Update(m, h, r, keep)
    PROVE  /\ CacheIsCurrent'
           /\ h \in fresh[m] /\ fresh'[m] = keep
           /\ \A x \in Machines \ {m} : \A g \in fresh'[x] :
                  g \in fresh[x] /\ host'[g] = host[g]
           /\ host' = [host EXCEPT ![h] = r]
<1>1. Cache \in Readers /\ m \in Readers /\ Cache # m /\ Machines \subseteq Readers
  BY NamesAssumption DEF Readers
<1>2. /\ h \in fresh[m] /\ host' = [host EXCEPT ![h] = r]
      /\ hostCache' = IF "hostLag" \in Faults THEN hostCache ELSE [hostCache EXCEPT ![h] = r]
  BY DEF Update, MayUpdate, StoreHost
<1>3. fresh'[m] = keep BY <1>1 DEF Update, Outdated, TypeOK
<1>4. CASE r = host[h]
  <2>1. host' = host BY <1>2, <1>4 DEF TypeOK
  <2>2. \A x \in Readers \ {m} : fresh'[x] = fresh[x]
    BY <1>1, <1>4 DEF Update, TypeOK
  <2>3. CacheIsCurrent'
    BY <1>1, <1>2, <1>4, <2>1, <2>2 DEF CacheIsCurrent, TypeOK
  <2>. QED BY <1>1, <1>2, <1>3, <2>1, <2>2, <2>3
<1>5. CASE r # host[h]
  <2>1. \A x \in Readers \ {m} : fresh'[x] =
          IF x = Cache /\ "hostLag" \notin Faults THEN fresh[x] ELSE fresh[x] \ {h}
    BY <1>1, <1>5 DEF Update, Outdated
  <2>2. CacheIsCurrent'
    <3>1. ASSUME NEW g \in Hosts, g \in fresh'[Cache] PROVE hostCache'[g] = host'[g]
      <4>1. fresh'[Cache] \subseteq fresh[Cache] BY <1>1, <2>1
      <4>2. hostCache[g] = host[g] BY <3>1, <4>1 DEF CacheIsCurrent
      <4>3. CASE g = h
        <5>1. "hostLag" \notin Faults BY <1>1, <2>1, <3>1, <4>3
        <5>. QED BY <1>2, <4>3, <5>1 DEF TypeOK
      <4>4. CASE g # h BY <1>2, <4>2, <4>4 DEF TypeOK
      <4>. QED BY <4>3, <4>4
    <3>. QED BY <3>1 DEF CacheIsCurrent
  <2>3. ASSUME NEW x \in Machines \ {m}, NEW g \in fresh'[x]
        PROVE  g \in fresh[x] /\ host'[g] = host[g]
    <3>1. g \in fresh[x] \ {h} BY <1>1, <2>1, NamesAssumption
    <3>2. g \in Hosts BY <1>1, <3>1 DEF TypeOK
    <3>. QED BY <1>2, <3>1, <3>2 DEF TypeOK
  <2>. QED BY <1>2, <1>3, <2>2, <2>3
<1>. QED BY <1>4, <1>5

\* The same for a write by somebody else, which checks no version.
LEMMA WriteFrame ==
    ASSUME TypeOK, CacheIsCurrent, NEW h \in Hosts, NEW r, StoreHost(h, r),
           \/ fresh' = Outdated(h)
           \/ fresh' = fresh /\ r = host[h]
    PROVE  /\ CacheIsCurrent'
           /\ \A x \in Machines : \A g \in fresh'[x] : g \in fresh[x] /\ host'[g] = host[g]
           /\ host' = [host EXCEPT ![h] = r]
<1>1. Cache \in Readers /\ Machines \subseteq Readers /\ Cache \notin Machines
  BY NamesAssumption DEF Readers
<1>2. /\ host' = [host EXCEPT ![h] = r]
      /\ hostCache' = IF "hostLag" \in Faults THEN hostCache ELSE [hostCache EXCEPT ![h] = r]
  BY DEF StoreHost
<1>3. CASE fresh' = Outdated(h)
  <2>1. \A x \in Readers : fresh'[x] =
          IF x = Cache /\ "hostLag" \notin Faults THEN fresh[x] ELSE fresh[x] \ {h}
    BY <1>3 DEF Outdated
  <2>2. CacheIsCurrent'
    BY <1>1, <1>2, <2>1 DEF CacheIsCurrent, TypeOK
  <2>3. ASSUME NEW x \in Machines, NEW g \in fresh'[x]
        PROVE  g \in fresh[x] /\ host'[g] = host[g]
    <3>1. g \in fresh[x] \ {h} BY <1>1, <2>1
    <3>2. g \in Hosts BY <1>1, <3>1 DEF TypeOK
    <3>. QED BY <1>2, <3>1, <3>2 DEF TypeOK
  <2>. QED BY <1>2, <2>2, <2>3
<1>4. CASE fresh' = fresh /\ r = host[h]
  <2>1. host' = host BY <1>2, <1>4 DEF TypeOK
  <2>2. CacheIsCurrent' BY <1>2, <1>4, <2>1 DEF CacheIsCurrent, TypeOK
  <2>. QED BY <1>2, <1>4, <2>1, <2>2
<1>. QED BY <1>3, <1>4

\* Reading from the cache.
LEMMA ReadFrame ==
    ASSUME TypeOK, CacheIsCurrent, NEW m \in Machines, NEW S \in SUBSET Hosts, Read(m, S),
           UNCHANGED <<host, hostCache>>
    PROVE  /\ CacheIsCurrent'
           /\ fresh'[m] = S \cap fresh[Cache]
           /\ \A g \in fresh'[m] : g \in S /\ hostCache[g] = host[g]
           /\ \A x \in Machines \ {m} : fresh'[x] = fresh[x]
<1>1. Cache \in Readers /\ m \in Readers /\ Cache # m /\ Machines \subseteq Readers
  BY NamesAssumption DEF Readers
<1>2. /\ fresh'[m] = S \cap fresh[Cache]
      /\ \A x \in Readers \ {m} : fresh'[x] = fresh[x]
  BY <1>1 DEF Read, TypeOK
<1>3. CacheIsCurrent' BY <1>1, <1>2 DEF CacheIsCurrent
<1>. QED BY <1>1, <1>2, <1>3 DEF CacheIsCurrent

\* The claim invariant survives the steps of a HostMachine's reconcile.
LEMMA ClaimStepsKeepClaims ==
    ASSUME ClaimInv, NEW m \in Machines,
           \/ WaitForDependency(m) \/ UseHostRef(m) \/ RecoverClaim(m)
           \/ RecoverLabel(m) \/ ChooseHost(m) \/ LabelHost(m) \/ RecordClaim(m)
    PROVE  CacheIsCurrent' /\ CopyIsCurrent' /\ LabelAgreesWithClaim'
<1>. USE DEF ClaimInv
<1>. DEFINE Goal == CacheIsCurrent' /\ CopyIsCurrent' /\ LabelAgreesWithClaim'
<1>b. Begin(m) \in WorkStates /\ machineCache[m] \in MachineObjects BY BeginTyped
<1>f. FreeFor(m) \in SUBSET Hosts BY SelectorAssumption DEF FreeFor
<1>w. \A u \in WorkStates : Become(m, u) \/ Return(m, u) => \A x \in Machines \ {m} : work'[x] = work[x]
  BY DEF Become, Return, TypeOK
<1>n. \A u \in WorkStates : Become(m, u) => work'[m] = u
  BY DEF Become, TypeOK
\* Steps that only read.
<1>r. ASSUME UNCHANGED <<host, hostCache>>, NEW S \in SUBSET Hosts, Read(m, S),
             \A x \in Machines \ {m} : work'[x] = work[x], CopyOf(m)'
      PROVE  Goal
  <2>1. /\ CacheIsCurrent'
        /\ \A x \in Machines \ {m} : fresh'[x] = fresh[x]
    BY <1>r, ReadFrame
  <2>2. \A x \in Machines \ {m} : Untouched(x) BY <1>r, <2>1 DEF Untouched
  <2>3. CopyIsCurrent' BY <1>r, <2>2, OneMachineMoves
  <2>4. LabelAgreesWithClaim' BY <1>r DEF LabelAgreesWithClaim
  <2>. QED BY <2>1, <2>3, <2>4
<1>e. ASSUME UNCHANGED <<host, hostCache>>, Forget(m), NEW u \in WorkStates, Return(m, u)
      PROVE  Goal
  <2>1. fresh'[m] = {} BY <1>e, ReadFrame DEF Forget
  <2>2. CopyOf(m)' BY <2>1 DEF CopyOf
  <2>. QED BY <1>e, <1>w, <1>r, <2>2 DEF Forget
<1>1. CASE WaitForDependency(m)
  BY <1>1, <1>b, <1>e DEF WaitForDependency
<1>2. CASE UseHostRef(m)
  <2>. DEFINE h == machineCache[m].ref
  <2>0. UNCHANGED <<host, hostCache>> /\ h \in Hosts
    BY <1>2, <1>b DEF UseHostRef, MachineObjects, HostOrNone
  <2>s. "boot" \in Steps /\ h \in HostOrNone /\ None \in HostOrNone BY <2>0 DEF Steps, HostOrNone
  <2>1. CASE /\ Become(m, [Begin(m) EXCEPT !.pc = "boot", !.host = h])
             /\ Read(m, {h})
    <3>1. [Begin(m) EXCEPT !.pc = "boot", !.host = h] \in WorkStates
      BY <1>b, <2>s, EditWork
    <3>2. work'[m].pc = "boot" BY <2>1, <3>1, <1>n, <1>b DEF WorkStates
    <3>3. CopyOf(m)' BY <3>2 DEF CopyOf
    <3>. QED BY <2>0, <2>1, <3>1, <3>3, <1>w, <1>r
  <2>2. CASE Return(m, [Begin(m) EXCEPT !.new.ref = None]) /\ Forget(m)
    <3>1. [Begin(m) EXCEPT !.new.ref = None] \in WorkStates
      BY <1>b, <2>s, EditWork
    <3>. QED BY <2>0, <2>2, <3>1, <1>e
  <2>. QED BY <1>2, <2>1, <2>2 DEF UseHostRef
<1>3. CASE RecoverClaim(m)
  <2>. DEFINE h == First(ClaimedFor(m))
              t == [Begin(m) EXCEPT !.pc = "boot", !.host = h, !.new.ref = h]
  <2>1. h \in Hosts /\ Become(m, t) /\ Read(m, {h}) /\ UNCHANGED <<host, hostCache>>
    BY <1>3, FirstIsMember DEF RecoverClaim, ClaimedFor
  <2>s. "boot" \in Steps /\ h \in HostOrNone BY <2>1 DEF Steps, HostOrNone
  <2>2. t \in WorkStates BY <1>b, <2>s, EditWork
  <2>3. work'[m].pc = "boot" BY <2>1, <2>2, <1>n, <1>b DEF WorkStates
  <2>4. CopyOf(m)' BY <2>3 DEF CopyOf
  <2>. QED BY <2>1, <2>2, <2>4, <1>w, <1>r
<1>4. CASE RecoverLabel(m)
  <2>. DEFINE h == First(LabelledFor(m))
              t == [Begin(m) EXCEPT !.pc = "record", !.host = h]
  <2>1. /\ h \in LabelledFor(m) /\ h \in Hosts /\ h \notin ClaimedFor(m)
        /\ Become(m, t) /\ Read(m, {h}) /\ UNCHANGED <<host, hostCache>>
    BY <1>4, FirstIsMember DEF RecoverLabel, LabelledFor
  <2>s. "record" \in Steps /\ h \in HostOrNone BY <2>1 DEF Steps, HostOrNone
  <2>2. t \in WorkStates BY <1>b, <2>s, EditWork
  <2>3. work'[m].pc = "record" /\ work'[m].host = h
    BY <2>1, <2>2, <1>n, <1>b DEF WorkStates
  <2>4. hostCache[h].label = m /\ hostCache[h].claim # m
    BY <2>1 DEF LabelledFor, ClaimedFor
  <2>5. ASSUME NEW g \in fresh'[m]
        PROVE  g = h /\ host'[g].claim = None /\ host'[g].label = m
    <3>1. g = h /\ hostCache[g] = host[g] BY <2>1, ReadFrame
    <3>2. m # None BY NamesAssumption
    <3>. QED BY <2>1, <2>4, <3>1, <3>2 DEF LabelAgreesWithClaim
  <2>6. CopyOf(m)' BY <2>3, <2>5 DEF CopyOf
  <2>. QED BY <2>1, <2>2, <2>6, <1>w, <1>r
<1>5. CASE ChooseHost(m)
  <2>. DEFINE t == [Begin(m) EXCEPT !.pc = "label", !.todo = FreeFor(m)]
  <2>0. UNCHANGED <<host, hostCache>> BY <1>5 DEF ChooseHost
  <2>1. t \in WorkStates BY <1>b, <1>f DEF WorkStates, Steps
  <2>2. CASE Become(m, t) /\ Read(m, FreeFor(m))
    <3>1. work'[m].pc = "label" BY <2>1, <2>2, <1>n, <1>b DEF WorkStates
    <3>2. ASSUME NEW g \in fresh'[m]
          PROVE  host'[g].claim = None /\ host'[g].phase = "Available"
      <4>1. g \in FreeFor(m) /\ hostCache[g] = host[g] BY <2>0, <2>2, <1>f, ReadFrame
      <4>. QED BY <2>0, <4>1 DEF FreeFor
    <3>3. CopyOf(m)' BY <3>1, <3>2 DEF CopyOf
    <3>. QED BY <2>0, <2>1, <2>2, <3>3, <1>f, <1>w, <1>r
  <2>3. CASE Return(m, Begin(m)) /\ Forget(m) BY <2>0, <2>3, <1>b, <1>e
  <2>. QED BY <1>5, <2>2, <2>3 DEF ChooseHost
<1>6. CASE LabelHost(m)
  <2>. DEFINE t == work[m]
              h == First(t.todo)
  <2>0. /\ t \in WorkStates /\ t.pc = "label" /\ h \in t.todo /\ h \in Hosts
    BY <1>6, FirstIsMember DEF LabelHost, TypeOK, WorkShape, WorkStates
  <2>1. CASE /\ Update(m, h, [host[h] EXCEPT !.label = m], {h})
             /\ Become(m, [t EXCEPT !.pc = "record", !.host = h, !.todo = {}])
    <3>. DEFINE r == [host[h] EXCEPT !.label = m]
                u == [t EXCEPT !.pc = "record", !.host = h, !.todo = {}]
    <3>0. u \in WorkStates BY <2>0, EditWork DEF HostOrNone, Steps
    <3>1. /\ CacheIsCurrent' /\ h \in fresh[m] /\ fresh'[m] = {h}
          /\ host' = [host EXCEPT ![h] = r]
          /\ \A x \in Machines \ {m} : \A g \in fresh'[x] :
                  g \in fresh[x] /\ host'[g] = host[g]
      BY <2>0, <2>1, UpdateFrame
    <3>2. host[h].claim = None BY <2>0, <3>1 DEF CopyIsCurrent, CopyOf
    <3>3. host'[h].claim = None /\ host'[h].label = m
      BY <2>0, <3>1, <3>2 DEF TypeOK, HostObjects
    <3>4. work'[m].pc = "record" /\ work'[m].host = h
      BY <2>0, <2>1, <3>0, <1>n DEF WorkStates
    <3>5. CopyOf(m)' BY <3>1, <3>3, <3>4 DEF CopyOf
    <3>6. \A x \in Machines \ {m} : Untouched(x)
      BY <2>1, <3>0, <3>1, <1>w DEF Untouched
    <3>7. LabelAgreesWithClaim'
      BY <2>0, <3>1, <3>3 DEF LabelAgreesWithClaim, TypeOK
    <3>. QED BY <3>1, <3>5, <3>6, <3>7, OneMachineMoves
  <2>2. CASE /\ Become(m, [t EXCEPT !.todo = t.todo \ {h}])
             /\ UNCHANGED <<fresh, host, hostCache>>
    <3>. DEFINE u == [t EXCEPT !.todo = t.todo \ {h}]
    <3>1. u \in WorkStates /\ u.pc = "label" /\ u.todo \subseteq t.todo
      BY <2>0 DEF WorkStates
    <3>2. work'[m] = u BY <2>2, <3>1, <1>n
    <3>3. CopyOf(m)' BY <2>0, <2>2, <3>1, <3>2 DEF CopyIsCurrent, CopyOf
    <3>4. \A x \in Machines \ {m} : Untouched(x) BY <2>2, <3>1, <1>w DEF Untouched
    <3>5. CacheIsCurrent' /\ LabelAgreesWithClaim'
      BY <2>2 DEF CacheIsCurrent, LabelAgreesWithClaim
    <3>. QED BY <3>3, <3>4, <3>5, OneMachineMoves
  <2>3. CASE Return(m, t) /\ Forget(m) /\ UNCHANGED <<host, hostCache>>
    BY <2>0, <2>3, <1>e
  <2>. QED BY <1>6, <2>1, <2>2, <2>3 DEF LabelHost
<1>7. CASE RecordClaim(m)
  <2>. DEFINE t == work[m]
              h == t.host
  <2>0. t \in WorkStates /\ t.pc = "record" /\ h \in Hosts
    BY <1>7 DEF RecordClaim, TypeOK, WorkShape
  <2>1. CASE /\ Update(m, h, [host[h] EXCEPT !.claim = m, !.phase = "Claimed"], {h})
             /\ Become(m, [t EXCEPT !.pc = "boot", !.new.ref = h])
    <3>. DEFINE r == [host[h] EXCEPT !.claim = m, !.phase = "Claimed"]
                u == [t EXCEPT !.pc = "boot", !.new.ref = h]
    <3>0. u \in WorkStates BY <2>0, EditWork DEF HostOrNone, Steps
    <3>1. /\ CacheIsCurrent' /\ h \in fresh[m]
          /\ host' = [host EXCEPT ![h] = r]
          /\ \A x \in Machines \ {m} : \A g \in fresh'[x] :
                  g \in fresh[x] /\ host'[g] = host[g]
      BY <2>0, <2>1, UpdateFrame
    <3>2. host[h].label = m BY <2>0, <3>1 DEF CopyIsCurrent, CopyOf
    <3>3. host'[h].claim = m /\ host'[h].label = m
      BY <2>0, <3>1, <3>2 DEF TypeOK, HostObjects
    <3>4. work'[m].pc = "boot" BY <2>0, <2>1, <3>0, <1>n DEF WorkStates
    <3>5. CopyOf(m)' BY <3>4 DEF CopyOf
    <3>6. \A x \in Machines \ {m} : Untouched(x)
      BY <2>1, <3>0, <3>1, <1>w DEF Untouched
    <3>7. LabelAgreesWithClaim'
      BY <2>0, <3>1, <3>3 DEF LabelAgreesWithClaim, TypeOK
    <3>. QED BY <3>1, <3>5, <3>6, <3>7, OneMachineMoves
  <2>2. CASE Return(m, t) /\ Forget(m) /\ UNCHANGED <<host, hostCache>>
    BY <2>0, <2>2, <1>e
  <2>. QED BY <1>7, <2>1, <2>2 DEF RecordClaim
<1>. QED BY <1>1, <1>2, <1>3, <1>4, <1>5, <1>6, <1>7

\* A step of m that writes no Host keeps the claim invariant if it leaves m
\* relying on nothing new.
LEMMA QuietStep ==
    ASSUME ClaimInv, NEW m \in Machines, UNCHANGED <<host, hostCache>>,
           fresh' = fresh \/ Forget(m),
           \A x \in Machines \ {m} : work'[x] = work[x],
           work'[m].pc \notin {"label", "record", "unclaim"}
    PROVE  CacheIsCurrent' /\ CopyIsCurrent' /\ LabelAgreesWithClaim'
<1>. USE DEF ClaimInv
<1>1. CacheIsCurrent' /\ \A x \in Machines \ {m} : fresh'[x] = fresh[x]
  <2>1. CASE fresh' = fresh BY <2>1 DEF CacheIsCurrent
  <2>2. CASE Forget(m) BY <2>2, ReadFrame DEF Forget
  <2>. QED BY <2>1, <2>2
<1>2. \A x \in Machines \ {m} : Untouched(x) BY <1>1 DEF Untouched
<1>3. CopyOf(m)' BY DEF CopyOf
<1>4. LabelAgreesWithClaim' BY DEF LabelAgreesWithClaim
<1>. QED BY <1>1, <1>2, <1>3, <1>4, OneMachineMoves

\* Where a reconcile goes when it ends.
LEMMA ReturnGoes ==
    ASSUME TypeOK, NEW m \in Machines, NEW t, Return(m, t)
    PROVE  /\ work'[m].pc \in {"idle", "patchMeta"}
           /\ \A x \in Machines \ {m} : work'[x] = work[x]
BY DEF Return, Idle, TypeOK

\* The steps that bootstrap a Host and patch the HostMachine keep ClaimInv.
LEMMA BootstrapStepsKeepClaims ==
    ASSUME ClaimInv, NEW m \in Machines,
           \/ BootstrapUnavailable(m) \/ RunBootstrap(m) \/ MarkProvisioned(m)
           \/ PatchMeta(m) \/ PatchStatus(m) \/ PatchFails(m)
    PROVE  CacheIsCurrent' /\ CopyIsCurrent' /\ LabelAgreesWithClaim'
<1>. USE DEF ClaimInv
<1>. DEFINE t == work[m]
            h == t.host
<1>0. t \in WorkStates BY DEF TypeOK
<1>n. \A u : Become(m, u) => work'[m] = u /\ \A x \in Machines \ {m} : work'[x] = work[x]
  BY DEF Become, TypeOK
<1>1. CASE BootstrapUnavailable(m)
  BY <1>1, ReturnGoes, QuietStep DEF BootstrapUnavailable
<1>2. CASE RunBootstrap(m)
  <2>0. UNCHANGED <<host, hostCache>> BY <1>2 DEF RunBootstrap
  <2>1. CASE Return(m, t) /\ Forget(m) BY <2>0, <2>1, ReturnGoes, QuietStep
  <2>2. CASE /\ Become(m, [t EXCEPT !.new.provisioned = TRUE, !.pc = "mark"])
             /\ UNCHANGED fresh
    <3>0. [t EXCEPT !.new.provisioned = TRUE, !.pc = "mark"].pc = "mark" BY <1>0 DEF WorkStates
    <3>1. work'[m].pc = "mark" BY <2>2, <1>n, <3>0
    <3>. QED BY <1>n, <2>0, <2>2, <3>1, QuietStep
  <2>. QED BY <1>2, <2>1, <2>2 DEF RunBootstrap
<1>3. CASE MarkProvisioned(m)
  <2>0. h \in Hosts /\ Return(m, t) BY <1>3 DEF MarkProvisioned, WorkShape
  <2>1. CASE Update(m, h, [host[h] EXCEPT !.phase = "Provisioned"], {})
    <3>1. /\ CacheIsCurrent' /\ fresh'[m] = {}
          /\ host' = [host EXCEPT ![h] = [host[h] EXCEPT !.phase = "Provisioned"]]
          /\ \A x \in Machines \ {m} : \A g \in fresh'[x] :
                  g \in fresh[x] /\ host'[g] = host[g]
      BY <2>0, <2>1, UpdateFrame
    <3>2. CopyOf(m)' BY <3>1 DEF CopyOf
    <3>3. \A x \in Machines \ {m} : Untouched(x) BY <2>0, <3>1, ReturnGoes DEF Untouched
    <3>4. \A g \in Hosts : host'[g].label = host[g].label /\ host'[g].claim = host[g].claim
      BY <2>0, <3>1 DEF TypeOK, HostObjects
    <3>5. LabelAgreesWithClaim' BY <3>4 DEF LabelAgreesWithClaim
    <3>. QED BY <3>1, <3>2, <3>3, <3>5, OneMachineMoves
  <2>2. CASE Forget(m) /\ UNCHANGED <<host, hostCache>>
    BY <2>0, <2>2, ReturnGoes, QuietStep
  <2>. QED BY <1>3, <2>1, <2>2 DEF MarkProvisioned
<1>4. CASE PatchMeta(m)
  <2>1. Become(m, Idle) \/ Become(m, [t EXCEPT !.pc = "patchStatus"])
    BY <1>4 DEF PatchMeta, StatusNext, Become
  <2>2. work'[m].pc \in {"idle", "patchStatus"}
    BY <1>0, <1>n, <2>1 DEF WorkStates, Idle
  <2>. QED BY <1>4, <1>n, <2>1, <2>2, QuietStep DEF PatchMeta
<1>5. CASE PatchStatus(m) \/ PatchFails(m)
  <2>1. /\ Become(m, Idle) \/ Become(m, [t EXCEPT !.pc = "patchStatus"])
        /\ UNCHANGED <<host, hostCache, fresh>>
    BY <1>5 DEF PatchStatus, PatchFails, StatusNext, Become
  <2>2. work'[m].pc \in {"idle", "patchStatus"}
    BY <1>0, <1>n, <2>1 DEF WorkStates, Idle
  <2>. QED BY <1>n, <2>1, <2>2, QuietStep
<1>. QED BY <1>1, <1>2, <1>3, <1>4, <1>5

\* The steps that reset and release a Host keep ClaimInv.
LEMMA ReleaseStepsKeepClaims ==
    ASSUME ClaimInv, NEW m \in Machines,
           BeginDelete(m) \/ ResetHost(m) \/ UnlabelHost(m) \/ UnclaimHost(m)
    PROVE  CacheIsCurrent' /\ CopyIsCurrent' /\ LabelAgreesWithClaim'
<1>. USE DEF ClaimInv
<1>. DEFINE t == work[m]
            h == t.host
<1>0. t \in WorkStates BY DEF TypeOK
<1>n. \A u : Become(m, u) => work'[m] = u /\ \A x \in Machines \ {m} : work'[x] = work[x]
  BY DEF Become, TypeOK
<1>1. CASE BeginDelete(m)
  <2>. DEFINE c == machineCache[m]
              b == [Idle EXCEPT !.seen = c, !.new = c]
  <2>0. UNCHANGED <<host, hostCache>> BY <1>1 DEF BeginDelete
  <2>1. CASE Return(m, [b EXCEPT !.new.ref = None, !.new.fin = FALSE]) /\ Forget(m)
    BY <2>0, <2>1, ReturnGoes, QuietStep
  <2>2. CASE /\ c.ref # None
             /\ Become(m, [b EXCEPT !.pc = "reset", !.host = c.ref]) /\ Read(m, {c.ref})
    <3>1. c.ref \in Hosts BY <2>2 DEF TypeOK, MachineObjects, HostOrNone
    <3>0. [b EXCEPT !.pc = "reset", !.host = c.ref].pc = "reset" BY DEF Idle
    <3>2. work'[m].pc = "reset" BY <2>2, <1>n, <3>0
    <3>3. CacheIsCurrent' /\ \A x \in Machines \ {m} : fresh'[x] = fresh[x]
      BY <2>0, <2>2, <3>1, ReadFrame
    <3>4. CopyOf(m)' BY <3>2 DEF CopyOf
    <3>5. \A x \in Machines \ {m} : Untouched(x) BY <2>0, <2>2, <1>n, <3>3 DEF Untouched
    <3>6. LabelAgreesWithClaim' BY <2>0 DEF LabelAgreesWithClaim
    <3>. QED BY <3>3, <3>4, <3>5, <3>6, OneMachineMoves
  <2>. QED BY <1>1, <2>1, <2>2 DEF BeginDelete
<1>2. CASE ResetHost(m)
  <2>1. \E c \in {"clean", "unverified"} : Become(m, [t EXCEPT !.pc = "unlabel", !.cond = c])
    BY <1>2 DEF ResetHost
  <2>a. \A c : [t EXCEPT !.pc = "unlabel", !.cond = c].pc = "unlabel" BY <1>0 DEF WorkStates
  <2>2. work'[m].pc = "unlabel" BY <1>n, <2>1, <2>a
  <2>. QED BY <1>2, <1>n, <2>1, <2>2, QuietStep DEF ResetHost
<1>3. CASE UnlabelHost(m)
  <2>0. h \in Hosts BY <1>3 DEF UnlabelHost, WorkShape
  <2>. DEFINE u == [t EXCEPT !.pc = "unclaim"]
  <2>1. u.pc = "unclaim" /\ u.host = h BY <1>0 DEF WorkStates
  <2>2. CASE Update(m, h, [host[h] EXCEPT !.label = None], {h}) /\ Become(m, u)
    <3>1. /\ CacheIsCurrent' /\ fresh'[m] = {h}
          /\ host' = [host EXCEPT ![h] = [host[h] EXCEPT !.label = None]]
          /\ \A x \in Machines \ {m} : \A g \in fresh'[x] :
                  g \in fresh[x] /\ host'[g] = host[g]
      BY <2>0, <2>2, UpdateFrame
    <3>2. host'[h].label = None BY <2>0, <3>1 DEF TypeOK, HostObjects
    <3>3. CopyOf(m)' BY <2>1, <2>2, <1>n, <3>1, <3>2 DEF CopyOf
    <3>4. \A x \in Machines \ {m} : Untouched(x) BY <2>2, <1>n, <3>1 DEF Untouched
    <3>5. LabelAgreesWithClaim' BY <2>0, <3>1, <3>2 DEF LabelAgreesWithClaim, TypeOK
    <3>. QED BY <3>1, <3>3, <3>4, <3>5, OneMachineMoves
  <2>3. CASE Become(m, u) /\ Forget(m) /\ UNCHANGED <<host, hostCache>>
    <3>1. /\ CacheIsCurrent' /\ fresh'[m] = {}
          /\ \A x \in Machines \ {m} : fresh'[x] = fresh[x]
      BY <2>3, ReadFrame DEF Forget
    <3>2. CopyOf(m)' BY <3>1 DEF CopyOf
    <3>3. \A x \in Machines \ {m} : Untouched(x) BY <2>3, <1>n, <3>1 DEF Untouched
    <3>4. LabelAgreesWithClaim' BY <2>3 DEF LabelAgreesWithClaim
    <3>. QED BY <3>1, <3>2, <3>3, <3>4, OneMachineMoves
  <2>4. CASE Return(m, t) /\ Forget(m) /\ UNCHANGED <<host, hostCache>>
    BY <2>4, ReturnGoes, QuietStep
  <2>. QED BY <1>3, <2>2, <2>3, <2>4 DEF UnlabelHost
<1>4. CASE UnclaimHost(m)
  <2>. DEFINE u == [t EXCEPT !.new.ref = None, !.new.fin = FALSE]
              r == [host[h] EXCEPT !.claim = None, !.phase = "Pending", !.reset = t.cond]
  <2>0. h \in Hosts BY <1>4 DEF UnclaimHost, WorkShape
  <2>1. CASE Update(m, h, r, {}) /\ Return(m, u)
    <3>1. /\ CacheIsCurrent' /\ fresh'[m] = {} /\ host' = [host EXCEPT ![h] = r]
          /\ \A x \in Machines \ {m} : \A g \in fresh'[x] :
                  g \in fresh[x] /\ host'[g] = host[g]
      BY <2>0, <2>1, UpdateFrame
    <3>2. host'[h].claim = None BY <2>0, <3>1 DEF TypeOK, HostObjects
    <3>3. CopyOf(m)' BY <3>1 DEF CopyOf
    <3>4. \A x \in Machines \ {m} : Untouched(x) BY <2>1, <3>1, ReturnGoes DEF Untouched
    <3>5. LabelAgreesWithClaim' BY <2>0, <3>1, <3>2 DEF LabelAgreesWithClaim, TypeOK
    <3>. QED BY <3>1, <3>3, <3>4, <3>5, OneMachineMoves
  <2>2. CASE Return(m, u) /\ Forget(m) /\ UNCHANGED <<host, hostCache>>
    BY <2>2, ReturnGoes, QuietStep
  <2>3. CASE Return(m, t) /\ Forget(m) /\ UNCHANGED <<host, hostCache>>
    BY <2>3, ReturnGoes, QuietStep
  <2>. QED BY <1>4, <2>1, <2>2, <2>3 DEF UnclaimHost
<1>. QED BY <1>1, <1>2, <1>3, <1>4

\* A step outside the HostMachines' reconciles keeps the claim invariant when
\* it writes at most one Host and leaves its label and claim alone, or wipes
\* the claim.
LEMMA HostWriteKeepsClaims ==
    ASSUME ClaimInv, UNCHANGED work, NEW h \in Hosts, NEW r, StoreHost(h, r),
           \/ fresh' = Outdated(h)
           \/ fresh' = fresh /\ r = host[h],
           \/ r.claim = host[h].claim /\ r.label = host[h].label
           \/ r.claim = None
    PROVE  CacheIsCurrent' /\ CopyIsCurrent' /\ LabelAgreesWithClaim'
<1>. USE DEF ClaimInv
<1>1. /\ CacheIsCurrent'
      /\ \A x \in Machines : \A g \in fresh'[x] : g \in fresh[x] /\ host'[g] = host[g]
      /\ host' = [host EXCEPT ![h] = r]
  BY WriteFrame
<1>2. \A x \in Machines : Untouched(x) BY <1>1 DEF Untouched
<1>3. CopyIsCurrent' BY <1>2, UntouchedKeepsCopies DEF CopyIsCurrent
<1>4. LabelAgreesWithClaim' BY <1>1 DEF LabelAgreesWithClaim, TypeOK
<1>. QED BY <1>1, <1>3, <1>4

\* The steps of HostReconciler keep ClaimInv.
LEMMA HostStepsKeepClaims ==
    ASSUME ClaimInv, NEW h \in Hosts,
           HostStep(h) \/ RunEnds(h) \/ DeleteHost(h) \/ SetUnhealthy(h) \/ SyncHost(h)
    PROVE  CacheIsCurrent' /\ CopyIsCurrent' /\ LabelAgreesWithClaim'
<1>. USE DEF ClaimInv
<1>. DEFINE Goal == CacheIsCurrent' /\ CopyIsCurrent' /\ LabelAgreesWithClaim'
<1>t. host[h] \in HostObjects BY DEF TypeOK
<1>u. UNCHANGED <<host, hostCache, fresh, work>> => Goal
  BY DEF CacheIsCurrent, CopyIsCurrent, CopyOf, LabelAgreesWithClaim
<1>g. GoneHost.claim = None BY DEF GoneHost, NewHost
<1>1. CASE AddHostFinalizer(h)
  <2>. DEFINE r == [host[h] EXCEPT !.fin = TRUE]
  <2>1. r.claim = host[h].claim /\ r.label = host[h].label BY <1>t DEF HostObjects
  <2>2. host[h].fin => r = host[h] BY <1>t DEF HostObjects
  <2>3. StoreHost(h, r) /\ UNCHANGED work /\ (fresh' = Outdated(h) \/ (fresh' = fresh /\ r = host[h]))
    BY <1>1, <2>2 DEF AddHostFinalizer
  <2>. QED BY <2>1, <2>3, HostWriteKeepsClaims
<1>2. CASE PatchesStatus(h)
  BY <1>2, <1>u, StatusPatch, HostWriteKeepsClaims DEF SameHolder
<1>3. CASE EndHostDelete(h)
  BY <1>3, <1>u, <1>g, HostWriteKeepsClaims DEF EndHostDelete
<1>4. CASE DeleteHost(h)
  <2>. DEFINE r == [host[h] EXCEPT !.deleting = TRUE]
  <2>1. r.claim = host[h].claim /\ r.label = host[h].label BY <1>t DEF HostObjects
  <2>2. CASE host[h].fin BY <1>4, <2>1, <2>2, HostWriteKeepsClaims DEF DeleteHost
  <2>3. CASE ~host[h].fin BY <1>4, <1>g, <2>3, HostWriteKeepsClaims DEF DeleteHost
  <2>. QED BY <2>2, <2>3
<1>5. CASE SetUnhealthy(h)
  <2>. DEFINE r == [host[h] EXCEPT !.unhealthy = ~@]
  <2>1. r.claim = host[h].claim /\ r.label = host[h].label BY <1>t DEF HostObjects
  <2>. QED BY <1>5, <2>1, HostWriteKeepsClaims DEF SetUnhealthy
<1>6. CASE SyncHost(h)
  <2>0. Cache \in Readers /\ Machines \subseteq Readers /\ Cache \notin Machines
    BY NamesAssumption DEF Readers
  <2>1. \A x \in Machines : fresh'[x] = fresh[x] BY <1>6, <2>0 DEF SyncHost, TypeOK
  <2>2. fresh'[Cache] = fresh[Cache] \cup {h} BY <1>6, <2>0 DEF SyncHost, TypeOK
  <2>3. CacheIsCurrent' BY <1>6, <2>2 DEF SyncHost, CacheIsCurrent, TypeOK
  <2>4. CopyIsCurrent' /\ LabelAgreesWithClaim'
    BY <1>6, <2>1 DEF SyncHost, CopyIsCurrent, CopyOf, LabelAgreesWithClaim
  <2>. QED BY <2>3, <2>4
<1>. QED BY <1>1, <1>2, <1>3, <1>4, <1>5, <1>6, <1>u
     DEF HostStep, PatchesStatus, BeginProbe, BeginHostDelete, RunEnds

\* Operators, Cluster API, informers, restarts and moves keep ClaimInv.
LEMMA EnvironmentKeepsClaims ==
    ASSUME ClaimInv,
           \/ \E m \in Machines : CreateMachine(m) \/ DeleteMachine(m) \/ SyncMachine(m)
           \/ Crash \/ Move
    PROVE  CacheIsCurrent' /\ CopyIsCurrent' /\ LabelAgreesWithClaim'
<1>. USE DEF ClaimInv
<1>1. CASE \E m \in Machines : CreateMachine(m) \/ DeleteMachine(m) \/ SyncMachine(m)
  <2>1. UNCHANGED <<host, hostCache, fresh, work>>
    BY <1>1 DEF CreateMachine, DeleteMachine, SyncMachine
  <2>. QED BY <2>1 DEF CacheIsCurrent, CopyIsCurrent, CopyOf, LabelAgreesWithClaim
<1>2. ASSUME NEW hs, NEW ms, Restart(hs, ms) PROVE CacheIsCurrent' /\ CopyIsCurrent'
  <2>1. \A m \in Machines : fresh'[m] = {}
    BY <1>2, NamesAssumption DEF Restart, Readers
  <2>2. CopyIsCurrent' BY <2>1 DEF CopyIsCurrent, CopyOf
  <2>3. CacheIsCurrent' BY <1>2 DEF Restart, CacheIsCurrent
  <2>. QED BY <2>2, <2>3
<1>3. CASE Crash BY <1>2, <1>3 DEF Crash, Restart, LabelAgreesWithClaim
<1>4. CASE Move
  <2>1. \A h \in Hosts : host'[h].claim = None
    <3>1. \A h \in Hosts : host'[h] = [host[h] EXCEPT !.claim = None, !.phase = "Pending",
                                                     !.waits = FALSE, !.reset = "none"]
      BY <1>4 DEF Move, Restart
    <3>2. \A h \in Hosts : host[h] \in HostObjects BY DEF TypeOK
    <3>. QED BY <3>1, <3>2 DEF HostObjects
  <2>2. CacheIsCurrent' /\ CopyIsCurrent' BY <1>2, <1>4 DEF Move
  <2>. QED BY <2>1, <2>2 DEF LabelAgreesWithClaim
<1>. QED BY <1>1, <1>3, <1>4

\* The claim invariant is inductive.
LEMMA ClaimInit == Init => ClaimInv
<1>. SUFFICES ASSUME Init PROVE ClaimInv OBVIOUS
<1>1. CacheIsCurrent BY DEF Init, CacheIsCurrent
<1>2. \A m \in Machines : fresh[m] = {} BY NamesAssumption DEF Init, Readers
<1>3. CopyIsCurrent BY <1>2 DEF CopyIsCurrent, CopyOf
<1>4. LabelAgreesWithClaim BY DEF Init, LabelAgreesWithClaim, NewHost
<1>. QED BY <1>1, <1>3, <1>4, TypeInit DEF ClaimInv

\* Every step keeps ClaimInv.
LEMMA ClaimStep == ClaimInv /\ [Next]_vars => ClaimInv'
<1>. SUFFICES ASSUME ClaimInv, [Next]_vars PROVE ClaimInv' OBVIOUS
<1>1. TypeOK' /\ WorkShape' BY TypeStep DEF ClaimInv
<1>2. CacheIsCurrent' /\ CopyIsCurrent' /\ LabelAgreesWithClaim'
  <2>1. CASE UNCHANGED vars
    BY <2>1 DEF vars, ClaimInv, CacheIsCurrent, CopyIsCurrent, CopyOf, LabelAgreesWithClaim
  <2>2. ASSUME NEW m \in Machines, MachineStep(m)
        PROVE  CacheIsCurrent' /\ CopyIsCurrent' /\ LabelAgreesWithClaim'
    BY <2>2, ClaimStepsKeepClaims, BootstrapStepsKeepClaims, ReleaseStepsKeepClaims
       DEF MachineStep
  <2>. QED BY <2>1, <2>2, HostStepsKeepClaims, EnvironmentKeepsClaims DEF Next
<1>. QED BY <1>1, <1>2 DEF ClaimInv

\* Whatever fails, is delayed or is raced: the label and the claimRef of a
\* Host never name two different machines.
THEOREM LabelsAgree == Spec => []LabelAgreesWithClaim
<1>1. ClaimInv => LabelAgreesWithClaim BY DEF ClaimInv
<1>. QED BY <1>1, ClaimInit, ClaimStep, PTL DEF Spec

\* A reconcile whose copy of a Host still carries the server's version relies on
\* nothing about it that has changed: what the version check of r.Update is for.
THEOREM CopiesAreCurrent == Spec => []CopyIsCurrent
<1>1. ClaimInv => CopyIsCurrent BY DEF ClaimInv
<1>. QED BY <1>1, ClaimInit, ClaimStep, PTL DEF Spec

-----------------------------------------------------------------------------
(* HostPool implements HostLedger, for every set of Faults.                *)

\* What a write of one Host does to the ledger.
LEMMA LedgerWrite ==
    ASSUME TypeOK, NEW h \in Hosts, NEW r \in HostObjects, host' = [host EXCEPT ![h] = r]
    PROVE  /\ Listed'   = IF r.there THEN Listed \cup {h} ELSE Listed \ {h}
           /\ Reserved' = [Reserved EXCEPT ![h] = r.label]
           /\ Holder'   = [Holder EXCEPT ![h] = r.claim]
           /\ Ready'    = [Ready EXCEPT ![h] = r.there /\ r.claim = None /\ r.phase = "Available"]
BY DEF TypeOK, Listed, Reserved, Holder, Ready

\* What it does when the Host is not ready afterwards.
LEMMA LedgerUnready ==
    ASSUME TypeOK, NEW h \in Hosts, NEW r \in HostObjects, host' = [host EXCEPT ![h] = r],
           ~(r.there /\ r.claim = None /\ r.phase = "Available")
    PROVE  Ready' = [Ready EXCEPT ![h] = FALSE]
<1>. DEFINE ok == r.there /\ r.claim = None /\ r.phase = "Available"
<1>1. ok = FALSE OBVIOUS
<1>2. Ready' = [Ready EXCEPT ![h] = ok] BY LedgerWrite
<1>. HIDE DEF ok
<1>. QED BY <1>1, <1>2

\* The ledger's entry for a Host, read off the Host object.
LEMMA LedgerEntry ==
    ASSUME NEW h \in Hosts
    PROVE  /\ h \in Listed <=> host[h].there
           /\ Reserved[h] = host[h].label /\ Holder[h] = host[h].claim
           /\ Ready[h] = (host[h].there /\ host[h].claim = None /\ host[h].phase = "Available")
           /\ Reserved = [Reserved EXCEPT ![h] = host[h].label]
           /\ Holder = [Holder EXCEPT ![h] = host[h].claim]
           /\ Ready = [Ready EXCEPT ![h] = (host[h].there /\ host[h].claim = None /\ host[h].phase = "Available")]
BY DEF Listed, Reserved, Holder, Ready

\* A step that writes no Host leaves the ledger as it is.
LEMMA LedgerStutter ==
    ASSUME host' = host
    PROVE  UNCHANGED <<Listed, Reserved, Holder, Ready>>
BY DEF Listed, Reserved, Holder, Ready

\* A write that keeps label and claim is a verification, or no change at all.
LEMMA PhaseWrite ==
    ASSUME TypeOK, NEW h \in Hosts, NEW r \in HostObjects, host' = [host EXCEPT ![h] = r],
           host[h].there, r.there, r.label = host[h].label, r.claim = host[h].claim
    PROVE  [Ledger!Next]_(Ledger!ledger)
<1>. DEFINE ok == r.there /\ r.claim = None /\ r.phase = "Available"
<1>1. /\ Listed' = Listed /\ Reserved' = Reserved /\ Holder' = Holder
      /\ Ready' = [Ready EXCEPT ![h] = ok]
      /\ h \in Listed /\ Holder[h] = r.claim
  <2>1. h \in Listed /\ Holder[h] = r.claim BY LedgerEntry
  <2>2. Listed' = Listed \cup {h} BY LedgerWrite
  <2>3. Reserved' = Reserved /\ Holder' = Holder
    BY DEF TypeOK, Reserved, Holder
  <2>4. Ready' = [Ready EXCEPT ![h] = ok] BY LedgerWrite
  <2>. QED BY <2>1, <2>2, <2>3, <2>4
<1>2. CASE r.claim = None
  <2>1. Ledger!Verify(h, ok) BY <1>1, <1>2 DEF Ledger!Verify
  <2>2. ok \in BOOLEAN OBVIOUS
  <2>. QED BY <2>1, <2>2 DEF Ledger!Next
<1>3. CASE r.claim # None
  <2>1. ok = FALSE /\ Ready[h] = FALSE BY <1>3, LedgerEntry
  <2>2. Ready' = Ready BY <1>1, <1>3, <2>1, LedgerEntry
  <2>. QED BY <1>1, <2>2 DEF Ledger!ledger
<1>. QED BY <1>2, <1>3

-----------------------------------------------------------------------------

\* Every step of the pool is a step of the ledger, or changes nothing in it.
LEMMA LedgerMachineStep ==
    ASSUME ClaimInv, NEW m \in Machines, MachineStep(m)
    PROVE  [Ledger!Next]_(Ledger!ledger)
<1>. USE DEF ClaimInv
<1>. DEFINE t == work[m]
            h == t.host
<1>t. \A g \in Hosts : host[g] \in HostObjects BY DEF TypeOK
<1>m. m \in MachineOrNone /\ m # None /\ None \in MachineOrNone
  BY NamesAssumption DEF MachineOrNone
<1>u. UNCHANGED host => [Ledger!Next]_(Ledger!ledger)
  BY LedgerStutter DEF Ledger!ledger
<1>1. CASE LabelHost(m) /\ host' # host
  <2>. DEFINE g == First(t.todo)
              r == [host[g] EXCEPT !.label = m]
  <2>1. t.pc = "label" /\ g \in t.todo /\ g \in Hosts
    BY <1>1, FirstIsMember DEF LabelHost, TypeOK, WorkShape, WorkStates
  <2>2. MayUpdate(m, g) /\ host' = [host EXCEPT ![g] = r]
    BY <1>1 DEF LabelHost, Update, StoreHost
  <2>3. host[g].there /\ host[g].claim = None /\ host[g].phase = "Available"
    BY <2>1, <2>2 DEF MayUpdate, CopyIsCurrent, CopyOf
  <2>4. r \in HostObjects /\ r.there /\ r.label = m /\ r.claim = None /\ r.phase = "Available"
    BY <1>t, <1>m, <2>1, <2>3 DEF HostObjects
  <2>5. g \in Listed /\ Ready[g] /\ Holder[g] = None BY <2>1, <2>3, LedgerEntry
  <2>6. Listed' = Listed \cup {g} /\ Reserved' = [Reserved EXCEPT ![g] = m]
    <3>. HIDE DEF r
    <3>. QED BY <2>1, <2>2, <2>4, LedgerWrite
  <2>7. Holder' = Holder /\ Ready' = Ready
    BY <2>1, <2>2, <2>3, <2>4 DEF TypeOK, Holder, Ready
  <2>8. Ledger!Reserve(g, m) BY <2>5, <2>6, <2>7 DEF Ledger!Reserve
  <2>. QED BY <2>1, <2>8 DEF Ledger!Next
<1>2. CASE RecordClaim(m) /\ host' # host
  <2>. DEFINE r == [host[h] EXCEPT !.claim = m, !.phase = "Claimed"]
  <2>1. t.pc = "record" /\ h \in Hosts BY <1>2 DEF RecordClaim, WorkShape
  <2>2. MayUpdate(m, h) /\ host' = [host EXCEPT ![h] = r]
    BY <1>2 DEF RecordClaim, Update, StoreHost
  <2>3. host[h].there /\ host[h].claim = None /\ host[h].label = m
    BY <2>1, <2>2 DEF MayUpdate, CopyIsCurrent, CopyOf
  <2>4. r \in HostObjects /\ r.there /\ r.label = m /\ r.claim = m
    BY <1>t, <1>m, <2>1, <2>3 DEF HostObjects, Phases
  <2>5. h \in Listed /\ Reserved[h] = m /\ Holder[h] = None BY <2>1, <2>3, LedgerEntry
  <2>6. /\ Listed' = Listed \cup {h} /\ Holder' = [Holder EXCEPT ![h] = m]
        /\ Ready' = [Ready EXCEPT ![h] = FALSE]
    <3>. HIDE DEF r
    <3>1. Listed' = Listed \cup {h} /\ Holder' = [Holder EXCEPT ![h] = m]
      <4>1. Holder' = [Holder EXCEPT ![h] = r.claim] BY <2>1, <2>2, <2>4, LedgerWrite
      <4>2. Listed' = IF r.there THEN Listed \cup {h} ELSE Listed \ {h}
        BY <2>1, <2>2, <2>4, LedgerWrite
      <4>. HIDE DEF h
      <4>. QED BY <2>4, <4>1, <4>2
    <3>2. Ready' = [Ready EXCEPT ![h] = FALSE] BY <1>m, <2>1, <2>2, <2>4, LedgerUnready
    <3>. QED BY <3>1, <3>2
  <2>7. Reserved' = Reserved
    BY <2>1, <2>2, <2>3, <2>4 DEF TypeOK, Reserved
  <2>8. Ledger!Confirm(h, m) BY <2>5, <2>6, <2>7 DEF Ledger!Confirm
  <2>. QED BY <2>1, <2>8 DEF Ledger!Next
<1>3. CASE MarkProvisioned(m) /\ host' # host
  <2>. DEFINE r == [host[h] EXCEPT !.phase = "Provisioned"]
  <2>1. h \in Hosts /\ MayUpdate(m, h) /\ host' = [host EXCEPT ![h] = r]
    BY <1>3 DEF MarkProvisioned, WorkShape, Update, StoreHost
  <2>2. /\ r \in HostObjects /\ r.label = host[h].label /\ r.claim = host[h].claim
        /\ r.there = host[h].there
    BY <1>t, <1>m, <2>1 DEF HostObjects, Phases
  <2>. QED BY <2>1, <2>2, PhaseWrite DEF MayUpdate
<1>4. CASE UnlabelHost(m) /\ host' # host
  <2>. DEFINE r == [host[h] EXCEPT !.label = None]
  <2>1. h \in Hosts /\ MayUpdate(m, h) /\ host' = [host EXCEPT ![h] = r]
    BY <1>4 DEF UnlabelHost, WorkShape, Update, StoreHost
  <2>2. /\ r \in HostObjects /\ r.label = None /\ r.claim = host[h].claim
        /\ r.there = host[h].there /\ r.phase = host[h].phase
        /\ host[h].label = None => r = host[h]
    BY <1>t, <1>m, <2>1 DEF HostObjects, Phases
  <2>3. Reserved[h] # None
    <3>1. SUFFICES ASSUME host[h].label = None PROVE FALSE BY <2>1, LedgerEntry
    <3>2. r = host[h] BY <2>2, <3>1
    <3>3. host' = host BY <2>1, <3>2 DEF TypeOK
    <3>. QED BY <1>4, <3>3
  <2>4. Reserved' = [Reserved EXCEPT ![h] = None]
    <3>. HIDE DEF r
    <3>. QED BY <2>1, <2>2, LedgerWrite
  <2>5. Listed' = Listed /\ Holder' = Holder /\ Ready' = Ready
    BY <2>1, <2>2 DEF TypeOK, Listed, Holder, Ready
  <2>6. Ledger!Withdraw(h) BY <2>3, <2>4, <2>5 DEF Ledger!Withdraw
  <2>. QED BY <2>1, <2>6 DEF Ledger!Next
<1>5. CASE UnclaimHost(m) /\ host' # host
  <2>. DEFINE r == [host[h] EXCEPT !.claim = None, !.phase = "Pending", !.reset = t.cond]
  <2>1. /\ t.pc = "unclaim" /\ h \in Hosts /\ MayUpdate(m, h) /\ host' = [host EXCEPT ![h] = r]
        /\ t \in WorkStates
    BY <1>5 DEF UnclaimHost, WorkShape, Update, StoreHost, TypeOK
  <2>2. host[h].label = None /\ host[h].there
    BY <2>1 DEF MayUpdate, CopyIsCurrent, CopyOf
  <2>3. t.cond \in {"none", "clean", "unverified"} BY <2>1 DEF WorkStates, ResetStates
  <2>4. r \in HostObjects /\ r.label = None /\ r.claim = None /\ r.there /\ r.phase = "Pending"
    BY <1>t, <1>m, <2>1, <2>2, <2>3 DEF HostObjects, ResetStates, Phases
  <2>5. /\ Holder' = [Holder EXCEPT ![h] = None] /\ Ready' = [Ready EXCEPT ![h] = FALSE]
        /\ Listed' = Listed \cup {h}
    <3>. HIDE DEF r
    <3>1. Listed' = Listed \cup {h} /\ Holder' = [Holder EXCEPT ![h] = None]
      <4>1. Holder' = [Holder EXCEPT ![h] = r.claim] BY <2>1, <2>4, LedgerWrite
      <4>2. Listed' = IF r.there THEN Listed \cup {h} ELSE Listed \ {h}
        BY <2>1, <2>4, LedgerWrite
      <4>. HIDE DEF h
      <4>. QED BY <2>4, <4>1, <4>2
    <3>2. Ready' = [Ready EXCEPT ![h] = FALSE]
      <4>1. r.phase # "Available" BY <2>4
      <4>. QED BY <2>1, <2>4, <4>1, LedgerUnready
    <3>. QED BY <3>1, <3>2
  <2>6. h \in Listed /\ Reserved[h] = None BY <2>1, <2>2, LedgerEntry
  <2>7. Reserved' = Reserved BY <2>1, <2>2, <2>4 DEF TypeOK, Reserved
  <2>8. Ledger!GiveUp(h) BY <2>5, <2>6, <2>7 DEF Ledger!GiveUp
  <2>. QED BY <2>1, <2>8 DEF Ledger!Next
<1>6. CASE host' = host BY <1>6, <1>u
<1>7. CASE /\ host' # host
           /\ ~(LabelHost(m) \/ RecordClaim(m) \/ MarkProvisioned(m) \/ UnlabelHost(m)
                \/ UnclaimHost(m))
  BY <1>7 DEF MachineStep, WaitForDependency, UseHostRef, RecoverClaim, RecoverLabel,
     ChooseHost, BootstrapUnavailable, RunBootstrap, PatchMeta, PatchStatus, PatchFails,
     BeginDelete, ResetHost
<1>. QED BY <1>1, <1>2, <1>3, <1>4, <1>5, <1>6, <1>7

\* Every step of HostReconciler and of the environment is a step of the ledger.
LEMMA LedgerOtherStep ==
    ASSUME ClaimInv,
           \/ \E m \in Machines : CreateMachine(m) \/ DeleteMachine(m) \/ SyncMachine(m)
           \/ \E h \in Hosts : \/ HostStep(h) \/ RunEnds(h) \/ DeleteHost(h)
                               \/ SetUnhealthy(h) \/ SyncHost(h)
           \/ Crash \/ Move
    PROVE  [Ledger!Next]_(Ledger!ledger)
<1>. USE DEF ClaimInv
<1>t. \A g \in Hosts : host[g] \in HostObjects BY DEF TypeOK
<1>u. UNCHANGED host => [Ledger!Next]_(Ledger!ledger)
  BY LedgerStutter DEF Ledger!ledger
<1>g. ASSUME NEW h \in Hosts, StoreHost(h, GoneHost) PROVE [Ledger!Next]_(Ledger!ledger)
  <2>1. ~GoneHost.there /\ GoneHost.label = None /\ GoneHost.claim = None
    BY DEF GoneHost, NewHost
  <2>2. Ledger!Unlist(h)
    <3>1. GoneHost \in HostObjects /\ host' = [host EXCEPT ![h] = GoneHost]
      BY <1>g, RecordTypes DEF StoreHost
    <3>2. /\ Listed' = Listed \ {h} /\ Reserved' = [Reserved EXCEPT ![h] = None]
          /\ Holder' = [Holder EXCEPT ![h] = None]
      <4>1. Listed' = IF GoneHost.there THEN Listed \cup {h} ELSE Listed \ {h}
        BY <3>1, LedgerWrite
      <4>2. Reserved' = [Reserved EXCEPT ![h] = GoneHost.label] BY <3>1, LedgerWrite
      <4>3. Holder' = [Holder EXCEPT ![h] = GoneHost.claim] BY <3>1, LedgerWrite
      <4>. QED BY <2>1, <4>1, <4>2, <4>3
    <3>3. Ready' = [Ready EXCEPT ![h] = FALSE] BY <2>1, <3>1, LedgerUnready
    <3>. QED BY <3>2, <3>3 DEF Ledger!Unlist
  <2>. QED BY <2>2 DEF Ledger!Next
<1>p. ASSUME NEW h \in Hosts, NEW r \in HostObjects, StoreHost(h, r), host[h].there, r.there,
             r.label = host[h].label, r.claim = host[h].claim
      PROVE  [Ledger!Next]_(Ledger!ledger)
  BY <1>p, PhaseWrite DEF StoreHost
<1>1. ASSUME NEW h \in Hosts, AddHostFinalizer(h) PROVE [Ledger!Next]_(Ledger!ledger)
  <2>. DEFINE r == [host[h] EXCEPT !.fin = TRUE]
  <2>1. r \in HostObjects /\ r.label = host[h].label /\ r.claim = host[h].claim /\ r.there = host[h].there
    BY <1>t DEF HostObjects
  <2>. QED BY <1>1, <1>p, <2>1 DEF AddHostFinalizer
<1>2. ASSUME NEW h \in Hosts, PatchesStatus(h) PROVE [Ledger!Next]_(Ledger!ledger)
  BY <1>2, <1>p, <1>u, StatusPatch DEF SameHolder
<1>3. ASSUME NEW h \in Hosts, EndHostDelete(h) PROVE [Ledger!Next]_(Ledger!ledger)
  BY <1>3, <1>g, <1>u DEF EndHostDelete
<1>4. ASSUME NEW h \in Hosts, DeleteHost(h) PROVE [Ledger!Next]_(Ledger!ledger)
  <2>. DEFINE r == [host[h] EXCEPT !.deleting = TRUE]
  <2>1. r \in HostObjects /\ r.label = host[h].label /\ r.claim = host[h].claim /\ r.there = host[h].there
    BY <1>t DEF HostObjects
  <2>2. CASE StoreHost(h, r) BY <1>4, <1>p, <2>1, <2>2 DEF DeleteHost
  <2>3. CASE StoreHost(h, GoneHost) BY <1>g, <2>3
  <2>. QED BY <1>4, <2>2, <2>3 DEF DeleteHost
<1>5. ASSUME NEW h \in Hosts, SetUnhealthy(h) PROVE [Ledger!Next]_(Ledger!ledger)
  <2>. DEFINE r == [host[h] EXCEPT !.unhealthy = ~@]
  <2>1. r \in HostObjects /\ r.label = host[h].label /\ r.claim = host[h].claim /\ r.there = host[h].there
    BY <1>t DEF HostObjects
  <2>. QED BY <1>5, <1>p, <2>1 DEF SetUnhealthy
<1>6. CASE Crash BY <1>6, <1>u DEF Crash, Restart
<1>7. CASE Move
  <2>1. \A h \in Hosts : host'[h] = [host[h] EXCEPT !.claim = None, !.phase = "Pending",
                                                   !.waits = FALSE, !.reset = "none"]
    BY <1>7 DEF Move, Restart
  <2>2. \A h \in Hosts : /\ host'[h].there = host[h].there /\ host'[h].label = host[h].label
                        /\ host'[h].claim = None /\ host'[h].phase = "Pending"
    BY <1>t, <2>1 DEF HostObjects
  <2>3. Listed' = Listed /\ Reserved' = Reserved BY <2>2 DEF Listed, Reserved
  <2>4. Holder' = [h \in Hosts |-> None] /\ Ready' = [h \in Hosts |-> FALSE]
    BY <2>2 DEF Holder, Ready
  <2>. QED BY <2>3, <2>4 DEF Ledger!Carry, Ledger!Next
<1>8. CASE \E m \in Machines : CreateMachine(m) \/ DeleteMachine(m) \/ SyncMachine(m)
  BY <1>8, <1>u DEF CreateMachine, DeleteMachine, SyncMachine
<1>. QED BY <1>1, <1>2, <1>3, <1>4, <1>5, <1>6, <1>7, <1>8, <1>u
     DEF HostStep, PatchesStatus, BeginProbe, BeginHostDelete, RunEnds, SyncHost

\* The pool starts as the ledger does.
LEMMA LedgerInit == Init => Ledger!Init
BY DEF Init, Ledger!Init, Listed, Reserved, Holder, Ready, NewHost

\* The reconcilers implement the ledger: with stale caches, lost patches,
\* crashes and moves, each write of a Host is one atomic ledger step, made
\* only when the Host on the server permits it.
THEOREM PoolImplementsLedger == Spec => ImplementsLedger
<1>1. ClaimInv /\ [Next]_vars => [Ledger!Next]_(Ledger!ledger)
  <2>1. ASSUME UNCHANGED vars PROVE [Ledger!Next]_(Ledger!ledger)
    BY <2>1, LedgerStutter DEF vars, Ledger!ledger
  <2>. QED BY <2>1, LedgerMachineStep, LedgerOtherStep DEF Next
<1>. QED BY <1>1, ClaimInit, ClaimStep, LedgerInit, PTL DEF Spec, ImplementsLedger, Ledger!Spec

\* A claim passes to another machine only through the Host being free.
THEOREM ClaimsAreNotStolen == Spec => ClaimNeverStolen
<1>. DEFINE Kept == \A h \in Hosts : host[h].claim # None =>
                        host'[h].claim \in {host[h].claim, None}
<1>1. ClaimInv /\ [Next]_vars => [Kept]_vars
  <2>. SUFFICES ASSUME ClaimInv, [Next]_vars PROVE Kept OBVIOUS
  <2>1. [Ledger!Next]_(Ledger!ledger)
    <3>1. ASSUME UNCHANGED vars PROVE [Ledger!Next]_(Ledger!ledger)
      BY <3>1, LedgerStutter DEF vars, Ledger!ledger
    <3>. QED BY <3>1, LedgerMachineStep, LedgerOtherStep DEF Next
  <2>2. \A h \in Hosts : Holder[h] # None => Holder'[h] \in {Holder[h], None}
    <3>1. CASE UNCHANGED Holder BY <3>1
    <3>2. ASSUME NEW g \in Hosts, NEW m \in Machines, Ledger!Confirm(g, m)
          PROVE  \A h \in Hosts : Holder[h] # None => Holder'[h] \in {Holder[h], None}
      BY <3>2 DEF Ledger!Confirm, Holder
    <3>3. ASSUME NEW g \in Hosts, Ledger!GiveUp(g) \/ Ledger!Unlist(g)
          PROVE  \A h \in Hosts : Holder[h] # None => Holder'[h] \in {Holder[h], None}
      BY <3>3 DEF Ledger!GiveUp, Ledger!Unlist, Holder
    <3>4. CASE Ledger!Carry BY <3>4 DEF Ledger!Carry
    <3>. QED BY <2>1, <3>1, <3>2, <3>3, <3>4
         DEF Ledger!Next, Ledger!ledger, Ledger!Reserve, Ledger!Withdraw, Ledger!Verify
  <2>. QED BY <2>2 DEF Holder
<1>. QED BY <1>1, ClaimInit, ClaimStep, PTL DEF Spec, ClaimNeverStolen
=============================================================================
