----------------------- MODULE HostPoolServingProofs -----------------------
(***************************************************************************)
(* What a HostMachine may count on: the Host it refers to is claimed for   *)
(* it, its run is left alone, a Host that is handed on says whether it is  *)
(* clean, and it marks no second Host.  Proved for every set of Hosts and  *)
(* Machines, under the faults that leave each of them true.                *)
(***************************************************************************)
EXTENDS HostPoolProofs

\* No manager is stopped or loses a patch between two writes, HostMachines are read as
\* they are, and Hosts are not deleted.  Stale Hosts, hosts that do not answer, edits
\* of Hosts and moves are allowed.
Steady == Faults \cap {"crash", "patchError", "machineLag", "hostDelete"} = {}

Releasing == {"reset", "unlabel", "unclaim"}
InService(m) == machine[m].state \in {"live", "deleting"}

\* The reconcile has released its Host and is about to drop the finalizer.
Released(t) == t.pc = "patchMeta" /\ ~t.new.fin

\* The Hosts stay, and the HostMachines are cached as they are.
ThereInv ==
    /\ \A h \in Hosts : \A r \in {host[h], hostCache[h]} : r.there /\ ~r.deleting
    /\ \A h \in Hosts : probe[h].pc # "drop"
    /\ machineCache = machine
    /\ \A m \in Machines : machine[m].state = "deleting" => machine[m].fin

\* A HostMachine that is not there yet has left no trace; one that is there has claimed
\* the Host it refers to.
RefInv(m) ==
    /\ machine[m].state = "absent" =>
          \A h \in Hosts : m \notin {host[h].claim, hostCache[h].claim, disk[h].by}
    /\ InService(m) /\ machine[m].ref # None /\ ~Released(work[m])
          => host[machine[m].ref].claim = m

\* The claims of a live HostMachine are labelled and not given up, however old the
\* cache is.
ClaimedInv(m) ==
    machine[m].state = "live" =>
        \A h \in Hosts : /\ hostCache[h].claim = m => host[h].claim = m
                         /\ host[h].claim = m => host[h].label = m

\* After a move has dropped the claim, the label keeps others away from a Host that runs
\* a live HostMachine's bootstrap: no probe can call the Host Available.
LabelGuards(m, h) ==
    /\ hostCache[h].label = m /\ host[h].phase # "Available"
    /\ probe[h].pc = "probe" => probe[h].label = m

DiskInv(m) ==
    machine[m].state = "live" =>
        \A h \in Hosts : disk[h].by = m =>
            host[h].label = m /\ (host[h].claim = m \/ LabelGuards(m, h))

\* What a reconcile has done so far.
Good(m, t) ==
    /\ t.pc # "idle" =>
          /\ machine[m].state # "absent"
          /\ t.new.fin \/ (t.pc = "patchMeta" /\ machine[m].state = "deleting" /\ t.seen.fin)
          /\ t.new.ref \in {None, t.seen.ref} \/ host[t.new.ref].claim = m
    /\ t.pc \in Releasing \cup {"boot", "mark"} => host[t.host].claim = m
    /\ t.pc \in Releasing => machine[m].state = "deleting" /\ t.seen.fin
    /\ t.pc \in {"unlabel", "unclaim"} =>
          t.cond = "unverified" \/ (t.cond = "clean" /\ disk[t.host].by = None)

MachineInv(m) == RefInv(m) /\ ClaimedInv(m) /\ DiskInv(m) /\ Good(m, work[m])
ServingInv    == ClaimInv /\ ThereInv /\ \A m \in Machines : MachineInv(m)

-----------------------------------------------------------------------------
(* What a step must leave alone.                                           *)

\* Machine x is what it was, its claims stand, and a claim or a run it has now it either
\* had before or has come by properly.
Kept(x) ==
    /\ machine'[x].state = machine[x].state /\ machine'[x].ref = machine[x].ref
    /\ \A h \in Hosts :
          /\ host[h].claim = x => host'[h].claim = x
          /\ host'[h].claim = x => \/ host[h].claim = x
                                   \/ host'[h].label = x /\ machine[x].state # "absent"
          /\ disk'[h].by = x => \/ disk[h].by = x
                                \/ host'[h].claim = x /\ machine[x].state # "absent"
          /\ hostCache'[h] \in {hostCache[h], host'[h]}
    /\ machine[x].state = "live" =>
          \A h \in Hosts : host[h].label = x =>
             /\ host[h].claim = x => host'[h].label = x
             /\ disk[h].by = x /\ (host[h].claim = x \/ LabelGuards(x, h)) =>
                   /\ host'[h].label = x
                   /\ LabelGuards(x, h) =>
                         /\ host'[h].phase # "Available"
                         /\ probe'[h].pc = "probe" => probe'[h].label = x

\* Then what is known of its objects is kept,
LEMMA ObjectsKept ==
    ASSUME NEW x \in Machines, MachineInv(x), Kept(x), ThereInv,
           machine[x].ref \in HostOrNone,
           InService(x) /\ Released(work[x]) => Released(work'[x])
    PROVE  RefInv(x)' /\ ClaimedInv(x)' /\ DiskInv(x)'
<1>0. RefInv(x) /\ ClaimedInv(x) /\ DiskInv(x) BY DEF MachineInv
<1>1. RefInv(x)'
  <2>1. ASSUME machine[x].state = "absent", NEW h \in Hosts
        PROVE  x \notin {host'[h].claim, hostCache'[h].claim, disk'[h].by}
    BY <1>0, <2>1 DEF RefInv, Kept
  <2>2. ASSUME InService(x), machine[x].ref # None, ~Released(work'[x])
        PROVE  host'[machine[x].ref].claim = x
    <3>1. host[machine[x].ref].claim = x BY <1>0, <2>2 DEF RefInv
    <3>. QED BY <2>2, <3>1 DEF Kept, HostOrNone
  <2>. QED BY <2>1, <2>2 DEF RefInv, InService, Kept
<1>2. ClaimedInv(x)'
  <2>. SUFFICES ASSUME machine[x].state = "live", NEW h \in Hosts
                PROVE  /\ hostCache'[h].claim = x => host'[h].claim = x
                       /\ host'[h].claim = x => host'[h].label = x
    BY DEF ClaimedInv, Kept
  <2>. QED BY <1>0 DEF ClaimedInv, Kept
<1>3. DiskInv(x)'
  <2>. SUFFICES ASSUME machine[x].state = "live", NEW h \in Hosts, disk'[h].by = x
                PROVE  host'[h].label = x /\ (host'[h].claim = x \/ LabelGuards(x, h)')
    BY DEF DiskInv, Kept
  <2>1. CASE host'[h].claim = x BY <1>2, <2>1 DEF ClaimedInv, Kept
  <2>2. CASE host'[h].claim # x
    <3>1. disk[h].by = x /\ host[h].claim # x BY <2>2 DEF Kept
    <3>2. host[h].label = x /\ LabelGuards(x, h) BY <1>0, <3>1 DEF DiskInv
    <3>3. /\ host'[h].label = x /\ host'[h].phase # "Available"
          /\ probe'[h].pc = "probe" => probe'[h].label = x
          /\ hostCache'[h] \in {hostCache[h], host'[h]}
      BY <3>1, <3>2 DEF Kept
    <3>. QED BY <3>2, <3>3 DEF LabelGuards
  <2>. QED BY <2>1, <2>2
<1>. QED BY <1>1, <1>2, <1>3

\* and so is what its reconcile relies on.
LEMMA GoodKept ==
    ASSUME NEW x \in Machines, NEW t \in WorkStates, Good(x, t), Kept(x),
           t.pc \in Releasing \cup {"boot", "mark"} => t.host \in Hosts,
           t.pc \in {"unlabel", "unclaim"} /\ disk[t.host].by = None => disk'[t.host].by = None
    PROVE  /\ t.pc # "idle" =>
                 /\ machine'[x].state # "absent"
                 /\ t.new.fin \/ (t.pc = "patchMeta" /\ machine'[x].state = "deleting" /\ t.seen.fin)
                 /\ t.new.ref \in {None, t.seen.ref} \/ host'[t.new.ref].claim = x
           /\ t.pc \in Releasing \cup {"boot", "mark"} => host'[t.host].claim = x
           /\ t.pc \in Releasing => machine'[x].state = "deleting" /\ t.seen.fin
           /\ t.pc \in {"unlabel", "unclaim"} =>
                 t.cond = "unverified" \/ (t.cond = "clean" /\ disk'[t.host].by = None)
<1>1. t.new.ref \in HostOrNone BY DEF WorkStates, MachineObjects
<1>2. t.pc # "idle" => t.new.ref \in {None, t.seen.ref} \/ host'[t.new.ref].claim = x
  BY <1>1 DEF Good, Kept, HostOrNone
<1>3. t.pc \in Releasing \cup {"boot", "mark"} => host'[t.host].claim = x BY DEF Good, Kept
<1>4. /\ t.pc # "idle" =>
            /\ machine'[x].state # "absent"
            /\ t.new.fin \/ (t.pc = "patchMeta" /\ machine'[x].state = "deleting" /\ t.seen.fin)
      /\ t.pc \in Releasing => machine'[x].state = "deleting" /\ t.seen.fin
  BY DEF Good, Kept
<1>5. t.pc \in {"unlabel", "unclaim"} =>
         t.cond = "unverified" \/ (t.cond = "clean" /\ disk'[t.host].by = None)
  BY DEF Good
<1>. QED BY <1>2, <1>3, <1>4, <1>5

\* A machine that a step leaves alone.
LEMMA Bystander ==
    ASSUME ServingInv, NEW x \in Machines, Kept(x), work'[x] = work[x],
           \A h \in Hosts : host[h].claim = x /\ disk[h].by = None => disk'[h].by = None
    PROVE  MachineInv(x)'
<1>0. /\ MachineInv(x) /\ ThereInv /\ TypeOK /\ WorkShape /\ work[x] \in WorkStates
      /\ machine[x].ref \in HostOrNone
  BY DEF ServingInv, ClaimInv, TypeOK, MachineObjects
<1>1. RefInv(x)' /\ ClaimedInv(x)' /\ DiskInv(x)' BY <1>0, ObjectsKept
<1>. DEFINE t == work[x]
<1>2. /\ Good(x, t) /\ (t.pc \in Releasing \cup {"boot", "mark"} => t.host \in Hosts)
      /\ t.pc \in {"unlabel", "unclaim"} /\ disk[t.host].by = None => disk'[t.host].by = None
  BY <1>0 DEF MachineInv, Good, WorkShape, Releasing
<1>3. Good(x, work[x])'
  <2>. HIDE DEF t
  <2>1. t = work'[x] BY DEF t
  <2>. QED BY <1>0, <1>2, <2>1, GoodKept DEF Good, t
<1>. QED BY <1>1, <1>3 DEF MachineInv

-----------------------------------------------------------------------------
(* Steps that only read, and the ends of reconciles.                       *)

Returned(t) == IF t.seen = t.new THEN Idle
               ELSE [Idle EXCEPT !.pc = "patchMeta", !.seen = t.seen, !.new = t.new]

\* A reconcile that ends with a HostMachine in order leaves it in order.
LEMMA ReturnGood ==
    ASSUME NEW m \in Machines, NEW t, machine[m].state # "absent",
           t.new.fin \/ (machine[m].state = "deleting" /\ t.seen.fin),
           t.new.ref \in {None, t.seen.ref} \/ host[t.new.ref].claim = m
    PROVE  Good(m, Returned(t))
<1>1. \/ Returned(t) = Idle
      \/ /\ Returned(t).pc = "patchMeta" /\ Returned(t).seen = t.seen /\ Returned(t).new = t.new
  BY DEF Returned, Idle
<1>. QED BY <1>1 DEF Good, Idle, Releasing

\* A step of m's reconcile that writes nothing.
LEMMA QuietServing ==
    ASSUME ServingInv, NEW m \in Machines, NEW t \in WorkStates,
           UNCHANGED <<host, machine, hostCache, machineCache, probe, disk>>,
           work' = [work EXCEPT ![m] = t], Good(m, t),
           t.pc \in Releasing \cup {"boot", "mark"} => t.host \in Hosts,
           InService(m) => ~Released(work[m])
    PROVE  ThereInv' /\ \A x \in Machines : MachineInv(x)'
<1>0. ThereInv /\ TypeOK /\ work \in [Machines -> WorkStates] BY DEF ServingInv, ClaimInv, TypeOK
<1>1. ThereInv' BY <1>0 DEF ThereInv
<1>2. \A x \in Machines : Kept(x) BY DEF Kept, LabelGuards
<1>3. \A x \in Machines \ {m} : MachineInv(x)' BY <1>0, <1>2, Bystander
<1>4. MachineInv(m)'
  <2>1. machine[m].ref \in HostOrNone /\ MachineInv(m)
    BY <1>0 DEF ServingInv, TypeOK, MachineObjects
  <2>2. RefInv(m)' /\ ClaimedInv(m)' /\ DiskInv(m)' BY <1>0, <1>2, <2>1, ObjectsKept
  <2>3. work'[m] = t BY <1>0
  <2>4. Good(m, work[m])' BY <2>3 DEF Good
  <2>. QED BY <2>2, <2>4 DEF MachineInv
<1>. QED BY <1>1, <1>3, <1>4

\* What is known of m's own reconcile.
LEMMA Own ==
    ASSUME ServingInv, NEW m \in Machines
    PROVE  /\ TypeOK /\ WorkShape /\ ThereInv /\ MachineInv(m) /\ CopyOf(m) /\ LabelAgreesWithClaim
           /\ work[m] \in WorkStates /\ work[m].new \in MachineObjects /\ work[m].seen \in MachineObjects
           /\ work[m].pc \in Releasing \cup {"boot", "mark", "record"} => work[m].host \in Hosts
           /\ machine[m] \in MachineObjects /\ machineCache[m] = machine[m]
           /\ m # None /\ \A h \in Hosts : host[h] \in HostObjects /\ hostCache[h] \in HostObjects
<1>1. TypeOK /\ WorkShape /\ ThereInv /\ MachineInv(m) /\ CopyOf(m) /\ LabelAgreesWithClaim
  BY DEF ServingInv, ClaimInv, CopyIsCurrent
<1>2. work[m] \in WorkStates /\ machine[m] \in MachineObjects BY <1>1 DEF TypeOK
<1>3. work[m].pc \in Releasing \cup {"boot", "mark", "record"} => work[m].host \in Hosts
  BY <1>1 DEF WorkShape, Releasing
<1>4. work[m].new \in MachineObjects /\ work[m].seen \in MachineObjects BY <1>2 DEF WorkStates
<1>5. m # None BY NamesAssumption
<1>. QED BY <1>1, <1>2, <1>3, <1>4, <1>5 DEF ThereInv, TypeOK

\* m's reconcile returns, with nothing written in this step.
LEMMA QuietReturn ==
    ASSUME ServingInv, NEW m \in Machines, NEW t \in WorkStates,
           UNCHANGED <<host, machine, hostCache, machineCache, probe, disk>>,
           Return(m, t), machine[m].state # "absent", ~Released(work[m]),
           t.new.fin \/ (machine[m].state = "deleting" /\ t.seen.fin),
           t.new.ref \in {None, t.seen.ref} \/ host[t.new.ref].claim = m
    PROVE  ThereInv' /\ \A x \in Machines : MachineInv(x)'
<1>1. Good(m, Returned(t)) BY ReturnGood
<1>2. Returned(t) \in WorkStates /\ Returned(t).pc \in {"idle", "patchMeta"}
  BY RecordTypes DEF Returned, WorkStates, Idle, Steps
<1>3. work' = [work EXCEPT ![m] = Returned(t)] BY DEF Return, Returned
<1>. QED BY <1>1, <1>2, <1>3, QuietServing DEF Releasing

\* The reconcile that is under way returns.
LEMMA WorkReturns ==
    ASSUME ServingInv, NEW m \in Machines,
           UNCHANGED <<host, machine, hostCache, machineCache, probe, disk>>,
           Return(m, work[m]), work[m].pc \notin {"idle", "patchMeta", "patchStatus"}
    PROVE  ThereInv' /\ \A x \in Machines : MachineInv(x)'
<1>1. Good(m, work[m]) /\ work[m] \in WorkStates BY Own DEF MachineInv
<1>2. /\ machine[m].state # "absent" /\ work[m].new.fin
      /\ work[m].new.ref \in {None, work[m].seen.ref} \/ host[work[m].new.ref].claim = m
  BY <1>1 DEF Good
<1>. QED BY <1>1, <1>2, QuietReturn DEF Released

\* The reconcile of a live HostMachine begins.
LEMMA BeginServing ==
    ASSUME ServingInv, NEW m \in Machines, BeginsNormal(m)
    PROVE  /\ Begin(m) \in WorkStates /\ machine[m].state = "live" /\ ~Released(work[m])
           /\ Begin(m).seen = machine[m] /\ Begin(m).new.fin /\ Begin(m).new.ref = machine[m].ref
           /\ machine[m].ref \in HostOrNone
           /\ machine[m].ref # None => host[machine[m].ref].claim = m
<1>0. TypeOK /\ machine[m] \in MachineObjects /\ machineCache[m] = machine[m] /\ MachineInv(m)
  BY Own
<1>1. Begin(m) \in WorkStates /\ machine[m].state = "live" /\ ~Released(work[m])
  BY <1>0, BeginTyped DEF BeginsNormal, Released
<1>2. Begin(m).seen = machine[m] /\ Begin(m).new = [machine[m] EXCEPT !.fin = TRUE]
  BY <1>0 DEF Begin, Idle
<1>3. Begin(m).new.fin /\ Begin(m).new.ref = machine[m].ref BY <1>0, <1>2 DEF MachineObjects
<1>4. machine[m].ref \in HostOrNone /\ (machine[m].ref # None => host[machine[m].ref].claim = m)
  BY <1>0, <1>1 DEF MachineInv, RefInv, InService, MachineObjects
<1>. QED BY <1>1, <1>2, <1>3, <1>4

\* Finding a Host: a claim that is found is there, however old the cache.
LEMMA FindSteps ==
    ASSUME ServingInv, NEW m \in Machines,
           \/ WaitForDependency(m) \/ UseHostRef(m) \/ RecoverClaim(m) \/ RecoverLabel(m)
           \/ ChooseHost(m)
    PROVE  ThereInv' /\ \A x \in Machines : MachineInv(x)'
<1>. DEFINE b == Begin(m)
            r == machine[m].ref
<1>0. /\ BeginsNormal(m) /\ UNCHANGED <<host, machine, hostCache, machineCache, probe, disk>>
  BY DEF WaitForDependency, UseHostRef, RecoverClaim, RecoverLabel, ChooseHost
<1>1. /\ b \in WorkStates /\ machine[m].state = "live" /\ ~Released(work[m])
      /\ b.seen = machine[m] /\ b.new.fin /\ b.new.ref = r /\ r \in HostOrNone
      /\ r # None => host[r].claim = m
  BY <1>0, BeginServing
<1>2. ThereInv /\ MachineInv(m) /\ TypeOK /\ machineCache[m] = machine[m] BY Own
<1>3. CASE Return(m, b) BY <1>0, <1>1, <1>3, QuietReturn
<1>4. CASE UseHostRef(m)
  <2>1. r # None /\ r \in Hosts /\ hostCache[r].there
    BY <1>1, <1>2, <1>4 DEF UseHostRef, HostOrNone, ThereInv
  <2>. DEFINE t == [b EXCEPT !.pc = "boot", !.host = r]
  <2>2. t \in WorkStates /\ t.pc = "boot" /\ t.host = r /\ t.new = b.new /\ t.seen = b.seen
    BY <1>1, <2>1 DEF WorkStates, Steps, HostOrNone
  <2>3. work' = [work EXCEPT ![m] = t] BY <1>2, <1>4, <2>1 DEF UseHostRef, Become
  <2>4. Good(m, t) BY <1>1, <2>1, <2>2 DEF Good, Releasing
  <2>. HIDE DEF t
  <2>. QED BY <1>0, <1>1, <2>1, <2>2, <2>3, <2>4, QuietServing
<1>5. CASE RecoverClaim(m)
  <2>. DEFINE h == First(ClaimedFor(m))
              t == [b EXCEPT !.pc = "boot", !.host = h, !.new.ref = h]
  <2>1. h \in ClaimedFor(m) /\ h \in Hosts /\ r = None
    BY <1>2, <1>5, FirstIsMember DEF RecoverClaim, ClaimedFor
  <2>2. host[h].claim = m BY <1>1, <1>2, <2>1 DEF ClaimedFor, MachineInv, ClaimedInv
  <2>. HIDE DEF h
  <2>3. /\ t \in WorkStates /\ t.pc = "boot" /\ t.host = h /\ t.seen = b.seen
        /\ t.new.fin /\ t.new.ref = h
    BY <1>1, <2>1 DEF WorkStates, Steps, HostOrNone, MachineObjects
  <2>4. work' = [work EXCEPT ![m] = t] BY <1>5 DEF RecoverClaim, Become, h
  <2>5. Good(m, t) BY <1>1, <2>1, <2>2, <2>3 DEF Good, Releasing
  <2>. HIDE DEF t
  <2>. QED BY <1>0, <1>1, <2>1, <2>3, <2>4, <2>5, QuietServing
<1>6. CASE RecoverLabel(m)
  <2>. DEFINE h == First(LabelledFor(m))
              t == [b EXCEPT !.pc = "record", !.host = h]
  <2>1. h \in Hosts BY <1>6, FirstIsMember DEF RecoverLabel, LabelledFor
  <2>. HIDE DEF h
  <2>2. t \in WorkStates /\ t.pc = "record" /\ t.new = b.new /\ t.seen = b.seen
    BY <1>1, <2>1 DEF WorkStates, Steps, HostOrNone
  <2>3. work' = [work EXCEPT ![m] = t] BY <1>6 DEF RecoverLabel, Become, h
  <2>4. Good(m, t) BY <1>1, <2>2 DEF Good, Releasing
  <2>. HIDE DEF t
  <2>. QED BY <1>0, <1>1, <2>2, <2>3, <2>4, QuietServing DEF Releasing
<1>7. CASE ChooseHost(m)
  <2>. DEFINE t == [b EXCEPT !.pc = "label", !.todo = FreeFor(m)]
  <2>1. FreeFor(m) \in SUBSET Hosts BY SelectorAssumption DEF FreeFor
  <2>2. t \in WorkStates /\ t.pc = "label" /\ t.new = b.new /\ t.seen = b.seen
    BY <1>1, <2>1 DEF WorkStates, Steps
  <2>3. Good(m, t) BY <1>1, <2>2 DEF Good, Releasing
  <2>4. Return(m, b) \/ work' = [work EXCEPT ![m] = t] BY <1>7 DEF ChooseHost, Become
  <2>. HIDE DEF t
  <2>. QED BY <1>0, <1>1, <1>3, <2>2, <2>3, <2>4, QuietServing DEF Releasing
<1>. QED BY <1>3, <1>4, <1>5, <1>6, <1>7 DEF WaitForDependency

-----------------------------------------------------------------------------
(* Steps that write a Host.                                                *)

\* What a write of Host h changes.
LEMMA StoreEffect ==
    ASSUME TypeOK, ThereInv, NEW h \in Hosts, NEW r, StoreHost(h, r)
    PROVE  /\ host'[h] = r /\ \A g \in Hosts \ {h} : host'[g] = host[g]
           /\ \A g \in Hosts : hostCache'[g] \in {hostCache[g], host'[g]}
           /\ r.there /\ ~r.deleting =>
                 \A g \in Hosts : \A o \in {host'[g], hostCache'[g]} : o.there /\ ~o.deleting
<1>1. /\ host'[h] = r /\ \A g \in Hosts \ {h} : host'[g] = host[g] BY DEF StoreHost, TypeOK
<1>2. \A g \in Hosts : hostCache'[g] \in {hostCache[g], host'[g]}
  <2>. SUFFICES ASSUME NEW g \in Hosts PROVE hostCache'[g] \in {hostCache[g], host'[g]}
    OBVIOUS
  <2>. QED BY <1>1 DEF StoreHost, TypeOK
<1>3. ASSUME r.there, ~r.deleting, NEW g \in Hosts
      PROVE  \A o \in {host'[g], hostCache'[g]} : o.there /\ ~o.deleting
  <2>1. \A o \in {host[g], hostCache[g], r} : o.there /\ ~o.deleting BY <1>3 DEF ThereInv
  <2>2. host'[g] \in {host[g], r} BY <1>1
  <2>. QED BY <1>2, <2>1, <2>2
<1>. QED BY <1>1, <1>2, <1>3

\* The machines whose claim it is not are left alone, if it does not hide their label or
\* call Available what their label guards.
LEMMA OthersOfWrite ==
    ASSUME ServingInv, NEW X \in SUBSET Machines, NEW h \in Hosts, NEW r, StoreHost(h, r),
           UNCHANGED <<machine, probe, disk>>,
           \A x \in X : /\ work'[x] = work[x]
                        /\ r.claim = x <=> host[h].claim = x
                        /\ host[h].label = x /\ (host[h].claim = x \/ LabelGuards(x, h))
                              => /\ r.label = x
                                 /\ r.phase = host[h].phase \/ r.phase # "Available"
    PROVE  \A x \in X : MachineInv(x)'
<1>0. TypeOK /\ ThereInv BY DEF ServingInv, ClaimInv
<1>1. /\ host'[h] = r /\ \A g \in Hosts \ {h} : host'[g] = host[g]
      /\ \A g \in Hosts : hostCache'[g] \in {hostCache[g], host'[g]}
  BY <1>0, StoreEffect
<1>2. ASSUME NEW x \in X PROVE Kept(x)
  <2>1. \A g \in Hosts : /\ host[g].claim = x <=> host'[g].claim = x
                         /\ disk'[g].by = disk[g].by
    BY <1>1
  <2>2. ASSUME NEW g \in Hosts, host[g].label = x, host[g].claim = x \/ LabelGuards(x, g)
        PROVE  /\ host'[g].label = x
               /\ LabelGuards(x, g) =>
                     /\ host'[g].phase # "Available"
                     /\ probe'[g].pc = "probe" => probe'[g].label = x
    <3>1. CASE g = h BY <1>1, <2>2, <3>1 DEF LabelGuards
    <3>2. CASE g # h BY <1>1, <2>2, <3>2 DEF LabelGuards
    <3>. QED BY <3>1, <3>2
  <2>. QED BY <1>1, <2>1, <2>2 DEF Kept
<1>. QED BY <1>2, Bystander

\* LabelHost: the Host is Available and unclaimed, so it runs nothing of a live machine
\* that its label would have to guard.
LEMMA LabelServing ==
    ASSUME ServingInv, NEW m \in Machines, LabelHost(m)
    PROVE  ThereInv' /\ \A x \in Machines : MachineInv(x)'
<1>. DEFINE t == work[m]
            h == First(t.todo)
            r == [host[h] EXCEPT !.label = m]
            u == [t EXCEPT !.pc = "record", !.host = h, !.todo = {}]
            v == [t EXCEPT !.todo = t.todo \ {h}]
<1>0. /\ TypeOK /\ WorkShape /\ ThereInv /\ MachineInv(m) /\ CopyOf(m) /\ t \in WorkStates
      /\ t.pc = "label" /\ m # None /\ Good(m, t) /\ work \in [Machines -> WorkStates]
  BY Own DEF LabelHost, MachineInv, TypeOK
<1>1. h \in t.todo /\ h \in Hosts /\ UNCHANGED <<machine, machineCache, probe, disk>>
  BY <1>0, FirstIsMember DEF LabelHost, WorkShape, WorkStates
<1>2. CASE Return(m, t) /\ UNCHANGED <<host, hostCache>> BY <1>0, <1>1, <1>2, WorkReturns
<1>3. CASE Become(m, v) /\ UNCHANGED <<host, hostCache>>
  <2>1. v \in WorkStates /\ v.pc = "label" /\ v.new = t.new /\ v.seen = t.seen
    BY <1>0 DEF WorkStates
  <2>2. Good(m, v) BY <1>0, <2>1 DEF Good, Releasing
  <2>3. work' = [work EXCEPT ![m] = v] BY <1>3 DEF Become
  <2>. HIDE DEF v
  <2>. QED BY <1>0, <1>1, <1>3, <2>1, <2>2, <2>3, QuietServing DEF Releasing, Released
<1>4. CASE Update(m, h, r, {h}) /\ Become(m, u)
  <2>1. StoreHost(h, r) /\ host[h].claim = None /\ host[h].phase = "Available" /\ host[h] \in HostObjects
    BY <1>0, <1>1, <1>4 DEF Update, MayUpdate, CopyOf, TypeOK
  <2>2. /\ r.claim = None /\ r.label = m /\ r.phase = "Available" /\ r.there = host[h].there
        /\ r.deleting = host[h].deleting
    BY <2>1 DEF HostObjects
  <2>. HIDE DEF h, r
  <2>3. /\ host'[h] = r /\ \A g \in Hosts \ {h} : host'[g] = host[g]
        /\ \A g \in Hosts : hostCache'[g] \in {hostCache[g], host'[g]}
    BY <1>0, <1>1, <2>1, StoreEffect
  <2>4. ThereInv'
    <3>1. r.there /\ ~r.deleting BY <1>0, <1>1, <2>2 DEF ThereInv
    <3>2. \A g \in Hosts : \A o \in {host'[g], hostCache'[g]} : o.there /\ ~o.deleting
      BY <1>0, <1>1, <2>1, <3>1, StoreEffect
    <3>. QED BY <1>0, <1>1, <3>2 DEF ThereInv
  <2>5. \A x \in Machines \ {m} : MachineInv(x)'
    <3>1. \A x \in Machines \ {m} :
             /\ work'[x] = work[x]
             /\ r.claim = x <=> host[h].claim = x
             /\ ~(host[h].claim = x \/ LabelGuards(x, h))
      BY <1>0, <1>4, <2>1, <2>2, NamesAssumption DEF Become, LabelGuards
    <3>. QED BY <1>1, <2>1, <3>1, OthersOfWrite
  <2>6. MachineInv(m)'
    <3>1. Kept(m)
      <4>1. /\ \A g \in Hosts : /\ host'[g].claim = host[g].claim /\ disk'[g] = disk[g]
                                /\ host'[g].phase = host[g].phase /\ probe'[g] = probe[g]
                                /\ host[g].label = m => host'[g].label = m
        BY <1>1, <2>1, <2>2, <2>3
      <4>. QED BY <1>1, <2>3, <4>1 DEF Kept, LabelGuards
    <3>2. machine[m].ref \in HostOrNone /\ ~Released(work[m])
      BY <1>0, Own DEF MachineObjects, Released
    <3>3. RefInv(m)' /\ ClaimedInv(m)' /\ DiskInv(m)' BY <1>0, <3>1, <3>2, ObjectsKept
    <3>4. u \in WorkStates /\ u.pc = "record" /\ u.new = t.new /\ u.seen = t.seen
      BY <1>0, <1>1 DEF WorkStates, Steps, HostOrNone
    <3>5. Good(m, u) BY <1>0, <3>4 DEF Good, Releasing
    <3>6. work'[m] = u BY <1>0, <1>4 DEF Become
    <3>7. u.pc \notin Releasing \cup {"boot", "mark"} /\ u.pc \notin {"unlabel", "unclaim"}
      BY <3>4 DEF Releasing
    <3>. HIDE DEF u, t
    <3>8. Good(m, work[m])' BY <3>1, <3>4, <3>5, <3>6, <3>7, GoodKept DEF Good
    <3>. QED BY <3>3, <3>8 DEF MachineInv
  <2>. QED BY <2>4, <2>5, <2>6
<1>. QED BY <1>0, <1>1, <1>2, <1>3, <1>4 DEF LabelHost

\* m's own part of a step that writes Host h and takes no claim from m.
LEMMA OwnWrite ==
    ASSUME ServingInv, NEW m \in Machines, NEW h \in Hosts, NEW r, StoreHost(h, r),
           UNCHANGED <<machine, probe, disk>>, NEW u \in WorkStates,
           work' = [work EXCEPT ![m] = u], Good(m, u) \/ Good(m, work[m])', ~Released(work[m]),
           u.pc \in Releasing \cup {"boot", "mark"} => u.host \in Hosts,
           host[h].claim = m => r.claim = m,
           r.claim = m => host[h].claim = m \/ (r.label = m /\ machine[m].state # "absent"),
           machine[m].state = "live" /\ host[h].label = m
              => r.label = m /\ (r.phase = host[h].phase \/ r.phase # "Available")
    PROVE  MachineInv(m)'
<1>0. TypeOK /\ ThereInv /\ MachineInv(m) /\ machine[m].ref \in HostOrNone
  BY Own DEF MachineObjects
<1>1. /\ host'[h] = r /\ \A g \in Hosts \ {h} : host'[g] = host[g]
      /\ \A g \in Hosts : hostCache'[g] \in {hostCache[g], host'[g]}
  BY <1>0, StoreEffect
<1>2. Kept(m)
  <2>1. ASSUME NEW g \in Hosts
        PROVE  /\ host[g].claim = m => host'[g].claim = m
               /\ host'[g].claim = m => \/ host[g].claim = m
                                        \/ host'[g].label = m /\ machine[m].state # "absent"
               /\ machine[m].state = "live" /\ host[g].label = m =>
                     /\ host'[g].label = m
                     /\ host'[g].phase = host[g].phase \/ host'[g].phase # "Available"
    <3>1. CASE g = h BY <1>1, <3>1
    <3>2. CASE g # h BY <1>1, <3>2
    <3>. QED BY <3>1, <3>2
  <2>. QED BY <1>1, <2>1 DEF Kept, LabelGuards
<1>3. RefInv(m)' /\ ClaimedInv(m)' /\ DiskInv(m)' BY <1>0, <1>2, ObjectsKept
<1>4. work'[m] = u BY <1>0 DEF TypeOK
<1>5. Good(m, work[m])'
  <2>1. CASE Good(m, u) BY <1>2, <1>4, <2>1, GoodKept DEF Good
  <2>. QED BY <2>1
<1>. QED BY <1>3, <1>5 DEF MachineInv

\* The Hosts are there after such a step.
LEMMA ThereAfterWrite ==
    ASSUME ServingInv, NEW h \in Hosts, NEW r, StoreHost(h, r),
           UNCHANGED <<machine, machineCache>>, \A g \in Hosts : probe'[g].pc # "drop",
           r.there = host[h].there, r.deleting = host[h].deleting
    PROVE  ThereInv'
<1>0. TypeOK /\ ThereInv BY DEF ServingInv, ClaimInv
<1>1. r.there /\ ~r.deleting BY <1>0 DEF ThereInv
<1>2. \A g \in Hosts : \A o \in {host'[g], hostCache'[g]} : o.there /\ ~o.deleting
  BY <1>0, <1>1, StoreEffect
<1>. QED BY <1>0, <1>2 DEF ThereInv

\* RecordClaim: the label is this machine's, and nobody has the claim.
LEMMA RecordServing ==
    ASSUME ServingInv, NEW m \in Machines, RecordClaim(m)
    PROVE  ThereInv' /\ \A x \in Machines : MachineInv(x)'
<1>. DEFINE t == work[m]
            h == t.host
            r == [host[h] EXCEPT !.claim = m, !.phase = "Claimed"]
            u == [t EXCEPT !.pc = "boot", !.new.ref = h]
<1>0. /\ TypeOK /\ ThereInv /\ CopyOf(m) /\ t \in WorkStates /\ h \in Hosts /\ Good(m, t)
      /\ t.pc = "record" /\ m # None /\ UNCHANGED <<machine, machineCache, probe, disk>>
      /\ work \in [Machines -> WorkStates]
  BY Own DEF RecordClaim, MachineInv, TypeOK
<1>1. CASE Return(m, t) /\ UNCHANGED <<host, hostCache>> BY <1>0, <1>1, WorkReturns
<1>2. CASE Update(m, h, r, {h}) /\ Become(m, u)
  <2>1. StoreHost(h, r) /\ host[h].claim = None /\ host[h].label = m /\ host[h] \in HostObjects
    BY <1>0, <1>2 DEF Update, MayUpdate, CopyOf, TypeOK
  <2>2. /\ r.claim = m /\ r.label = m /\ r.phase = "Claimed" /\ r.there = host[h].there
        /\ r.deleting = host[h].deleting
    BY <2>1 DEF HostObjects
  <2>3. /\ u \in WorkStates /\ u.pc = "boot" /\ u.host = h /\ u.seen = t.seen
        /\ u.new.fin = t.new.fin /\ u.new.ref = h
    BY <1>0 DEF WorkStates, Steps, HostOrNone, MachineObjects
  <2>4. work' = [work EXCEPT ![m] = u] BY <1>2 DEF Become
  <2>5. machine[m].state # "absent" /\ t.new.fin BY <1>0 DEF Good
  <2>. HIDE DEF h, r, u, t
  <2>6. host'[h] = r BY <1>0, <2>1, StoreEffect
  <2>7. Good(m, work[m])'
    <3>1. work'[m] = u BY <1>0, <2>4
    <3>. QED BY <1>0, <2>2, <2>3, <2>5, <2>6, <3>1 DEF Good, Releasing
  <2>8. ~Released(work[m]) BY <1>0 DEF Released, t
  <2>9. MachineInv(m)' BY <1>0, <2>1, <2>2, <2>3, <2>4, <2>5, <2>7, <2>8, OwnWrite
  <2>10. \A x \in Machines \ {m} :
            /\ work'[x] = work[x]
            /\ r.claim = x <=> host[h].claim = x
            /\ host[h].label # x
    BY <1>0, <2>1, <2>2, <2>4, NamesAssumption
  <2>11. \A x \in Machines \ {m} : MachineInv(x)' BY <1>0, <2>1, <2>10, OthersOfWrite
  <2>12. ThereInv'
    <3>1. \A g \in Hosts : probe'[g].pc # "drop" BY <1>0 DEF ThereInv
    <3>. QED BY <1>0, <2>1, <2>2, <3>1, ThereAfterWrite
  <2>. QED BY <2>9, <2>11, <2>12
<1>. QED BY <1>0, <1>1, <1>2 DEF RecordClaim

\* MarkProvisioned: only the phase changes.
LEMMA MarkServing ==
    ASSUME ServingInv, NEW m \in Machines, MarkProvisioned(m)
    PROVE  ThereInv' /\ \A x \in Machines : MachineInv(x)'
<1>. DEFINE t == work[m]
            h == t.host
            r == [host[h] EXCEPT !.phase = "Provisioned"]
            u == Returned(t)
<1>0. /\ TypeOK /\ ThereInv /\ t \in WorkStates /\ h \in Hosts /\ Good(m, t)
      /\ t.pc = "mark" /\ m # None /\ UNCHANGED <<machine, machineCache, probe, disk>>
      /\ work \in [Machines -> WorkStates] /\ Return(m, t)
  BY Own DEF MarkProvisioned, MachineInv, TypeOK
<1>1. CASE UNCHANGED <<host, hostCache>> BY <1>0, <1>1, WorkReturns
<1>2. CASE Update(m, h, r, {})
  <2>1. StoreHost(h, r) /\ host[h] \in HostObjects BY <1>0, <1>2 DEF Update, TypeOK
  <2>2. /\ r.claim = host[h].claim /\ r.label = host[h].label /\ r.phase = "Provisioned"
        /\ r.there = host[h].there /\ r.deleting = host[h].deleting
    BY <2>1 DEF HostObjects
  <2>3. /\ machine[m].state # "absent" /\ t.new.fin
        /\ t.new.ref \in {None, t.seen.ref} \/ host[t.new.ref].claim = m
    BY <1>0 DEF Good
  <2>4. Good(m, u) BY <2>3, ReturnGood
  <2>5. u \in WorkStates /\ u.pc \in {"idle", "patchMeta"}
    BY <1>0, RecordTypes DEF Returned, WorkStates, Idle, Steps
  <2>6. work' = [work EXCEPT ![m] = u] BY <1>0 DEF Return, Returned
  <2>7. ~Released(work[m]) BY <1>0 DEF Released
  <2>. HIDE DEF h, r, u, t
  <2>8. MachineInv(m)'
    BY <1>0, <2>1, <2>2, <2>4, <2>5, <2>6, <2>7, OwnWrite DEF Releasing
  <2>9. \A x \in Machines \ {m} : work'[x] = work[x] BY <1>0, <2>6
  <2>10. \A x \in Machines \ {m} : MachineInv(x)' BY <1>0, <2>1, <2>2, <2>9, OthersOfWrite
  <2>11. ThereInv'
    <3>1. \A g \in Hosts : probe'[g].pc # "drop" BY <1>0 DEF ThereInv
    <3>. QED BY <1>0, <2>1, <2>2, <3>1, ThereAfterWrite
  <2>. QED BY <2>8, <2>10, <2>11
<1>. QED BY <1>0, <1>1, <1>2 DEF MarkProvisioned

\* UnlabelHost: the claim is still this machine's, so the label is nobody else's.
LEMMA UnlabelServing ==
    ASSUME ServingInv, NEW m \in Machines, UnlabelHost(m)
    PROVE  ThereInv' /\ \A x \in Machines : MachineInv(x)'
<1>. DEFINE t == work[m]
            h == t.host
            r == [host[h] EXCEPT !.label = None]
            u == [t EXCEPT !.pc = "unclaim"]
<1>0. /\ TypeOK /\ ThereInv /\ t \in WorkStates /\ h \in Hosts /\ Good(m, t)
      /\ t.pc = "unlabel" /\ m # None /\ UNCHANGED <<machine, machineCache, probe, disk>>
      /\ work \in [Machines -> WorkStates] /\ LabelAgreesWithClaim /\ host[h].there
  <2>1. h \in Hosts BY Own DEF UnlabelHost, Releasing
  <2>. QED BY <2>1, Own DEF UnlabelHost, MachineInv, TypeOK, ThereInv
<1>1. CASE Return(m, t) /\ UNCHANGED <<host, hostCache>> BY <1>0, <1>1, WorkReturns
<1>2. CASE Update(m, h, r, {h}) /\ Become(m, u)
  <2>1. StoreHost(h, r) /\ host[h] \in HostObjects BY <1>0, <1>2 DEF Update, TypeOK
  <2>2. /\ r.claim = host[h].claim /\ r.label = None /\ r.phase = host[h].phase
        /\ r.there = host[h].there /\ r.deleting = host[h].deleting
    BY <2>1 DEF HostObjects
  <2>3. host[h].claim = m /\ machine[m].state = "deleting" BY <1>0 DEF Good, Releasing
  <2>4. /\ u \in WorkStates /\ u.pc = "unclaim" /\ u.host = h /\ u.seen = t.seen /\ u.new = t.new
        /\ u.cond = t.cond
    BY <1>0 DEF WorkStates, Steps
  <2>5. Good(m, u) BY <1>0, <2>4 DEF Good, Releasing
  <2>6. work' = [work EXCEPT ![m] = u] BY <1>2 DEF Become
  <2>7. ~Released(work[m]) BY <1>0 DEF Released
  <2>8. host[h].label \in {None, m} BY <1>0, <2>3 DEF LabelAgreesWithClaim
  <2>. HIDE DEF h, r, u, t
  <2>9. MachineInv(m)' BY <1>0, <2>1, <2>2, <2>3, <2>4, <2>5, <2>6, <2>7, OwnWrite
  <2>10. \A x \in Machines \ {m} : work'[x] = work[x] /\ host[h].label # x
    BY <1>0, <2>6, <2>8, NamesAssumption
  <2>11. \A x \in Machines \ {m} : MachineInv(x)' BY <1>0, <2>1, <2>2, <2>10, OthersOfWrite
  <2>12. ThereInv'
    <3>1. \A g \in Hosts : probe'[g].pc # "drop" BY <1>0 DEF ThereInv
    <3>. QED BY <1>0, <2>1, <2>2, <3>1, ThereAfterWrite
  <2>. QED BY <2>9, <2>11, <2>12
<1>. QED BY <1>0, <1>1, <1>2 DEF UnlabelHost

\* UnclaimHost: the machine is about to go, and gives up its own claim.
LEMMA UnclaimServing ==
    ASSUME ServingInv, NEW m \in Machines, UnclaimHost(m)
    PROVE  ThereInv' /\ \A x \in Machines : MachineInv(x)'
<1>. DEFINE t == work[m]
            h == t.host
            r == [host[h] EXCEPT !.claim = None, !.phase = "Pending", !.reset = t.cond]
            v == [t EXCEPT !.new.ref = None, !.new.fin = FALSE]
            u == Returned(v)
<1>0. /\ TypeOK /\ ThereInv /\ t \in WorkStates /\ h \in Hosts /\ Good(m, t)
      /\ t.pc = "unclaim" /\ m # None /\ UNCHANGED <<machine, machineCache, probe, disk>>
      /\ work \in [Machines -> WorkStates] /\ LabelAgreesWithClaim /\ host[h].there
  <2>1. h \in Hosts BY Own DEF UnclaimHost, Releasing
  <2>. QED BY <2>1, Own DEF UnclaimHost, MachineInv, TypeOK, ThereInv
<1>1. CASE Return(m, t) /\ UNCHANGED <<host, hostCache>> BY <1>0, <1>1, WorkReturns
<1>2. CASE Update(m, h, r, {}) /\ Return(m, v)
  <2>1. StoreHost(h, r) /\ host[h] \in HostObjects BY <1>0, <1>2 DEF Update, TypeOK
  <2>2. /\ r.claim = None /\ r.label = host[h].label /\ r.phase = "Pending"
        /\ r.there = host[h].there /\ r.deleting = host[h].deleting
    BY <2>1 DEF HostObjects
  <2>3. host[h].claim = m /\ machine[m].state = "deleting" /\ t.seen.fin
    BY <1>0 DEF Good, Releasing
  <2>4. /\ v.seen = t.seen /\ ~v.new.fin /\ v.new.ref = None
    BY <1>0 DEF WorkStates, MachineObjects
  <2>5. u.pc = "patchMeta" /\ u.seen = t.seen /\ u.new = v.new
    BY <2>3, <2>4 DEF Returned, Idle
  <2>6. work' = [work EXCEPT ![m] = u] BY <1>2 DEF Return, Returned
  <2>. HIDE DEF h, r, u, t, v
  <2>7. work'[m] = u BY <1>0, <2>6
  <2>8. MachineInv(m)'
    <3>1. Released(work'[m]) /\ machine'[m].state = "deleting" BY <1>0, <2>3, <2>4, <2>5, <2>7 DEF Released
    <3>2. Good(m, work[m])' BY <2>3, <2>4, <2>5, <2>7, <3>1 DEF Good, Releasing
    <3>. QED BY <3>1, <3>2 DEF MachineInv, RefInv, ClaimedInv, DiskInv
  <2>9. \A x \in Machines \ {m} : /\ work'[x] = work[x] /\ x # None
                                  /\ r.claim = x <=> host[h].claim = x
    BY <1>0, <2>2, <2>3, <2>6, NamesAssumption
  <2>10. \A x \in Machines \ {m} : MachineInv(x)' BY <1>0, <2>1, <2>2, <2>9, OthersOfWrite
  <2>11. ThereInv'
    <3>1. \A g \in Hosts : probe'[g].pc # "drop" BY <1>0 DEF ThereInv
    <3>. QED BY <1>0, <2>1, <2>2, <3>1, ThereAfterWrite
  <2>. QED BY <2>8, <2>10, <2>11
<1>. QED BY <1>0, <1>1, <1>2 DEF UnclaimHost

-----------------------------------------------------------------------------
(* Steps on a host, and steps that write a HostMachine.                    *)

\* A step of m that changes only its reconcile and the disk of the Host it has claimed.
LEMMA DiskStep ==
    ASSUME ServingInv, NEW m \in Machines, NEW u \in WorkStates, NEW h \in Hosts, NEW d,
           UNCHANGED <<host, machine, hostCache, machineCache, probe>>,
           disk' = [disk EXCEPT ![h] = d], d.by \in {m, None}, host[h].claim = m,
           work' = [work EXCEPT ![m] = u], Good(m, u), ~Released(work[m]),
           u.pc \in Releasing \cup {"boot", "mark"} => u.host \in Hosts,
           u.pc \in {"unlabel", "unclaim"} => u.host = h /\ d.by = None
    PROVE  ThereInv' /\ \A x \in Machines : MachineInv(x)'
<1>0. /\ TypeOK /\ ThereInv /\ MachineInv(m) /\ machine[m].ref \in HostOrNone
      /\ disk \in [Hosts -> DiskStates] /\ work \in [Machines -> WorkStates] /\ m # None
  BY Own DEF MachineObjects, TypeOK
<1>1. disk'[h] = d /\ \A g \in Hosts \ {h} : disk'[g] = disk[g] BY <1>0
<1>2. machine[m].state # "absent" BY <1>0 DEF MachineInv, RefInv
<1>3. ASSUME NEW x \in Machines PROVE Kept(x)
  <2>1. \A g \in Hosts : disk'[g].by = x =>
           disk[g].by = x \/ (host'[g].claim = x /\ machine[x].state # "absent")
    BY <1>1, <1>2, NamesAssumption
  <2>. QED BY <2>1 DEF Kept, LabelGuards
<1>4. ASSUME NEW x \in Machines \ {m} PROVE MachineInv(x)'
  <2>1. \A g \in Hosts : host[g].claim = x => disk'[g] = disk[g] BY <1>1
  <2>. QED BY <1>0, <1>3, <2>1, Bystander
<1>5. MachineInv(m)'
  <2>1. RefInv(m)' /\ ClaimedInv(m)' /\ DiskInv(m)' BY <1>0, <1>3, ObjectsKept
  <2>2. work'[m] = u BY <1>0
  <2>3. u.pc \in {"unlabel", "unclaim"} => disk'[u.host].by = None BY <1>1
  <2>4. Good(m, work[m])' BY <1>3, <2>2, <2>3, GoodKept DEF Good
  <2>. QED BY <2>1, <2>4 DEF MachineInv
<1>6. ThereInv' BY <1>0 DEF ThereInv
<1>. QED BY <1>4, <1>5, <1>6

\* runBootstrap, and a reset: both on the Host this machine has claimed.
LEMMA HostWorkSteps ==
    ASSUME ServingInv, NEW m \in Machines,
           BootstrapUnavailable(m) \/ RunBootstrap(m) \/ ResetHost(m)
    PROVE  ThereInv' /\ \A x \in Machines : MachineInv(x)'
<1>. DEFINE t == work[m]
            h == t.host
<1>0. /\ TypeOK /\ t \in WorkStates /\ h \in Hosts /\ Good(m, t) /\ t.pc \in {"boot", "reset"}
      /\ UNCHANGED <<host, machine, hostCache, machineCache, probe>>
  BY Own DEF BootstrapUnavailable, RunBootstrap, ResetHost, MachineInv, Releasing
<1>1. /\ host[h].claim = m /\ ~Released(t) /\ machine[m].state # "absent" /\ t.new.fin
      /\ t.new.ref \in {None, t.seen.ref} \/ host[t.new.ref].claim = m
  BY <1>0 DEF Good, Releasing, Released
<1>2. CASE Return(m, t) /\ UNCHANGED disk BY <1>0, <1>2, WorkReturns
<1>3. CASE Return(m, t) /\ disk' = [disk EXCEPT ![h] = [by |-> m, run |-> "running"]]
  <2>1. Good(m, Returned(t)) BY <1>1, ReturnGood
  <2>2. Returned(t) \in WorkStates /\ Returned(t).pc \in {"idle", "patchMeta"}
    BY <1>0, RecordTypes DEF Returned, WorkStates, Idle, Steps
  <2>3. work' = [work EXCEPT ![m] = Returned(t)] BY <1>3 DEF Return, Returned
  <2>. DEFINE d == [by |-> m, run |-> "running"]
              u == Returned(t)
  <2>4. d.by = m /\ disk' = [disk EXCEPT ![h] = d] BY <1>3
  <2>. HIDE DEF d, u
  <2>5. /\ u \in WorkStates /\ u.pc \in {"idle", "patchMeta"} /\ Good(m, u)
        /\ work' = [work EXCEPT ![m] = u]
    BY <2>1, <2>2, <2>3 DEF u
  <2>. QED BY <1>0, <1>1, <2>4, <2>5, DiskStep DEF Releasing
<1>4. CASE /\ t.pc = "boot" /\ UNCHANGED disk
           /\ Become(m, [t EXCEPT !.new.provisioned = TRUE, !.pc = "mark"])
  <2>. DEFINE u == [t EXCEPT !.new.provisioned = TRUE, !.pc = "mark"]
  <2>1. /\ u \in WorkStates /\ u.pc = "mark" /\ u.host = h /\ u.seen = t.seen
        /\ u.new.fin = t.new.fin /\ u.new.ref = t.new.ref
    BY <1>0 DEF WorkStates, MachineObjects, Steps
  <2>2. Good(m, u) BY <1>0, <1>1, <2>1 DEF Good, Releasing
  <2>3. work' = [work EXCEPT ![m] = u] BY <1>4 DEF Become
  <2>. HIDE DEF u
  <2>. QED BY <1>0, <1>1, <1>4, <2>1, <2>2, <2>3, QuietServing
<1>5. CASE ResetHost(m)
  <2>. DEFINE u(c) == [t EXCEPT !.pc = "unlabel", !.cond = c]
  <2>1. ASSUME NEW c \in {"clean", "unverified"}
        PROVE  /\ u(c) \in WorkStates /\ u(c).pc = "unlabel" /\ u(c).host = h
               /\ u(c).seen = t.seen /\ u(c).new = t.new /\ u(c).cond = c
    BY <1>0 DEF WorkStates, ResetStates, Steps
  <2>2. t.pc = "reset" /\ machine[m].state = "deleting" /\ t.seen.fin
    BY <1>0, <1>5 DEF ResetHost, Good, Releasing
  <2>3. CASE disk' = disk /\ Become(m, u("unverified"))
    <3>1. Good(m, u("unverified")) BY <1>1, <2>1, <2>2 DEF Good, Releasing
    <3>. QED BY <1>0, <1>1, <2>1, <2>3, <3>1, QuietServing DEF Become
  <2>4. CASE disk' = [disk EXCEPT ![h] = CleanDisk] /\ Become(m, u("clean"))
    <3>. DEFINE v == u("clean")
    <3>1. /\ v \in WorkStates /\ v.pc = "unlabel" /\ v.host = h /\ v.cond = "clean"
          /\ v.seen = t.seen /\ v.new = t.new
      BY <2>1
    <3>2. work' = [work EXCEPT ![m] = v] BY <2>4 DEF Become
    <3>. HIDE DEF u, v
    <3>3. CleanDisk.by = None BY DEF CleanDisk
    <3>4. disk \in [Hosts -> DiskStates] /\ ThereInv /\ MachineInv(m) /\ work \in [Machines -> WorkStates]
          /\ machine[m].ref \in HostOrNone /\ m # None
      BY <1>0, Own DEF TypeOK, MachineObjects
    <3>5. disk'[h].by = None /\ \A g \in Hosts \ {h} : disk'[g] = disk[g] BY <1>0, <2>4, <3>3, <3>4
    <3>6. \A x \in Machines : Kept(x)
      <4>1. \A x \in Machines, g \in Hosts : disk'[g].by = x => disk[g].by = x
        BY <3>5, NamesAssumption
      <4>. QED BY <1>0, <4>1 DEF Kept, LabelGuards
    <3>7. ASSUME NEW x \in Machines \ {m} PROVE MachineInv(x)'
      <4>1. \A g \in Hosts : disk[g].by = None => disk'[g].by = None BY <3>5
      <4>2. work'[x] = work[x] BY <3>2, <3>4
      <4>. QED BY <3>6, <4>1, <4>2, Bystander
    <3>8. RefInv(m)' /\ ClaimedInv(m)' /\ DiskInv(m)' BY <1>1, <3>4, <3>6, ObjectsKept
    <3>9. Good(m, work[m])'
      <4>1. work'[m] = v BY <3>2, <3>4
      <4>. QED BY <1>0, <1>1, <2>2, <3>1, <3>5, <4>1 DEF Good, Releasing
    <3>10. ThereInv' BY <1>0, <3>4 DEF ThereInv
    <3>. QED BY <3>7, <3>8, <3>9, <3>10 DEF MachineInv
  <2>. QED BY <1>5, <2>3, <2>4 DEF ResetHost
<1>. QED BY <1>0, <1>2, <1>3, <1>4, <1>5 DEF BootstrapUnavailable, RunBootstrap

\* reconcileDelete begins: the Host the machine refers to is still its own.
LEMMA BeginDeleteServing ==
    ASSUME ServingInv, NEW m \in Machines, BeginDelete(m)
    PROVE  ThereInv' /\ \A x \in Machines : MachineInv(x)'
<1>. DEFINE c == machine[m]
            b == [Idle EXCEPT !.seen = c, !.new = c]
            v == [b EXCEPT !.new.ref = None, !.new.fin = FALSE]
            t == [b EXCEPT !.pc = "reset", !.host = c.ref]
<1>0. /\ TypeOK /\ ThereInv /\ machineCache[m] = c /\ c \in MachineObjects /\ MachineInv(m)
      /\ work[m].pc = "idle" /\ c.state = "deleting" /\ c.fin
      /\ UNCHANGED <<host, machine, hostCache, machineCache, probe, disk>>
  BY Own DEF BeginDelete, ThereInv
<1>1. /\ b \in WorkStates /\ b.seen = c /\ b.new = c
  BY <1>0, RecordTypes DEF WorkStates, Idle
<1>2. c.ref # None => c.ref \in Hosts /\ hostCache[c.ref].there /\ host[c.ref].claim = m
  BY <1>0 DEF MachineInv, RefInv, InService, Released, MachineObjects, HostOrNone, ThereInv
<1>3. CASE Return(m, v)
  <2>1. v \in WorkStates /\ v.seen = c /\ ~v.new.fin /\ v.new.ref = None
    BY <1>1 DEF WorkStates, MachineObjects, HostOrNone
  <2>. HIDE DEF v
  <2>. QED BY <1>0, <1>3, <2>1, QuietReturn DEF Released
<1>4. CASE c.ref # None /\ Become(m, t)
  <2>1. t \in WorkStates /\ t.pc = "reset" /\ t.host = c.ref /\ t.seen = c /\ t.new = c
    BY <1>1, <1>2, <1>4 DEF WorkStates, Steps, HostOrNone
  <2>2. Good(m, t) BY <1>0, <1>2, <1>4, <2>1 DEF Good, Releasing
  <2>3. work' = [work EXCEPT ![m] = t] BY <1>4 DEF Become
  <2>. HIDE DEF t
  <2>. QED BY <1>0, <1>2, <1>4, <2>1, <2>2, <2>3, QuietServing DEF Released
<1>. QED BY <1>0, <1>3, <1>4 DEF BeginDelete

\* A step that writes HostMachine m, its reconcile, and no Host.
LEMMA StoreMachineServing ==
    ASSUME Steady, ServingInv, NEW m \in Machines, NEW r \in MachineObjects, StoreMachine(m, r),
           UNCHANGED <<host, hostCache, probe, disk>>,
           \A x \in Machines \ {m} : work'[x] = work[x],
           r.state = "deleting" => r.fin,
           r.state # "absent", Good(m, work[m])',
           r.state \in {"live", "deleting"} /\ r.ref # None /\ ~Released(work'[m])
              => host[r.ref].claim = m,
           r.state = "live" => machine[m].state \in {"live", "absent"}
    PROVE  ThereInv' /\ \A x \in Machines : MachineInv(x)'
<1>0. TypeOK /\ ThereInv /\ MachineInv(m) BY Own
<1>1. /\ machine'[m] = r /\ machineCache' = machine'
      /\ \A x \in Machines \ {m} : machine'[x] = machine[x]
  BY <1>0 DEF StoreMachine, Steady, ThereInv, TypeOK
<1>2. ThereInv' BY <1>0, <1>1 DEF ThereInv
<1>3. ASSUME NEW x \in Machines \ {m} PROVE MachineInv(x)'
  <2>1. Kept(x) BY <1>1 DEF Kept, LabelGuards
  <2>. QED BY <2>1, Bystander
<1>4. MachineInv(m)'
  <2>1. RefInv(m)' BY <1>1 DEF RefInv, InService
  <2>2. ClaimedInv(m)' BY <1>0, <1>1 DEF ClaimedInv, MachineInv, RefInv
  <2>3. DiskInv(m)' BY <1>0, <1>1 DEF DiskInv, MachineInv, RefInv, LabelGuards
  <2>. QED BY <2>1, <2>2, <2>3 DEF MachineInv
<1>. QED BY <1>2, <1>3, <1>4

\* The deferred patch: a hostRef that is stored names a Host claimed for the machine, and
\* the finalizer of a machine that has released its Host goes.
LEMMA PatchServing ==
    ASSUME Steady, ServingInv, NEW m \in Machines, PatchMeta(m) \/ PatchStatus(m) \/ PatchFails(m)
    PROVE  ThereInv' /\ \A x \in Machines : MachineInv(x)'
<1>. DEFINE t == work[m]
            c == machine[m]
            s == [t EXCEPT !.pc = "patchStatus"]
<1>0. /\ TypeOK /\ ThereInv /\ MachineInv(m) /\ Good(m, t) /\ t \in WorkStates /\ c \in MachineObjects
      /\ t.new \in MachineObjects /\ t.pc \in {"patchMeta", "patchStatus"}
      /\ UNCHANGED <<host, hostCache, probe, disk>> /\ work \in [Machines -> WorkStates]
  BY Own DEF PatchMeta, PatchStatus, PatchFails, MachineInv, TypeOK
<1>1. c.state # "absent" /\ (c.state = "deleting" => c.fin) BY <1>0 DEF Good, ThereInv
<1>2. Idle \in WorkStates /\ Idle.pc = "idle" /\ ~Released(Idle) BY RecordTypes DEF Idle, Released
<1>i. Become(m, Idle) => /\ work'[m] = Idle /\ Good(m, work[m])'
                         /\ \A x \in Machines \ {m} : work'[x] = work[x]
  BY <1>0, <1>2 DEF Become, Good, Releasing
<1>3. CASE PatchFails(m)
  <2>1. c.state = "gone" /\ UNCHANGED <<machine, machineCache>>
    BY <1>3 DEF PatchFails, Steady
  <2>2. PICK u \in {Idle, s} : work' = [work EXCEPT ![m] = u]
    BY <1>3 DEF PatchFails, StatusNext, Become
  <2>3. s \in WorkStates /\ s.pc = "patchStatus" /\ s.new = t.new /\ s.seen = t.seen
    BY <1>0 DEF WorkStates, Steps
  <2>4. u \in WorkStates /\ Good(m, u) /\ u.pc \in {"idle", "patchStatus"} /\ ~Released(u)
    <3>1. Good(m, s) BY <1>0, <2>1, <2>3 DEF Good, Releasing
    <3>2. Good(m, Idle) BY <1>2 DEF Good, Releasing
    <3>. QED BY <1>2, <2>3, <3>1, <3>2 DEF Released
  <2>. QED BY <1>0, <2>1, <2>2, <2>4, QuietServing DEF InService, Releasing
<1>4. CASE t.pc = "patchMeta" /\ ~t.new.fin /\ PatchMeta(m)
  <2>1. StoreMachine(m, GoneMachine) /\ Become(m, Idle) BY <1>4 DEF PatchMeta
  <2>2. GoneMachine \in MachineObjects /\ GoneMachine.state = "gone"
    BY RecordTypes DEF GoneMachine, NoMachine
  <2>. QED BY <1>0, <1>i, <2>1, <2>2, StoreMachineServing
<1>5. CASE t.pc = "patchMeta" /\ t.new.fin /\ PatchMeta(m)
  <2>. DEFINE r == [c EXCEPT !.fin = TRUE]
  <2>1. r \in MachineObjects /\ r.fin /\ r.state = c.state /\ r.ref = c.ref
    BY <1>0 DEF MachineObjects
  <2>2. /\ s \in WorkStates /\ s.pc = "patchStatus" /\ s.new = t.new /\ s.seen = t.seen
    BY <1>0 DEF WorkStates, Steps
  <2>3. Become(m, Idle) \/ Become(m, s) BY <1>5 DEF PatchMeta, StatusNext, Become
  <2>4. PICK u \in {Idle, s} : work' = [work EXCEPT ![m] = u] BY <2>3 DEF Become
  <2>5. /\ u \in WorkStates /\ Good(m, u) /\ u.pc \in {"idle", "patchStatus"} /\ ~Released(u)
    <3>1. Good(m, s) BY <1>0, <1>5, <2>2 DEF Good, Releasing
    <3>2. Good(m, Idle) BY <1>2 DEF Good, Releasing
    <3>. QED BY <1>2, <2>2, <3>1, <3>2 DEF Released
  <2>6. ~Released(t) /\ (InService(m) /\ c.ref # None => host[c.ref].claim = m)
    BY <1>0, <1>5 DEF Released, MachineInv, RefInv
  <2>7. CASE UNCHANGED <<machine, machineCache>>
    BY <1>0, <2>4, <2>5, <2>6, <2>7, QuietServing DEF Releasing
  <2>8. CASE StoreMachine(m, r)
    <3>1. work'[m] = u /\ (\A x \in Machines \ {m} : work'[x] = work[x]) BY <1>0, <2>4
    <3>2. machine'[m] = r BY <1>0, <2>8 DEF StoreMachine, TypeOK
    <3>. HIDE DEF r
    <3>3. Good(m, work[m])' BY <1>0, <1>1, <2>1, <2>5, <3>1, <3>2 DEF Good, Releasing
    <3>. QED BY <1>0, <1>1, <2>1, <2>6, <2>8, <3>1, <3>3, StoreMachineServing DEF InService
  <2>. QED BY <1>5, <2>7, <2>8 DEF PatchMeta
<1>6. CASE PatchStatus(m)
  <2>. DEFINE r == [c EXCEPT !.ref = IF t.new.ref = t.seen.ref THEN @ ELSE t.new.ref,
                             !.provisioned = @ \/ t.new.provisioned]
  <2>1. /\ r \in MachineObjects /\ r.fin = c.fin /\ r.state = c.state
        /\ r.ref = IF t.new.ref = t.seen.ref THEN c.ref ELSE t.new.ref
    BY <1>0 DEF MachineObjects
  <2>2. StoreMachine(m, r) /\ Become(m, Idle) /\ t.pc = "patchStatus" BY <1>6 DEF PatchStatus
  <2>3. /\ InService(m) /\ c.ref # None => host[c.ref].claim = m
        /\ t.new.ref \in {None, t.seen.ref} \/ host[t.new.ref].claim = m
    BY <1>0, <2>2 DEF Released, MachineInv, RefInv, Good
  <2>. HIDE DEF r
  <2>. QED BY <1>0, <1>1, <1>i, <2>1, <2>2, <2>3, StoreMachineServing DEF InService
<1>. QED BY <1>0, <1>3, <1>4, <1>5, <1>6 DEF PatchMeta

\* Cluster API creates and deletes HostMachines.
LEMMA LifeServing ==
    ASSUME Steady, ServingInv, NEW m \in Machines, CreateMachine(m) \/ DeleteMachine(m)
    PROVE  ThereInv' /\ \A x \in Machines : MachineInv(x)'
<1>. DEFINE t == work[m]
            c == machine[m]
<1>0. /\ TypeOK /\ ThereInv /\ MachineInv(m) /\ Good(m, t) /\ t \in WorkStates /\ c \in MachineObjects
      /\ UNCHANGED <<host, hostCache, probe, disk, work>>
  BY Own DEF CreateMachine, DeleteMachine, MachineInv
<1>1. CASE CreateMachine(m)
  <2>. DEFINE r == [NoMachine EXCEPT !.state = "live"]
  <2>1. r \in MachineObjects /\ r.state = "live" /\ r.ref = None
    BY RecordTypes DEF MachineObjects, NoMachine
  <2>2. StoreMachine(m, r) /\ c.state = "absent" BY <1>1 DEF CreateMachine
  <2>3. t.pc = "idle" BY <1>0, <2>2 DEF Good
  <2>4. Good(m, work[m])' BY <1>0, <2>3 DEF Good, Releasing
  <2>. HIDE DEF r
  <2>. QED BY <1>0, <2>1, <2>2, <2>4, StoreMachineServing
<1>2. CASE DeleteMachine(m)
  <2>1. c.state = "live" BY <1>2 DEF DeleteMachine
  <2>. DEFINE d == [c EXCEPT !.state = "deleting"]
  <2>2. /\ d \in MachineObjects /\ d.state = "deleting" /\ d.ref = c.ref /\ d.fin = c.fin
        /\ GoneMachine \in MachineObjects /\ GoneMachine.state = "gone"
    BY <1>0, RecordTypes DEF MachineObjects, GoneMachine, NoMachine
  <2>3. /\ t.pc \notin Releasing /\ (t.pc # "idle" => t.new.fin)
        /\ c.ref # None => host[c.ref].claim = m \/ Released(t)
        /\ ~Released(t)
    BY <1>0, <2>1 DEF Good, MachineInv, RefInv, InService, Released
  <2>4. PICK r \in {d, GoneMachine} : StoreMachine(m, r) /\ (r = d => c.fin)
                                      /\ (r # d => r = GoneMachine)
    BY <1>2, <2>2 DEF DeleteMachine
  <2>. HIDE DEF d
  <2>5. machine'[m] = r BY <1>0, <2>4 DEF StoreMachine, TypeOK
  <2>6. Good(m, work[m])'
    <3>1. t.pc \notin {"unlabel", "unclaim"} BY <2>3 DEF Releasing
    <3>2. r.state # "absent" BY <2>2, <2>4
    <3>. QED BY <1>0, <2>3, <2>5, <3>1, <3>2 DEF Good
  <2>. QED BY <1>0, <2>1, <2>2, <2>3, <2>4, <2>6, StoreMachineServing
<1>. QED BY <1>1, <1>2

-----------------------------------------------------------------------------
(* Steps of the Host reconciler and of the environment.                    *)

\* A step of no HostMachine that keeps labels and claims, calls a Host Available only as
\* the end of a probe that read no label, and begins a probe with the label in the cache.
LEMMA HostStepServing ==
    ASSUME ServingInv, UNCHANGED <<machine, machineCache, work>>,
           \A g \in Hosts :
              /\ host'[g].claim = host[g].claim /\ host'[g].label = host[g].label
              /\ host'[g].there = host[g].there /\ host'[g].deleting = host[g].deleting
              /\ disk'[g].by = disk[g].by /\ hostCache'[g] \in {hostCache[g], host'[g]}
              /\ \/ host'[g].phase = host[g].phase \/ host'[g].phase # "Available"
                 \/ probe[g].pc = "probe" /\ probe[g].label = None
              /\ \/ probe'[g] = probe[g] \/ probe'[g].pc = "idle"
                 \/ probe'[g].pc = "probe" /\ probe'[g].label = hostCache[g].label
    PROVE  ThereInv' /\ \A x \in Machines : MachineInv(x)'
<1>0. TypeOK /\ ThereInv BY DEF ServingInv, ClaimInv
<1>1. ThereInv'
  <2>1. ASSUME NEW g \in Hosts
        PROVE  /\ \A r \in {host'[g], hostCache'[g]} : r.there /\ ~r.deleting
               /\ probe'[g].pc # "drop"
    BY <1>0 DEF ThereInv
  <2>. QED BY <1>0, <2>1 DEF ThereInv
<1>2. ASSUME NEW x \in Machines PROVE MachineInv(x)'
  <2>1. ASSUME NEW g \in Hosts, LabelGuards(x, g)
        PROVE  /\ host'[g].phase # "Available"
               /\ probe'[g].pc = "probe" => probe'[g].label = x
    BY <2>1, NamesAssumption DEF LabelGuards
  <2>2. Kept(x) BY <2>1 DEF Kept
  <2>. QED BY <2>2, Bystander
<1>. QED BY <1>1, <1>2

\* The Host reconciler, the runs on the hosts, operators' edits and the informers.
LEMMA HostStepsServing ==
    ASSUME Steady, ServingInv, NEW h \in Hosts,
           HostStep(h) \/ RunEnds(h) \/ DeleteHost(h) \/ SetUnhealthy(h) \/ SyncHost(h)
    PROVE  ThereInv' /\ \A x \in Machines : MachineInv(x)'
<1>0. /\ TypeOK /\ ThereInv /\ host[h] \in HostObjects /\ probe \in [Hosts -> ProbeStates]
      /\ disk \in [Hosts -> DiskStates] /\ hostCache \in [Hosts -> HostObjects]
  BY DEF ServingInv, ClaimInv, TypeOK
<1>1. ASSUME NEW r, StoreHost(h, r), UNCHANGED <<machine, machineCache, work, disk>>,
             r.claim = host[h].claim, r.label = host[h].label, r.there = host[h].there,
             r.deleting = host[h].deleting,
             \/ r.phase = host[h].phase \/ r.phase # "Available"
             \/ probe[h].pc = "probe" /\ probe[h].label = None,
             \A g \in Hosts : probe'[g] = probe[g] \/ probe'[g].pc = "idle"
      PROVE  ThereInv' /\ \A x \in Machines : MachineInv(x)'
  <2>1. /\ host'[h] = r /\ \A g \in Hosts \ {h} : host'[g] = host[g]
        /\ \A g \in Hosts : hostCache'[g] \in {hostCache[g], host'[g]}
    BY <1>0, <1>1, StoreEffect
  <2>2. ASSUME NEW g \in Hosts
        PROVE  /\ host'[g].claim = host[g].claim /\ host'[g].label = host[g].label
               /\ host'[g].there = host[g].there /\ host'[g].deleting = host[g].deleting
               /\ \/ host'[g].phase = host[g].phase \/ host'[g].phase # "Available"
                  \/ probe[g].pc = "probe" /\ probe[g].label = None
    <3>1. CASE g = h BY <1>1, <2>1, <3>1
    <3>2. CASE g # h BY <2>1, <3>2
    <3>. QED BY <3>1, <3>2
  <2>. QED BY <1>1, <2>1, <2>2, HostStepServing
<1>2. CASE AddHostFinalizer(h)
  <2>. DEFINE r == [host[h] EXCEPT !.fin = TRUE]
  <2>1. /\ r.claim = host[h].claim /\ r.label = host[h].label /\ r.there = host[h].there
        /\ r.deleting = host[h].deleting /\ r.phase = host[h].phase
    BY <1>0 DEF HostObjects
  <2>2. StoreHost(h, r) /\ UNCHANGED <<machine, machineCache, work, disk, probe>>
    BY <1>2 DEF AddHostFinalizer
  <2>. HIDE DEF r
  <2>. QED BY <1>1, <2>1, <2>2
<1>3. CASE SetUnhealthy(h)
  <2>. DEFINE r == [host[h] EXCEPT !.unhealthy = ~@]
  <2>1. /\ r.claim = host[h].claim /\ r.label = host[h].label /\ r.there = host[h].there
        /\ r.deleting = host[h].deleting /\ r.phase = host[h].phase
    BY <1>0 DEF HostObjects
  <2>2. StoreHost(h, r) /\ UNCHANGED <<machine, machineCache, work, disk, probe>>
    BY <1>3 DEF SetUnhealthy
  <2>. HIDE DEF r
  <2>. QED BY <1>1, <2>1, <2>2
<1>4. CASE PatchesStatus(h)
  <2>1. /\ UNCHANGED <<machine, machineCache, work, disk>>
        /\ probe' \in {probe, [probe EXCEPT ![h] = NotProbing]}
        /\ \/ UNCHANGED <<host, hostCache, fresh>>
           \/ \E r \in HostObjects :
                 /\ StoreHost(h, r) /\ SameHolder(r, host[h])
                 /\ \/ r.phase = host[h].phase \/ r.phase # "Available"
                    \/ probe[h].pc = "probe" /\ probe[h].label = None
    BY <1>0, <1>4, StatusPatch
  <2>2. \A g \in Hosts : probe'[g] = probe[g] \/ probe'[g].pc = "idle"
    BY <1>0, <2>1 DEF NotProbing
  <2>3. CASE UNCHANGED <<host, hostCache>> BY <2>1, <2>2, <2>3, HostStepServing
  <2>4. ASSUME NEW r, StoreHost(h, r), SameHolder(r, host[h]),
               \/ r.phase = host[h].phase \/ r.phase # "Available"
               \/ probe[h].pc = "probe" /\ probe[h].label = None
        PROVE  ThereInv' /\ \A x \in Machines : MachineInv(x)'
    BY <1>1, <2>1, <2>2, <2>4 DEF SameHolder
  <2>. QED BY <2>1, <2>3, <2>4
<1>5. CASE BeginProbe(h)
  <2>. DEFINE p == [pc |-> "probe", label |-> hostCache[h].label, phase |-> hostCache[h].phase,
                    reset |-> hostCache[h].reset]
  <2>1. /\ UNCHANGED <<host, machine, hostCache, machineCache, work, disk>>
        /\ probe' = [probe EXCEPT ![h] = p]
    BY <1>5 DEF BeginProbe
  <2>2. p.pc = "probe" /\ p.label = hostCache[h].label OBVIOUS
  <2>. HIDE DEF p
  <2>3. \A g \in Hosts : \/ probe'[g] = probe[g]
                         \/ probe'[g].pc = "probe" /\ probe'[g].label = hostCache[g].label
    BY <1>0, <2>1, <2>2
  <2>. QED BY <2>1, <2>3, HostStepServing
<1>6. CASE SyncHost(h)
  <2>1. \A g \in Hosts : hostCache'[g] \in {hostCache[g], host[g]} BY <1>0, <1>6 DEF SyncHost
  <2>. QED BY <1>6, <2>1, HostStepServing DEF SyncHost
<1>7. CASE RunEnds(h)
  <2>1. \A g \in Hosts : disk'[g].by = disk[g].by BY <1>0, <1>7 DEF RunEnds, DiskStates
  <2>. QED BY <1>7, <2>1, HostStepServing DEF RunEnds
<1>8. ~BeginHostDelete(h) /\ ~EndHostDelete(h) /\ ~DeleteHost(h)
  BY <1>0 DEF BeginHostDelete, EndHostDelete, DeleteHost, ThereInv, Steady
<1>. QED BY <1>2, <1>3, <1>4, <1>5, <1>6, <1>7, <1>8 DEF HostStep, PatchesStatus

\* A move: the claims go with the status, the labels stay, and the Hosts that run a live
\* machine's bootstrap are Pending in a cache that is current.
LEMMA MoveServing ==
    ASSUME ServingInv, Move
    PROVE  ThereInv' /\ \A x \in Machines : MachineInv(x)'
<1>0. TypeOK /\ ThereInv BY DEF ServingInv, ClaimInv
<1>. DEFINE moved(r) == [r EXCEPT !.claim = None, !.phase = "Pending", !.waits = FALSE,
                                   !.reset = "none"]
            bare(c)  == [c EXCEPT !.ref = None, !.provisioned = FALSE]
<1>1. /\ host' = [h \in Hosts |-> moved(host[h])] /\ hostCache' = host'
      /\ machine' = [m \in Machines |-> bare(machine[m])] /\ machineCache' = machine'
      /\ work' = [m \in Machines |-> Idle] /\ probe' = [h \in Hosts |-> NotProbing]
      /\ disk' = disk
  BY DEF Move, Restart
<1>2. ASSUME NEW h \in Hosts
      PROVE  /\ host'[h].claim = None /\ host'[h].phase = "Pending"
             /\ host'[h].label = host[h].label /\ host'[h].there = host[h].there
             /\ host'[h].deleting = host[h].deleting /\ hostCache'[h] = host'[h]
             /\ probe'[h].pc = "idle"
  <2>1. host[h] \in HostObjects BY <1>0 DEF TypeOK
  <2>2. /\ moved(host[h]).claim = None /\ moved(host[h]).phase = "Pending"
        /\ moved(host[h]).label = host[h].label /\ moved(host[h]).there = host[h].there
        /\ moved(host[h]).deleting = host[h].deleting
    BY <2>1 DEF HostObjects
  <2>3. probe'[h].pc = "idle" BY <1>1 DEF NotProbing
  <2>. HIDE DEF moved
  <2>4. host'[h] = moved(host[h]) /\ hostCache'[h] = host'[h] BY <1>1
  <2>. QED BY <2>2, <2>3, <2>4
<1>3. ASSUME NEW m \in Machines
      PROVE  /\ machine'[m].state = machine[m].state /\ machine'[m].fin = machine[m].fin
             /\ machine'[m].ref = None /\ work'[m] = Idle
  BY <1>0, <1>1 DEF TypeOK, MachineObjects
<1>4. ThereInv'
  <2>1. \A h \in Hosts : \A r \in {host'[h], hostCache'[h]} : r.there /\ ~r.deleting
    BY <1>0, <1>2 DEF ThereInv
  <2>2. machineCache' = machine' BY <1>1
  <2>3. \A m \in Machines : machine'[m].state = "deleting" => machine'[m].fin
    BY <1>0, <1>3 DEF ThereInv
  <2>4. \A h \in Hosts : probe'[h].pc # "drop" BY <1>2
  <2>. QED BY <2>1, <2>2, <2>3, <2>4 DEF ThereInv
<1>5. ASSUME NEW m \in Machines PROVE MachineInv(m)'
  <2>0. MachineInv(m) /\ m # None BY NamesAssumption DEF ServingInv
  <2>1. RefInv(m)' BY <1>1, <1>2, <1>3, <2>0 DEF RefInv, MachineInv
  <2>2. ClaimedInv(m)' BY <1>2, <2>0 DEF ClaimedInv
  <2>3. DiskInv(m)'
    <3>1. DiskInv(m) /\ disk' = disk BY <1>1, <2>0 DEF MachineInv
    <3>. SUFFICES ASSUME machine'[m].state = "live", NEW h \in Hosts, disk'[h].by = m
                  PROVE  host'[h].label = m /\ LabelGuards(m, h)'
      BY DEF DiskInv
    <3>2. host[h].label = m BY <1>3, <3>1 DEF DiskInv
    <3>. QED BY <1>2, <3>2 DEF LabelGuards
  <2>4. Good(m, work[m])' BY <1>3 DEF Good, Idle, Releasing
  <2>. QED BY <2>1, <2>2, <2>3, <2>4 DEF MachineInv
<1>. QED BY <1>4, <1>5

-----------------------------------------------------------------------------
(* The invariant, and what follows from it.                                *)

\* Nothing has been claimed, started or read at the beginning.
LEMMA ServingInit == Init => ServingInv
<1>. SUFFICES ASSUME Init PROVE ServingInv OBVIOUS
<1>1. ClaimInv BY ClaimInit
<1>2. ThereInv BY DEF Init, ThereInv, NewHost, NotProbing, NoMachine
<1>3. ASSUME NEW m \in Machines PROVE MachineInv(m)
  <2>1. /\ machine[m].state = "absent" /\ work[m] = Idle /\ m # None
        /\ \A h \in Hosts : /\ host[h].claim = None /\ hostCache[h].claim = None
                            /\ disk[h].by = None
    BY NamesAssumption DEF Init, NoMachine, NewHost, CleanDisk
  <2>. QED BY <2>1 DEF MachineInv, RefInv, InService, ClaimedInv, DiskInv, Good, Idle, Releasing
<1>. QED BY <1>1, <1>2, <1>3 DEF ServingInv

\* Every step keeps it, in a steady pool.
LEMMA ServingStep == ASSUME Steady PROVE ServingInv /\ [Next]_vars => ServingInv'
<1>. SUFFICES ASSUME ServingInv, [Next]_vars PROVE ServingInv' OBVIOUS
<1>1. ClaimInv' BY ClaimStep DEF ServingInv
<1>2. ThereInv' /\ \A x \in Machines : MachineInv(x)'
  <2>1. CASE UNCHANGED vars
    <3>1. UNCHANGED <<host, machine, hostCache, machineCache, probe, disk, work>>
      BY <2>1 DEF vars
    <3>. QED BY <3>1 DEF ServingInv, ThereInv, MachineInv, RefInv, InService, Released,
                         ClaimedInv, DiskInv, LabelGuards, Good
  <2>2. ASSUME NEW m \in Machines, MachineStep(m)
        PROVE  ThereInv' /\ \A x \in Machines : MachineInv(x)'
    BY <2>2, FindSteps, LabelServing, RecordServing, HostWorkSteps, MarkServing, PatchServing,
       BeginDeleteServing, UnlabelServing, UnclaimServing
       DEF MachineStep
  <2>3. ASSUME NEW m \in Machines, CreateMachine(m) \/ DeleteMachine(m) \/ SyncMachine(m)
        PROVE  ThereInv' /\ \A x \in Machines : MachineInv(x)'
    <3>1. ~SyncMachine(m) BY DEF ServingInv, ThereInv, SyncMachine
    <3>. QED BY <2>3, <3>1, LifeServing
  <2>4. ~Crash BY DEF Crash, Steady
  <2>. QED BY <2>1, <2>2, <2>3, <2>4, HostStepsServing, MoveServing DEF Next
<1>. QED BY <1>1, <1>2 DEF ServingInv

\* In a steady pool the Host that a live HostMachine refers to is there and claimed for
\* it, however stale the cache of Hosts is when claimHost and the deferred patch run.
THEOREM HeldHostsAreClaimed == ASSUME Steady PROVE Spec => []HeldIsClaimed
<1>1. ServingInv => HeldIsClaimed
  <2>. SUFFICES ASSUME ServingInv, NEW m \in Machines, machine[m].state = "live",
                       machine[m].ref # None
                PROVE  host[machine[m].ref].there /\ host[machine[m].ref].claim = m
    BY DEF HeldIsClaimed
  <2>1. MachineInv(m) /\ ThereInv /\ machine[m].ref \in Hosts
    BY Own DEF MachineObjects, HostOrNone
  <2>2. ~Released(work[m]) BY <2>1 DEF MachineInv, Good, Released
  <2>. QED BY <2>1, <2>2 DEF MachineInv, RefInv, InService, ThereInv
<1>. QED BY <1>1, ServingInit, ServingStep, PTL DEF Spec

\* Only two steps touch a disk: runBootstrap and a reset, each by the machine that has
\* claimed the Host.
LEMMA DiskSteps ==
    ASSUME ServingInv, [Next]_vars, NEW h \in Hosts, disk'[h].by # disk[h].by
    PROVE  \E m \in Machines :
              /\ host[h].claim = m /\ host' = host /\ machine[m].state # "absent"
              /\ \/ disk'[h].by = m
                 \/ disk'[h].by = None /\ machine[m].state = "deleting"
<1>0. TypeOK /\ disk \in [Hosts -> DiskStates] BY DEF ServingInv, ClaimInv, TypeOK
<1>1. ASSUME NEW m \in Machines, RunBootstrap(m) \/ ResetHost(m)
      PROVE  /\ host[h].claim = m /\ host' = host /\ machine[m].state # "absent"
             /\ \/ disk'[h].by = m
                \/ disk'[h].by = None /\ machine[m].state = "deleting"
  <2>1. /\ Good(m, work[m]) /\ work[m].host \in Hosts /\ host' = host
    BY <1>1, Own DEF RunBootstrap, ResetHost, MachineInv, Releasing
  <2>2. CASE RunBootstrap(m)
    <3>1. disk' = [disk EXCEPT ![work[m].host] = [by |-> m, run |-> "running"]]
      BY <2>2 DEF RunBootstrap
    <3>. QED BY <1>0, <2>1, <2>2, <3>1 DEF Good, RunBootstrap
  <2>3. CASE ResetHost(m)
    <3>1. disk' = [disk EXCEPT ![work[m].host] = CleanDisk] BY <2>3 DEF ResetHost
    <3>2. machine[m].state = "deleting" /\ host[work[m].host].claim = m
      BY <2>1, <2>3 DEF Good, ResetHost, Releasing
    <3>. QED BY <1>0, <2>1, <3>1, <3>2 DEF CleanDisk
  <2>. QED BY <1>1, <2>2, <2>3
<1>2. \/ \E m \in Machines : RunBootstrap(m) \/ ResetHost(m)
      \/ \E g \in Hosts : RunEnds(g)
  <2>1. disk' # disk OBVIOUS
  <2>. QED BY <2>1 DEF Next, vars, MachineStep, WaitForDependency, UseHostRef, RecoverClaim,
        RecoverLabel, ChooseHost, LabelHost, RecordClaim, BootstrapUnavailable, MarkProvisioned,
        PatchMeta, PatchStatus, PatchFails, BeginDelete, UnlabelHost, UnclaimHost, HostStep,
        AddHostFinalizer, MarkUnreachable, BeginProbe, EndProbe, AnnounceWait, BeginHostDelete,
        EndHostDelete, CreateMachine, DeleteMachine, SyncMachine, DeleteHost, SetUnhealthy, SyncHost, Crash, Move, Restart
<1>3. ASSUME NEW g \in Hosts, RunEnds(g) PROVE FALSE
  BY <1>0, <1>3 DEF RunEnds, DiskStates
<1>. QED BY <1>1, <1>2, <1>3

\* In a steady pool the bootstrap run of a live HostMachine is neither reset nor replaced:
\* the claim or, after a move, the label keeps every other machine off its Host.
THEOREM RunsAreUndisturbed == ASSUME Steady PROVE Spec => ServingUndisturbed
<1>. DEFINE A == \A h \in Hosts : \A m \in Machines :
                    disk[h].by = m /\ machine[m].state = "live" => disk'[h].by = m
<1>1. ServingInv /\ [Next]_vars => A
  <2>. SUFFICES ASSUME ServingInv, [Next]_vars, NEW h \in Hosts, NEW m \in Machines,
                       disk[h].by = m, machine[m].state = "live", disk'[h].by # m
                PROVE  FALSE
    OBVIOUS
  <2>1. PICK x \in Machines :
           /\ host[h].claim = x
           /\ disk'[h].by = x \/ machine[x].state = "deleting"
    BY DiskSteps
  <2>2. host[h].label = m /\ LabelAgreesWithClaim BY Own DEF MachineInv, DiskInv
  <2>3. x = m BY <2>1, <2>2, NamesAssumption DEF LabelAgreesWithClaim
  <2>. QED BY <2>1, <2>3
<1>2. A => [A]_vars OBVIOUS
<1>. QED BY <1>1, <1>2, ServingInit, ServingStep, PTL DEF Spec, ServingUndisturbed

\* Who makes a Host free, or changes the Reset condition of a free one: apart from a move and
\* a patch of older conditions only the second write of releaseHost.
LEMMA FreeingSteps ==
    ASSUME Steady, ServingInv, [Next]_vars, ~Move, NEW h \in Hosts, ~OverwritesReset(h),
           host'[h].label = None, host'[h].claim = None
    PROVE  \/ /\ host[h].label = None /\ host[h].claim = None
              /\ host'[h].reset = host[h].reset
           \/ \E m \in Machines :
                 /\ work[m].pc = "unclaim" /\ work[m].host = h
                 /\ host'[h].reset = work[m].cond /\ disk' = disk
<1>0. /\ TypeOK /\ ThereInv /\ host \in [Hosts -> HostObjects] /\ host[h] \in HostObjects
      /\ WorkShape
  BY DEF ServingInv, ClaimInv, TypeOK
<1>. DEFINE Same == /\ host'[h].label = host[h].label /\ host'[h].claim = host[h].claim
                    /\ host'[h].reset = host[h].reset
<1>1. CASE host' = host BY <1>1
<1>2. ASSUME NEW m \in Machines,
             LabelHost(m) \/ RecordClaim(m) \/ MarkProvisioned(m) \/ UnlabelHost(m), host' # host
      PROVE  Same
  <2>0. /\ MachineInv(m) /\ WorkShape /\ m # None /\ work[m] \in WorkStates
        /\ work[m].pc # "label" => work[m].host \in Hosts
    BY <1>2, Own DEF LabelHost, RecordClaim, MarkProvisioned, UnlabelHost, Releasing
  <2>1. CASE LabelHost(m)
    <3>. DEFINE g == First(work[m].todo)
    <3>1. g \in Hosts BY <2>0, <2>1, FirstIsMember DEF LabelHost, WorkShape, WorkStates
    <3>2. host' = [host EXCEPT ![g] = [host[g] EXCEPT !.label = m]]
      BY <1>2, <2>1 DEF LabelHost, Update, StoreHost
    <3>. HIDE DEF g
    <3>. QED BY <1>0, <2>0, <3>1, <3>2 DEF HostObjects
  <2>2. CASE RecordClaim(m)
    <3>1. host' = [host EXCEPT ![work[m].host] =
                      [host[work[m].host] EXCEPT !.claim = m, !.phase = "Claimed"]]
      BY <1>2, <2>2 DEF RecordClaim, Update, StoreHost
    <3>. QED BY <1>0, <2>0, <2>2, <3>1 DEF HostObjects, RecordClaim
  <2>3. CASE MarkProvisioned(m)
    <3>1. host' = [host EXCEPT ![work[m].host] = [host[work[m].host] EXCEPT !.phase = "Provisioned"]]
      BY <1>2, <2>3 DEF MarkProvisioned, Update, StoreHost
    <3>. QED BY <1>0, <2>0, <2>3, <3>1 DEF HostObjects, MarkProvisioned
  <2>4. CASE UnlabelHost(m)
    <3>1. /\ host' = [host EXCEPT ![work[m].host] = [host[work[m].host] EXCEPT !.label = None]]
          /\ work[m].pc = "unlabel"
      BY <1>2, <2>4 DEF UnlabelHost, Update, StoreHost
    <3>2. host[work[m].host].claim = m BY <2>0, <3>1 DEF MachineInv, Good, Releasing
    <3>. QED BY <1>0, <2>0, <3>1, <3>2 DEF HostObjects
  <2>. QED BY <1>2, <2>1, <2>2, <2>3, <2>4
<1>3. ASSUME NEW m \in Machines, UnclaimHost(m), host' # host
      PROVE  \/ Same
             \/ /\ work[m].pc = "unclaim" /\ work[m].host = h
                /\ host'[h].reset = work[m].cond /\ disk' = disk
  <2>. DEFINE g == work[m].host
  <2>1. /\ host' = [host EXCEPT ![g] = [host[g] EXCEPT !.claim = None, !.phase = "Pending",
                                                       !.reset = work[m].cond]]
        /\ work[m].pc = "unclaim" /\ disk' = disk
    BY <1>3 DEF UnclaimHost, Update, StoreHost
  <2>2. g \in Hosts BY <1>0, <2>1 DEF WorkShape
  <2>3. CASE g # h BY <1>0, <2>1, <2>2, <2>3
  <2>4. CASE g = h BY <1>0, <2>1, <2>2, <2>4 DEF HostObjects
  <2>. QED BY <2>3, <2>4
<1>4. ASSUME NEW g \in Hosts, AddHostFinalizer(g) \/ SetUnhealthy(g), host' # host
      PROVE  Same
  <2>1. host' \in {[host EXCEPT ![g] = [host[g] EXCEPT !.fin = TRUE]],
                   [host EXCEPT ![g] = [host[g] EXCEPT !.unhealthy = ~host[g].unhealthy]]}
    BY <1>4 DEF AddHostFinalizer, SetUnhealthy, StoreHost
  <2>. QED BY <1>0, <2>1 DEF HostObjects
<1>p. ASSUME NEW g \in Hosts, PatchesStatus(g), host' # host
      PROVE  Same
  <2>1. PICK r \in HostObjects : /\ StoreHost(g, r) /\ SameHolder(r, host[g])
                                 /\ r.reset \in {host[g].reset, PatchedFrom(g).reset}
    BY <1>0, <1>p, StatusPatch
  <2>2. host' = [host EXCEPT ![g] = r] BY <2>1 DEF StoreHost
  <2>3. CASE g # h BY <1>0, <2>2, <2>3
  <2>4. CASE g = h
    <3>1. PatchedFrom(h).reset = host[h].reset BY <1>p, <2>4 DEF OverwritesReset
    <3>. QED BY <1>0, <2>1, <2>2, <2>4, <3>1 DEF SameHolder
  <2>. QED BY <2>3, <2>4
<1>5. ASSUME NEW g \in Hosts
      PROVE  ~BeginHostDelete(g) /\ ~EndHostDelete(g) /\ ~DeleteHost(g)
  BY <1>0 DEF BeginHostDelete, EndHostDelete, DeleteHost, ThereInv, Steady
<1>6. ~Crash BY DEF Crash, Steady
<1>7. CASE host' # host
  <2>1. \/ \E m \in Machines : LabelHost(m) \/ RecordClaim(m) \/ MarkProvisioned(m)
                               \/ UnlabelHost(m) \/ UnclaimHost(m)
        \/ \E g \in Hosts : AddHostFinalizer(g) \/ SetUnhealthy(g) \/ PatchesStatus(g)
    BY <1>5, <1>6, <1>7 DEF Next, vars, MachineStep, WaitForDependency, UseHostRef, RecoverClaim,
        RecoverLabel, ChooseHost, BootstrapUnavailable, RunBootstrap, PatchMeta, PatchStatus,
        PatchFails, BeginDelete, ResetHost, HostStep, PatchesStatus, BeginProbe, CreateMachine,
        DeleteMachine, SyncMachine, RunEnds, SyncHost
  <2>. QED BY <1>2, <1>3, <1>4, <1>p, <1>7, <2>1
<1>. QED BY <1>1, <1>7

\* In a steady pool a Host that is handed on with somebody's run on it says so until it is
\* claimed again, a move drops its status, or a late patch of HostReconciler puts back the
\* conditions of a copy from before the release: releaseHost writes "clean" only after a
\* reset that went through, and no other step writes the condition.
THEOREM DirtStaysMarked == ASSUME Steady PROVE Spec => DirtyIsMarked
<1>. DEFINE A == \A h \in Hosts : UnmarkedDirt(h)' => UnmarkedDirt(h) \/ Move \/ OverwritesReset(h)
<1>1. ServingInv /\ [Next]_vars => A
  <2>. SUFFICES ASSUME ServingInv, [Next]_vars, NEW h \in Hosts, UnmarkedDirt(h)', ~Move,
                       ~OverwritesReset(h)
                PROVE  UnmarkedDirt(h)
    OBVIOUS
  <2>1. /\ host'[h].label = None /\ host'[h].claim = None /\ disk'[h].by # None
        /\ host'[h].reset # "unverified"
    BY DEF UnmarkedDirt
  <2>2. disk'[h].by = disk[h].by /\ host[h].there
    <3>1. host[h].there BY DEF ServingInv, ThereInv
    <3>. QED BY <2>1, <3>1, DiskSteps, NamesAssumption
  <2>3. ASSUME NEW m \in Machines, work[m].pc = "unclaim", work[m].host = h
        PROVE  host'[h].reset # work[m].cond
    BY <2>1, <2>2, <2>3, Own DEF MachineInv, Good
  <2>. QED BY <2>1, <2>2, <2>3, FreeingSteps DEF UnmarkedDirt
<1>2. A => [A]_vars OBVIOUS
<1>. QED BY <1>1, <1>2, ServingInit, ServingStep, PTL DEF Spec, DirtyIsMarked

-----------------------------------------------------------------------------
(* One Host per machine, when the cache of Hosts does not lag.             *)

Marked(m, h) == m \in {host[h].label, host[h].claim}

\* A reconcile chooses among free Hosts only when no Host is marked as the machine's,
\* and a Host that is gone marks nobody.
MarkInv ==
    /\ hostCache = host
    /\ \A h \in Hosts : ~host[h].there => host[h].label = None /\ host[h].claim = None
    /\ \A m \in Machines : work[m].pc = "label" => \A h \in Hosts : ~Marked(m, h)
    /\ OneHostPerMachine

OneInv == ClaimInv /\ MarkInv

\* Without lag the cache follows a write.
LEMMA CacheFollows ==
    ASSUME "hostLag" \notin Faults, TypeOK, hostCache = host, NEW h \in Hosts, NEW r,
           StoreHost(h, r)
    PROVE  /\ hostCache' = host' /\ host'[h] = r
           /\ \A g \in Hosts \ {h} : host'[g] = host[g]
BY DEF StoreHost, TypeOK

\* A step that marks no Host anew and starts no choice for a machine that has a mark.
LEMMA NoNewMarks ==
    ASSUME OneInv, hostCache' = host',
           \A h \in Hosts : \A x \in Machines : Marked(x, h)' => Marked(x, h),
           \A h \in Hosts : ~host'[h].there => host'[h].label = None /\ host'[h].claim = None,
           \A x \in Machines : \/ work'[x].pc # "label" \/ work[x].pc = "label"
                               \/ \A h \in Hosts : ~Marked(x, h)
    PROVE  MarkInv'
<1>0. MarkInv BY DEF OneInv
<1>1. OneHostPerMachine' BY <1>0 DEF MarkInv, OneHostPerMachine, Marked
<1>2. \A m \in Machines : work'[m].pc = "label" => \A h \in Hosts : ~Marked(m, h)'
  BY <1>0 DEF MarkInv
<1>. QED BY <1>1, <1>2 DEF MarkInv

\* A step that writes no Host.
LEMMA UnwrittenMarks ==
    ASSUME OneInv, UNCHANGED <<host, hostCache>>,
           \A x \in Machines : \/ work'[x].pc # "label" \/ work[x].pc = "label"
                               \/ \A h \in Hosts : ~Marked(x, h)
    PROVE  MarkInv'
<1>1. /\ \A h \in Hosts : \A x \in Machines : Marked(x, h)' => Marked(x, h)
      /\ \A h \in Hosts : ~host'[h].there => host'[h].label = None /\ host'[h].claim = None
      /\ hostCache' = host'
  BY DEF OneInv, MarkInv, Marked
<1>. QED BY <1>1, NoNewMarks

\* A step that writes Host h, and marks it for nobody it was not marked for.
LEMMA WrittenMarks ==
    ASSUME "hostLag" \notin Faults, OneInv, NEW h \in Hosts, NEW r, StoreHost(h, r),
           \A x \in Machines : x \in {r.label, r.claim} => Marked(x, h),
           r.there \/ (r.label = None /\ r.claim = None),
           \A x \in Machines : work'[x].pc # "label" \/ work[x].pc = "label"
    PROVE  MarkInv'
<1>1. /\ hostCache' = host' /\ host'[h] = r
      /\ \A g \in Hosts \ {h} : host'[g] = host[g]
  BY CacheFollows DEF OneInv, ClaimInv, MarkInv
<1>2. ASSUME NEW g \in Hosts
      PROVE  /\ \A x \in Machines : Marked(x, g)' => Marked(x, g)
             /\ ~host'[g].there => host'[g].label = None /\ host'[g].claim = None
  <2>1. CASE g = h BY <1>1, <2>1 DEF Marked
  <2>2. CASE g # h BY <1>1, <2>2 DEF Marked, OneInv, MarkInv
  <2>. QED BY <2>1, <2>2
<1>. QED BY <1>1, <1>2, NoNewMarks

\* ChooseHost reads a cache that is current, and finds no Host marked for the machine.
LEMMA ChoosingMarks ==
    ASSUME OneInv, NEW m \in Machines, ChooseHost(m)
    PROVE  MarkInv'
<1>1. \A h \in Hosts : ~Marked(m, h)
  <2>. SUFFICES ASSUME NEW h \in Hosts, Marked(m, h) PROVE FALSE OBVIOUS
  <2>1. hostCache[h] = host[h] /\ host[h].there /\ m # None
    BY NamesAssumption DEF OneInv, MarkInv, Marked
  <2>2. h \in ClaimedFor(m) \/ h \in LabelledFor(m)
    BY <2>1 DEF ClaimedFor, LabelledFor, Marked
  <2>. QED BY <2>2 DEF ChooseHost
<1>2. \A x \in Machines \ {m} : work'[x] = work[x]
  BY DEF ChooseHost, Become, Return, OneInv, ClaimInv, TypeOK
<1>. QED BY <1>1, <1>2, UnwrittenMarks DEF ChooseHost

\* LabelHost: the only step that marks a Host anew, for a machine that had no mark.
LEMMA LabelMarks ==
    ASSUME "hostLag" \notin Faults, OneInv, NEW m \in Machines, LabelHost(m)
    PROVE  MarkInv'
<1>. DEFINE t == work[m]
            h == First(t.todo)
            r == [host[h] EXCEPT !.label = m]
            u == [t EXCEPT !.pc = "record", !.host = h, !.todo = {}]
<1>0. /\ TypeOK /\ MarkInv /\ t \in WorkStates /\ t.pc = "label" /\ h \in Hosts /\ h \in t.todo
      /\ host[h] \in HostObjects /\ work \in [Machines -> WorkStates]
  <2>1. TypeOK /\ MarkInv /\ WorkShape /\ t \in WorkStates /\ t.pc = "label"
    BY DEF OneInv, ClaimInv, TypeOK, LabelHost
  <2>2. h \in t.todo /\ h \in Hosts BY <2>1, FirstIsMember DEF WorkShape, WorkStates
  <2>. QED BY <2>1, <2>2 DEF TypeOK
<1>1. CASE UNCHANGED <<host, hostCache>>
  <2>1. \A x \in Machines \ {m} : work'[x] = work[x]
    BY <1>0, <1>1 DEF LabelHost, Become, Return
  <2>. QED BY <1>0, <1>1, <2>1, UnwrittenMarks
<1>2. CASE Update(m, h, r, {h}) /\ Become(m, u)
  <2>1. r.label = m /\ r.claim = host[h].claim /\ r.there = host[h].there /\ host[h].there
    BY <1>0, <1>2 DEF HostObjects, Update, MayUpdate
  <2>2. host[h].claim = None BY <1>0, <1>2 DEF OneInv, ClaimInv, CopyIsCurrent, CopyOf, Update,
                                               MayUpdate
  <2>3. StoreHost(h, r) BY <1>2 DEF Update
  <2>4. u.pc = "record" BY <1>0 DEF WorkStates
  <2>5. /\ work'[m].pc = "record" /\ \A x \in Machines \ {m} : work'[x] = work[x]
    BY <1>0, <1>2, <2>4 DEF Become
  <2>6. \A g \in Hosts : ~Marked(m, g) BY <1>0 DEF MarkInv
  <2>. HIDE DEF r, h, u, t
  <2>7. /\ hostCache' = host' /\ host'[h] = r
        /\ \A g \in Hosts \ {h} : host'[g] = host[g]
    BY <1>0, <2>3, CacheFollows DEF MarkInv
  <2>8. ASSUME NEW x \in Machines, NEW g \in Hosts, Marked(x, g)'
        PROVE  IF x = m THEN g = h ELSE Marked(x, g)
    <3>1. CASE g = h BY <2>1, <2>2, <2>7, <2>8, <3>1, NamesAssumption DEF Marked
    <3>2. CASE g # h BY <2>6, <2>7, <2>8, <3>2 DEF Marked
    <3>. QED BY <3>1, <3>2
  <2>9. OneHostPerMachine' BY <1>0, <2>8 DEF MarkInv, OneHostPerMachine, Marked
  <2>10. \A g \in Hosts : ~host'[g].there => host'[g].label = None /\ host'[g].claim = None
    BY <1>0, <2>1, <2>7 DEF MarkInv
  <2>11. \A x \in Machines : work'[x].pc = "label" => \A g \in Hosts : ~Marked(x, g)'
    BY <1>0, <2>5, <2>8 DEF MarkInv
  <2>. QED BY <2>7, <2>9, <2>10, <2>11 DEF MarkInv
<1>. QED BY <1>1, <1>2 DEF LabelHost

\* The other writes of a Host by a HostMachine: recordClaim claims a Host that has the
\* machine's label, and a release only takes marks away.
LEMMA MachineWriteMarks ==
    ASSUME "hostLag" \notin Faults, OneInv, NEW m \in Machines,
           RecordClaim(m) \/ MarkProvisioned(m) \/ UnlabelHost(m) \/ UnclaimHost(m)
    PROVE  MarkInv'
<1>. DEFINE t == work[m]
            h == t.host
<1>0. /\ TypeOK /\ MarkInv /\ t \in WorkStates /\ h \in Hosts /\ host[h] \in HostObjects
      /\ work \in [Machines -> WorkStates] /\ CopyOf(m) /\ t.pc # "label"
  BY DEF OneInv, ClaimInv, TypeOK, WorkShape, CopyIsCurrent, RecordClaim, MarkProvisioned,
         UnlabelHost, UnclaimHost
<1>1. \A x \in Machines : work'[x].pc # "label" \/ work[x].pc = "label"
  <2>1. /\ [t EXCEPT !.pc = "boot", !.new.ref = h].pc = "boot"
        /\ [t EXCEPT !.pc = "unclaim"].pc = "unclaim"
    BY <1>0 DEF WorkStates
  <2>2. \/ \E u : Return(m, u)
        \/ Become(m, [t EXCEPT !.pc = "boot", !.new.ref = h])
        \/ Become(m, [t EXCEPT !.pc = "unclaim"])
    BY DEF RecordClaim, MarkProvisioned, UnlabelHost, UnclaimHost
  <2>3. CASE \E u : Return(m, u) BY <1>0, <2>3, ReturnGoes
  <2>4. CASE Become(m, [t EXCEPT !.pc = "boot", !.new.ref = h]) BY <1>0, <2>1, <2>4 DEF Become
  <2>5. CASE Become(m, [t EXCEPT !.pc = "unclaim"]) BY <1>0, <2>1, <2>5 DEF Become
  <2>. QED BY <2>2, <2>3, <2>4, <2>5
<1>2. CASE UNCHANGED <<host, hostCache>> BY <1>1, <1>2, UnwrittenMarks
<1>3. ASSUME NEW r, NEW keep, Update(m, h, r, keep), r.there = host[h].there,
             r.label \in {host[h].label, None}, r.claim \in {host[h].claim, None, host[h].label}
      PROVE  MarkInv'
  <2>1. StoreHost(h, r) /\ r.there BY <1>3 DEF Update, MayUpdate
  <2>2. \A x \in Machines : x \in {r.label, r.claim} => Marked(x, h)
    BY <1>3, NamesAssumption DEF Marked
  <2>. HIDE DEF h
  <2>. QED BY <1>0, <1>1, <2>1, <2>2, WrittenMarks
<1>4. CASE RecordClaim(m) /\ ~UNCHANGED <<host, hostCache>>
  <2>. DEFINE r == [host[h] EXCEPT !.claim = m, !.phase = "Claimed"]
  <2>1. Update(m, h, r, {h}) /\ t.pc = "record" BY <1>4 DEF RecordClaim
  <2>2. host[h].label = m BY <1>0, <2>1 DEF Update, MayUpdate, CopyOf
  <2>3. r.there = host[h].there /\ r.label = host[h].label /\ r.claim = m
    BY <1>0 DEF HostObjects
  <2>. HIDE DEF r
  <2>. QED BY <1>3, <2>1, <2>2, <2>3
<1>5. CASE MarkProvisioned(m) /\ ~UNCHANGED <<host, hostCache>>
  <2>. DEFINE r == [host[h] EXCEPT !.phase = "Provisioned"]
  <2>1. Update(m, h, r, {}) BY <1>5 DEF MarkProvisioned
  <2>2. r.there = host[h].there /\ r.label = host[h].label /\ r.claim = host[h].claim
    BY <1>0 DEF HostObjects
  <2>. HIDE DEF r
  <2>. QED BY <1>3, <2>1, <2>2
<1>6. CASE UnlabelHost(m) /\ ~UNCHANGED <<host, hostCache>>
  <2>. DEFINE r == [host[h] EXCEPT !.label = None]
  <2>1. Update(m, h, r, {h}) BY <1>6 DEF UnlabelHost
  <2>2. r.there = host[h].there /\ r.label = None /\ r.claim = host[h].claim
    BY <1>0 DEF HostObjects
  <2>. HIDE DEF r
  <2>. QED BY <1>3, <2>1, <2>2
<1>7. CASE UnclaimHost(m) /\ ~UNCHANGED <<host, hostCache>>
  <2>. DEFINE r == [host[h] EXCEPT !.claim = None, !.phase = "Pending", !.reset = t.cond]
  <2>1. Update(m, h, r, {}) BY <1>7 DEF UnclaimHost
  <2>2. r.there = host[h].there /\ r.label = host[h].label /\ r.claim = None
    BY <1>0 DEF HostObjects
  <2>. HIDE DEF r
  <2>. QED BY <1>3, <2>1, <2>2
<1>. QED BY <1>2, <1>4, <1>5, <1>6, <1>7

\* The steps of a HostMachine that write no Host, other than a choice.
LEMMA MachineQuietMarks ==
    ASSUME OneInv, NEW m \in Machines,
           \/ WaitForDependency(m) \/ UseHostRef(m) \/ RecoverClaim(m) \/ RecoverLabel(m)
           \/ BootstrapUnavailable(m) \/ RunBootstrap(m) \/ BeginDelete(m) \/ ResetHost(m)
           \/ PatchMeta(m) \/ PatchStatus(m) \/ PatchFails(m)
    PROVE  MarkInv'
<1>0. /\ TypeOK /\ work[m] \in WorkStates /\ Begin(m) \in WorkStates /\ Idle \in WorkStates
      /\ work \in [Machines -> WorkStates] /\ machineCache[m] \in MachineObjects
  BY BeginTyped, RecordTypes DEF OneInv, ClaimInv, TypeOK
<1>1. UNCHANGED <<host, hostCache>>
  BY DEF WaitForDependency, UseHostRef, RecoverClaim, RecoverLabel, BootstrapUnavailable,
         RunBootstrap, BeginDelete, ResetHost, PatchMeta, PatchStatus, PatchFails
<1>2. \/ \E u : Return(m, u)
      \/ \E u : Become(m, u) /\ u.pc # "label"
  <2>1. CASE UseHostRef(m) \/ RecoverClaim(m) \/ RecoverLabel(m)
    <3>1. \A h : /\ [Begin(m) EXCEPT !.pc = "boot", !.host = h].pc = "boot"
                 /\ [Begin(m) EXCEPT !.pc = "boot", !.host = h, !.new.ref = h].pc = "boot"
                 /\ [Begin(m) EXCEPT !.pc = "record", !.host = h].pc = "record"
      BY <1>0 DEF WorkStates
    <3>. QED BY <2>1, <3>1 DEF UseHostRef, RecoverClaim, RecoverLabel
  <2>2. CASE RunBootstrap(m) \/ ResetHost(m)
    <3>1. /\ [work[m] EXCEPT !.new.provisioned = TRUE, !.pc = "mark"].pc = "mark"
          /\ \A c : [work[m] EXCEPT !.pc = "unlabel", !.cond = c].pc = "unlabel"
      BY <1>0 DEF WorkStates
    <3>. QED BY <2>2, <3>1 DEF RunBootstrap, ResetHost
  <2>3. CASE BeginDelete(m)
    <3>. DEFINE b == [Idle EXCEPT !.seen = machineCache[m], !.new = machineCache[m]]
    <3>1. \A h : [b EXCEPT !.pc = "reset", !.host = h].pc = "reset" BY DEF Idle
    <3>. QED BY <2>3, <3>1 DEF BeginDelete
  <2>4. CASE PatchMeta(m) \/ PatchStatus(m) \/ PatchFails(m)
    <3>1. Idle.pc = "idle" /\ [work[m] EXCEPT !.pc = "patchStatus"].pc = "patchStatus"
      BY <1>0 DEF Idle, WorkStates
    <3>. QED BY <2>4, <3>1 DEF PatchMeta, PatchStatus, PatchFails, StatusNext
  <2>. QED BY <2>1, <2>2, <2>3, <2>4 DEF WaitForDependency, BootstrapUnavailable
<1>3. \A x \in Machines : work'[x].pc # "label" \/ work[x].pc = "label"
  BY <1>0, <1>2, ReturnGoes DEF Become
<1>. QED BY <1>1, <1>3, UnwrittenMarks

\* The Host reconciler, operators and informers mark nothing; a Host that goes takes its
\* marks with it.
LEMMA HostStepMarks ==
    ASSUME "hostLag" \notin Faults, OneInv, NEW h \in Hosts,
           HostStep(h) \/ RunEnds(h) \/ DeleteHost(h) \/ SetUnhealthy(h) \/ SyncHost(h)
    PROVE  MarkInv'
<1>0. TypeOK /\ MarkInv /\ host[h] \in HostObjects /\ hostCache \in [Hosts -> HostObjects]
  BY DEF OneInv, ClaimInv, TypeOK
<1>1. UNCHANGED work
  BY DEF HostStep, AddHostFinalizer, MarkUnreachable, BeginProbe, EndProbe, AnnounceWait, BeginHostDelete,
         EndHostDelete, RunEnds, DeleteHost, SetUnhealthy, SyncHost
<1>2. CASE UNCHANGED <<host, hostCache>> BY <1>1, <1>2, UnwrittenMarks
<1>3. ASSUME NEW r, StoreHost(h, r), host[h].there,
             \/ r.there = host[h].there /\ r.label = host[h].label /\ r.claim = host[h].claim
             \/ r.label = None /\ r.claim = None
      PROVE  MarkInv'
  <2>1. \A x \in Machines : x \in {r.label, r.claim} => Marked(x, h)
    BY <1>3, NamesAssumption DEF Marked
  <2>2. r.there \/ (r.label = None /\ r.claim = None) BY <1>3
  <2>. QED BY <1>1, <1>3, <2>1, <2>2, WrittenMarks
<1>4. CASE AddHostFinalizer(h)
  <2>. DEFINE r == [host[h] EXCEPT !.fin = TRUE]
  <2>1. r.there = host[h].there /\ r.label = host[h].label /\ r.claim = host[h].claim
    BY <1>0 DEF HostObjects
  <2>2. StoreHost(h, r) /\ host[h].there BY <1>4 DEF AddHostFinalizer
  <2>. HIDE DEF r
  <2>. QED BY <1>3, <2>1, <2>2
<1>5. CASE SetUnhealthy(h)
  <2>. DEFINE r == [host[h] EXCEPT !.unhealthy = ~@]
  <2>1. r.there = host[h].there /\ r.label = host[h].label /\ r.claim = host[h].claim
    BY <1>0 DEF HostObjects
  <2>2. StoreHost(h, r) /\ host[h].there BY <1>5 DEF SetUnhealthy
  <2>. HIDE DEF r
  <2>. QED BY <1>3, <2>1, <2>2
<1>6. CASE PatchesStatus(h)
  BY <1>0, <1>2, <1>3, <1>6, StatusPatch DEF SameHolder
<1>7. GoneHost.label = None /\ GoneHost.claim = None BY DEF GoneHost, NewHost
<1>8. CASE DeleteHost(h)
  <2>. DEFINE r == [host[h] EXCEPT !.deleting = TRUE]
  <2>1. r.there = host[h].there /\ r.label = host[h].label /\ r.claim = host[h].claim
    BY <1>0 DEF HostObjects
  <2>2. (StoreHost(h, r) \/ StoreHost(h, GoneHost)) /\ host[h].there BY <1>8 DEF DeleteHost
  <2>. HIDE DEF r
  <2>. QED BY <1>3, <1>7, <2>1, <2>2
<1>9. CASE EndHostDelete(h) BY <1>2, <1>3, <1>7, <1>9 DEF EndHostDelete
<1>10. CASE SyncHost(h)
  <2>1. host' = host /\ hostCache' = hostCache BY <1>0, <1>10 DEF SyncHost, MarkInv
  <2>. QED BY <1>2, <2>1
<1>. QED BY <1>2, <1>4, <1>5, <1>6, <1>8, <1>9, <1>10
        DEF HostStep, PatchesStatus, BeginProbe, BeginHostDelete, RunEnds

\* A restart forgets the reconciles and no mark; a move also drops the claims.
LEMMA RestartMarks ==
    ASSUME OneInv, Crash \/ Move
    PROVE  MarkInv'
<1>0. TypeOK /\ MarkInv BY DEF OneInv, ClaimInv
<1>1. /\ hostCache' = host' /\ \A x \in Machines : work'[x].pc # "label"
  <2>1. hostCache' = host' /\ work' = [x \in Machines |-> Idle] BY DEF Crash, Move, Restart
  <2>. QED BY <2>1 DEF Idle
<1>2. ASSUME NEW h \in Hosts
      PROVE  /\ host'[h].there = host[h].there /\ host'[h].label = host[h].label
             /\ host'[h].claim \in {host[h].claim, None}
  <2>1. host[h] \in HostObjects BY <1>0 DEF TypeOK
  <2>. DEFINE r == [host[h] EXCEPT !.claim = None, !.phase = "Pending", !.waits = FALSE,
                                   !.reset = "none"]
  <2>2. r.there = host[h].there /\ r.label = host[h].label /\ r.claim = None
    BY <2>1 DEF HostObjects
  <2>3. host' = host \/ host'[h] = r BY DEF Crash, Move, Restart
  <2>. HIDE DEF r
  <2>. QED BY <2>2, <2>3
<1>3. /\ \A h \in Hosts : \A x \in Machines : Marked(x, h)' => Marked(x, h)
      /\ \A h \in Hosts : ~host'[h].there => host'[h].label = None /\ host'[h].claim = None
  BY <1>0, <1>2, NamesAssumption DEF Marked, MarkInv
<1>. QED BY <1>1, <1>3, NoNewMarks

\* Every step keeps it.
LEMMA OneStep ==
    ASSUME "hostLag" \notin Faults
    PROVE  OneInv /\ [Next]_vars => OneInv'
<1>. SUFFICES ASSUME OneInv, [Next]_vars PROVE OneInv' OBVIOUS
<1>1. ClaimInv' BY ClaimStep DEF OneInv
<1>2. MarkInv'
  <2>1. CASE UNCHANGED vars BY <2>1, UnwrittenMarks DEF vars
  <2>2. ASSUME NEW m \in Machines, MachineStep(m) PROVE MarkInv'
    BY <2>2, ChoosingMarks, LabelMarks, MachineWriteMarks, MachineQuietMarks DEF MachineStep
  <2>3. ASSUME NEW m \in Machines, CreateMachine(m) \/ DeleteMachine(m) \/ SyncMachine(m)
        PROVE  MarkInv'
    BY <2>3, UnwrittenMarks DEF CreateMachine, DeleteMachine, SyncMachine
  <2>. QED BY <2>1, <2>2, <2>3, HostStepMarks, RestartMarks DEF Next
<1>. QED BY <1>1, <1>2 DEF OneInv

\* As long as the cache of Hosts keeps up, no crash, failed patch, stale HostMachine,
\* deletion or move makes a machine mark a second Host: claimHost finds the first one by
\* its claimRef or its label.
THEOREM OneHostEach == ASSUME "hostLag" \notin Faults PROVE Spec => []OneHostPerMachine
<1>1. Init => OneInv
  <2>. SUFFICES ASSUME Init PROVE MarkInv BY ClaimInit DEF OneInv
  <2>1. \A h \in Hosts : host[h].label = None /\ host[h].claim = None BY DEF Init, NewHost
  <2>2. \A m \in Machines : work[m].pc = "idle" /\ m # None BY NamesAssumption DEF Init, Idle
  <2>3. hostCache = host BY DEF Init
  <2>. QED BY <2>1, <2>2, <2>3 DEF MarkInv, Marked, OneHostPerMachine
<1>2. OneInv => OneHostPerMachine BY DEF OneInv, MarkInv
<1>. QED BY <1>1, <1>2, OneStep, PTL DEF Spec

-----------------------------------------------------------------------------
(* The pool implements HostRun.                                            *)

\* The cache of Hosts keeps up, or there is only one Host to find.
Tracked == "hostLag" \notin Faults \/ \A g, h \in Hosts : g = h

RunInv == ServingInv /\ OneHostPerMachine

\* What the disks d say of machine m's bootstrap, and what the pool answers.
Told(d, m) == IF \E h \in Hosts : d[h].by = m
              THEN d[CHOOSE h \in Hosts : d[h].by = m].run ELSE "idle"
Out(m)     == machine[m].state \in {"deleting", "gone"}
Answer(m)  == IF Out(m) THEN "over" ELSE Told(disk, m)

\* The status that HostRun is about.
LEMMA StatusAnswers ==
    /\ Status = [m \in Machines |-> Answer(m)]
    /\ Status' = [m \in Machines |-> Answer(m)']
BY DEF Status, Answer, Out, Told

\* A step that changes no answer stutters.
LEMMA SameAnswers ==
    ASSUME \A m \in Machines : Answer(m)' = Answer(m)
    PROVE  UNCHANGED Status
BY StatusAnswers

\* A step that changes one answer along HostRun is a step of it.
LEMMA OneAnswer ==
    ASSUME NEW m \in Machines, \A x \in Machines \ {m} : Answer(x)' = Answer(x),
           \/ Answer(m) = "idle" /\ Answer(m)' = "running"
           \/ Answer(m) = "running" /\ Answer(m)' \in {"succeeded", "failed"}
           \/ Answer(m)' = "over"
    PROVE  Run!Next
<1>1. Status' = [Status EXCEPT ![m] = Answer(m)'] /\ Status[m] = Answer(m)
  BY StatusAnswers
<1>2. Run!Start(m) \/ Run!End(m) \/ Run!Leave(m)
  BY <1>1 DEF Run!Start, Run!End, Run!Leave
<1>. QED BY <1>2 DEF Run!Next

\* A run on one disk only is the one that is told of.
LEMMA ToldOf ==
    ASSUME NEW d, NEW m, NEW h \in Hosts, d[h].by = m, \A g \in Hosts : d[g].by = m => g = h
    PROVE  Told(d, m) = d[h].run
<1>1. (CHOOSE g \in Hosts : d[g].by = m) = h OBVIOUS
<1>. QED BY <1>1 DEF Told

\* Disks that carry the same run of m tell the same.
LEMMA ToldSame ==
    ASSUME NEW d, NEW e, NEW m,
           \A g, h \in Hosts : d[g].by = m /\ d[h].by = m => g = h,
           \A h \in Hosts : d[h].by = m \/ e[h].by = m => d[h] = e[h]
    PROVE  Told(d, m) = Told(e, m)
<1>1. CASE \E h \in Hosts : d[h].by = m
  <2>1. PICK h \in Hosts : d[h].by = m BY <1>1
  <2>2. Told(d, m) = d[h].run BY <2>1, ToldOf
  <2>3. e[h].by = m /\ \A g \in Hosts : e[g].by = m => g = h BY <2>1
  <2>4. Told(e, m) = e[h].run BY <2>3, ToldOf
  <2>. QED BY <2>1, <2>2, <2>4
<1>2. CASE ~\E h \in Hosts : d[h].by = m
  <2>1. ~\E h \in Hosts : e[h].by = m BY <1>2
  <2>. QED BY <1>2, <2>1 DEF Told
<1>. QED BY <1>1, <1>2

\* A machine in service has its run on one disk at most: the one that is marked as its own.
LEMMA OneDisk ==
    ASSUME RunInv, NEW m \in Machines, ~Out(m), NEW g \in Hosts, disk[g].by = m
    PROVE  /\ machine[m].state = "live"
           /\ \A h \in Hosts : disk[h].by = m \/ host[h].claim = m => h = g
<1>1. MachineInv(m) /\ machine[m] \in MachineObjects BY Own DEF RunInv
<1>2. machine[m].state = "live" BY <1>1 DEF MachineInv, RefInv, Out, MachineObjects
<1>3. \A h \in Hosts : disk[h].by = m => host[h].label = m BY <1>1, <1>2 DEF MachineInv, DiskInv
<1>. QED BY <1>2, <1>3 DEF RunInv, OneHostPerMachine

\* A step that changes a disk: its machine starts, or is out of service, and nobody else's
\* answer depends on that disk.
LEMMA DiskStepRefines ==
    ASSUME RunInv, NEW m \in Machines, RunBootstrap(m) \/ ResetHost(m), disk' # disk
    PROVE  [Run!Next]_Status
<1>. DEFINE h == work[m].host
<1>0. /\ Good(m, work[m]) /\ h \in Hosts /\ ServingInv /\ LabelAgreesWithClaim /\ m # None
      /\ UNCHANGED <<machine, host>> /\ disk \in [Hosts -> DiskStates] /\ work[m].pc \in {"boot", "reset"}
  BY Own DEF RunInv, RunBootstrap, ResetHost, MachineInv, Releasing, TypeOK
<1>1. host[h].claim = m BY <1>0 DEF Good, Releasing
<1>2. /\ ResetHost(m) => machine[m].state = "deleting" /\ disk' = [disk EXCEPT ![h] = CleanDisk]
      /\ ~ResetHost(m) => /\ disk' = [disk EXCEPT ![h] = [by |-> m, run |-> "running"]]
                          /\ disk[h].by # m
  <2>1. CASE ResetHost(m) BY <1>0, <2>1 DEF ResetHost, Good, Releasing
  <2>2. CASE ~ResetHost(m)
    <3>1. RunBootstrap(m) /\ disk[h] \in DiskStates BY <1>0, <2>2
    <3>. QED BY <2>2, <3>1 DEF RunBootstrap, DiskStates
  <2>. QED BY <2>1, <2>2
<1>3. /\ \A g \in Hosts \ {h} : disk'[g] = disk[g]
      /\ disk'[h].by \in {m, None} /\ (~ResetHost(m) => disk'[h].by = m /\ disk'[h].run = "running")
  BY <1>0, <1>2 DEF CleanDisk
<1>. HIDE DEF h
<1>4. ASSUME NEW x \in Machines \ {m} PROVE Answer(x)' = Answer(x)
  <2>1. Out(x)' <=> Out(x) BY <1>0 DEF Out
  <2>2. CASE Out(x) BY <2>1, <2>2 DEF Answer
  <2>3. CASE ~Out(x)
    <3>1. disk[h].by # x
      <4>. SUFFICES ASSUME disk[h].by = x PROVE FALSE OBVIOUS
      <4>1. machine[x].state = "live" BY <1>0, <2>3, OneDisk
      <4>2. host[h].label = x BY <1>0, <4>1, Own DEF MachineInv, DiskInv
      <4>. QED BY <1>0, <1>1, <4>2, NamesAssumption DEF LabelAgreesWithClaim
    <3>2. disk'[h].by # x BY <1>3, NamesAssumption
    <3>3. Told(disk, x) = Told(disk', x)
      <4>1. \A g, k \in Hosts : disk[g].by = x /\ disk[k].by = x => g = k
        BY <2>3, OneDisk
      <4>2. \A g \in Hosts : disk[g].by = x \/ disk'[g].by = x => disk[g] = disk'[g]
        BY <1>3, <3>1, <3>2
      <4>. QED BY <4>1, <4>2, ToldSame
    <3>. QED BY <2>1, <2>3, <3>3 DEF Answer
  <2>. QED BY <2>2, <2>3
<1>5. CASE Out(m)
  <2>1. Answer(m)' = "over" BY <1>0, <1>5 DEF Answer, Out
  <2>. QED BY <1>4, <2>1, OneAnswer
<1>6. CASE ~Out(m)
  <2>0. ~ResetHost(m) BY <1>2, <1>6 DEF Out
  <2>1. \A g \in Hosts : disk[g].by # m
    <3>1. ASSUME NEW g \in Hosts, disk[g].by = m PROVE FALSE
      <4>1. h = g BY <1>0, <1>1, <1>6, <3>1, OneDisk
      <4>. QED BY <1>2, <2>0, <3>1, <4>1
    <3>. QED BY <3>1
  <2>2. Answer(m) = "idle" BY <1>6, <2>1 DEF Answer, Told
  <2>3. Told(disk', m) = "running"
    <3>1. disk'[h].by = m /\ disk'[h].run = "running" BY <1>3, <2>0
    <3>2. \A g \in Hosts : disk'[g].by = m => g = h BY <1>3, <2>1
    <3>. QED BY <1>0, <3>1, <3>2, ToldOf
  <2>4. Answer(m)' = "running" BY <1>0, <1>6, <2>3 DEF Answer, Out
  <2>. QED BY <1>4, <2>2, <2>4, OneAnswer
<1>. QED BY <1>5, <1>6

\* A run that ends is the run its machine is asked about.
LEMMA RunEndRefines ==
    ASSUME RunInv, NEW h \in Hosts, RunEnds(h)
    PROVE  [Run!Next]_Status
<1>0. disk \in [Hosts -> DiskStates] BY DEF RunInv, ServingInv, ClaimInv, TypeOK
<1>1. /\ machine' = machine /\ disk[h].run = "running"
      /\ disk'[h].by = disk[h].by /\ disk'[h].run \in {"succeeded", "failed"}
      /\ \A g \in Hosts \ {h} : disk'[g] = disk[g]
  BY <1>0 DEF RunEnds, DiskStates
<1>2. ASSUME NEW x \in Machines, Out(x) \/ disk[h].by # x PROVE Answer(x)' = Answer(x)
  <2>1. Out(x)' <=> Out(x) BY <1>1 DEF Out
  <2>2. CASE Out(x) BY <2>1, <2>2 DEF Answer
  <2>3. CASE ~Out(x)
    <3>1. \A g, k \in Hosts : disk[g].by = x /\ disk[k].by = x => g = k BY <2>3, OneDisk
    <3>2. \A g \in Hosts : disk[g].by = x \/ disk'[g].by = x => disk[g] = disk'[g]
      BY <1>1, <1>2, <2>3
    <3>3. Told(disk, x) = Told(disk', x) BY <3>1, <3>2, ToldSame
    <3>. QED BY <2>1, <2>3, <3>3 DEF Answer
  <2>. QED BY <2>2, <2>3
<1>3. ASSUME NEW m \in Machines, disk[h].by = m, ~Out(m) PROVE Run!Next
  <2>1. \A g \in Hosts : disk[g].by = m => g = h BY <1>3, OneDisk
  <2>2. Told(disk, m) = "running" BY <1>1, <1>3, <2>1, ToldOf
  <2>3. \A g \in Hosts : disk'[g].by = m => g = h BY <1>1, <2>1
  <2>4. Told(disk', m) = disk'[h].run BY <1>1, <1>3, <2>3, ToldOf
  <2>5. Answer(m) = "running" /\ Answer(m)' \in {"succeeded", "failed"}
    BY <1>1, <1>3, <2>2, <2>4 DEF Answer, Out
  <2>. QED BY <1>2, <1>3, <2>5, OneAnswer
<1>. QED BY <1>2, <1>3, SameAnswers

\* What the other steps do to the states of the machines.
LEMMA MachineStates ==
    ASSUME TypeOK, [Next]_vars
    PROVE  \/ \A x \in Machines : machine'[x].state = machine[x].state
           \/ \E m \in Machines :
                 /\ \A x \in Machines \ {m} : machine'[x] = machine[x]
                 /\ \/ machine'[m].state \in {"deleting", "gone"}
                    \/ machine[m].state = "absent" /\ machine'[m].state = "live"
<1>0. machine \in [Machines -> MachineObjects] BY DEF TypeOK
<1>1. CASE machine' = machine BY <1>1
<1>2. ASSUME NEW m \in Machines, PatchMeta(m) \/ PatchStatus(m)
      PROVE  /\ \A x \in Machines \ {m} : machine'[x] = machine[x]
             /\ machine'[m].state \in {machine[m].state, "gone"}
  <2>. DEFINE t == work[m]
              c == machine[m]
              s == [c EXCEPT !.ref = IF t.new.ref = t.seen.ref THEN @ ELSE t.new.ref,
                             !.provisioned = @ \/ t.new.provisioned]
              f == [c EXCEPT !.fin = TRUE]
  <2>1. s.state = c.state /\ f.state = c.state /\ GoneMachine.state = "gone"
    BY <1>0 DEF MachineObjects, GoneMachine, NoMachine
  <2>2. UNCHANGED machine \/ StoreMachine(m, s) \/ StoreMachine(m, f)
        \/ StoreMachine(m, GoneMachine)
    BY <1>2 DEF PatchMeta, PatchStatus
  <2>. HIDE DEF s, f
  <2>. QED BY <1>0, <2>1, <2>2 DEF StoreMachine
<1>3. ASSUME NEW m \in Machines, CreateMachine(m) \/ DeleteMachine(m)
      PROVE  /\ \A x \in Machines \ {m} : machine'[x] = machine[x]
             /\ \/ machine'[m].state \in {"deleting", "gone"}
                \/ machine[m].state = "absent" /\ machine'[m].state = "live"
  <2>. DEFINE c == [NoMachine EXCEPT !.state = "live"]
              d == [machine[m] EXCEPT !.state = "deleting"]
  <2>1. c.state = "live" /\ d.state = "deleting" /\ GoneMachine.state = "gone"
    BY <1>0 DEF MachineObjects, GoneMachine, NoMachine
  <2>2. \/ machine[m].state = "absent" /\ StoreMachine(m, c)
        \/ StoreMachine(m, d) \/ StoreMachine(m, GoneMachine)
    BY <1>3 DEF CreateMachine, DeleteMachine
  <2>. HIDE DEF c, d
  <2>. QED BY <1>0, <2>1, <2>2 DEF StoreMachine
<1>4. CASE Move
  <2>1. machine' = [m \in Machines |-> [machine[m] EXCEPT !.ref = None, !.provisioned = FALSE]]
    BY <1>4 DEF Move, Restart
  <2>. QED BY <1>0, <2>1 DEF MachineObjects
<1>5. \/ machine' = machine \/ Move
      \/ \E m \in Machines : PatchMeta(m) \/ PatchStatus(m) \/ CreateMachine(m) \/ DeleteMachine(m)
  BY DEF Next, vars, MachineStep, WaitForDependency, UseHostRef, RecoverClaim, RecoverLabel,
      ChooseHost, LabelHost, RecordClaim, BootstrapUnavailable, RunBootstrap, MarkProvisioned,
      PatchFails, BeginDelete, ResetHost, UnlabelHost, UnclaimHost, HostStep, AddHostFinalizer,
      MarkUnreachable, BeginProbe, EndProbe, AnnounceWait, BeginHostDelete, EndHostDelete,
      SyncMachine, RunEnds, DeleteHost, SetUnhealthy, SyncHost, Crash, Restart
<1>. QED BY <1>1, <1>2, <1>3, <1>4, <1>5

\* Every step of the pool is a step of HostRun, or changes no answer.
LEMMA PoolStepRefines ==
    ASSUME RunInv, [Next]_vars
    PROVE  [Run!Next]_Status
<1>1. CASE disk' = disk
  <2>1. CASE \A x \in Machines : machine'[x].state = machine[x].state
    BY <1>1, <2>1, SameAnswers DEF Answer, Out
  <2>2. ASSUME NEW m \in Machines, \A x \in Machines \ {m} : machine'[x] = machine[x],
               \/ machine'[m].state \in {"deleting", "gone"}
               \/ machine[m].state = "absent" /\ machine'[m].state = "live"
        PROVE  [Run!Next]_Status
    <3>1. \A x \in Machines \ {m} : Answer(x)' = Answer(x) BY <1>1, <2>2 DEF Answer, Out
    <3>2. Answer(m)' = "over" \/ Answer(m)' = Answer(m) BY <1>1, <2>2 DEF Answer, Out
    <3>. QED BY <3>1, <3>2, OneAnswer, SameAnswers
  <2>3. TypeOK BY DEF RunInv, ServingInv, ClaimInv
  <2>. QED BY <2>1, <2>2, <2>3, MachineStates
<1>2. CASE disk' # disk
  <2>1. \/ \E m \in Machines : RunBootstrap(m) \/ ResetHost(m)
        \/ \E h \in Hosts : RunEnds(h)
    BY <1>2 DEF Next, vars, MachineStep, WaitForDependency, UseHostRef, RecoverClaim,
        RecoverLabel, ChooseHost, LabelHost, RecordClaim, BootstrapUnavailable, MarkProvisioned,
        PatchMeta, PatchStatus, PatchFails, BeginDelete, UnlabelHost, UnclaimHost, HostStep,
        AddHostFinalizer, MarkUnreachable, BeginProbe, EndProbe, AnnounceWait, BeginHostDelete,
        EndHostDelete, CreateMachine, DeleteMachine, SyncMachine, DeleteHost, SetUnhealthy, SyncHost, Crash, Move, Restart
  <2>. QED BY <1>2, <2>1, DiskStepRefines, RunEndRefines
<1>. QED BY <1>1, <1>2

\* A steady pool that does not lose track of its Hosts implements HostRun: each machine's
\* script is started once, on one Host, and what the pool says of it only moves forward,
\* across releases of other machines, probes, unreachable hosts and moves.
THEOREM PoolImplementsHostRun == ASSUME Steady, Tracked PROVE Spec => ImplementsHostRun
<1>1. Init => Run!Init
  <2>. SUFFICES ASSUME Init PROVE \A m \in Machines : Status[m] = "idle"
    BY StatusAnswers DEF Run!Init
  <2>1. \A m \in Machines : machine[m].state = "absent" /\ \A h \in Hosts : disk[h].by # m
    BY NamesAssumption DEF Init, CleanDisk, NoMachine
  <2>. QED BY <2>1, StatusAnswers DEF Answer, Told, Out
<1>2. Spec => []OneHostPerMachine
  <2>1. CASE "hostLag" \notin Faults BY <2>1, OneHostEach
  <2>2. CASE \A g, h \in Hosts : g = h
    <3>1. OneHostPerMachine BY <2>2 DEF OneHostPerMachine
    <3>. QED BY <3>1, PTL
  <2>. QED BY <2>1, <2>2 DEF Tracked
<1>3. ServingInv /\ OneHostPerMachine /\ [Next]_vars => [Run!Next]_Status
  BY PoolStepRefines DEF RunInv
<1>. QED BY <1>1, <1>2, <1>3, ServingInit, ServingStep, PTL
         DEF Spec, ImplementsHostRun, Run!Spec
============================================================================
