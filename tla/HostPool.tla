------------------------------ MODULE HostPool ------------------------------
(***************************************************************************)
(* The pool of Hosts and the two reconcilers that share it:                *)
(* HostMachineReconciler (claims, bootstraps, resets and releases a Host   *)
(* for a Cluster API Machine) and HostReconciler (probes unclaimed Hosts). *)
(*                                                                         *)
(* Every API call and every SSH operation is a step of its own, so other   *)
(* reconciles, operators and faults come in between.  A reconcile reads    *)
(* the manager's informer cache, which may lag behind the API server.      *)
(* Update and Status().Update carry the resourceVersion of the copy that   *)
(* was read and fail with a conflict when the Host changed since: `fresh'  *)
(* records which copies still have the server's version.  The HostMachine  *)
(* itself, and everything HostReconciler writes, goes by a merge patch of  *)
(* the fields that changed, with no version check; the conditions of a     *)
(* Host are one field of such a patch.                                     *)
(***************************************************************************)
EXTENDS Integers, FiniteSets

CONSTANTS
    Hosts,      \* numbered in the order inventory.SortHosts gives them
    Machines,   \* HostMachines: the name and the UID are one identity
    Selector,   \* Selector[m]: the Hosts m's hostSelector matches
    Faults,     \* what the environment may do, a subset of FaultKinds
    None,       \* no Host, no HostMachine
    Cache       \* the manager's informer cache, as a holder of copies

\* hostLag, machineLag: the informer cache of Hosts or HostMachines trails
\* the API server.  patchError: the deferred patch of a HostMachine fails.
\* crash: the manager restarts.  ssh: a host does not answer or a command on
\* it fails.  unhealthy, hostDelete: an operator edits or deletes a Host.
\* move: clusterctl moves the objects to another management cluster.
FaultKinds == {"hostLag", "machineLag", "patchError", "crash", "ssh",
               "unhealthy", "hostDelete", "move"}

\* claimHost walks a sorted list: of any Hosts it considers one comes first.
ASSUME HostsAssumption ==
    /\ Hosts \subseteq Nat
    /\ \A S \in SUBSET Hosts : S # {} => \E h \in S : \A g \in S : h <= g
ASSUME SelectorAssumption == Selector \in [Machines -> SUBSET Hosts]
ASSUME FaultsAssumption   == Faults \subseteq FaultKinds
ASSUME NamesAssumption    == None \notin Hosts \cup Machines /\ Cache \notin Machines

VARIABLES
    host,           \* the Host objects on the API server
    machine,        \* the HostMachine objects on the API server
    hostCache,      \* the cached Hosts
    machineCache,   \* the cached HostMachines
    fresh,          \* fresh[x]: the Hosts of which x holds the current version
    work,           \* work[m]: the running reconcile of HostMachine m
    probe,          \* probe[h]: the running reconcile of Host h
    disk            \* disk[h]: whose bootstrap run the machine behind h carries

vars == <<host, machine, hostCache, machineCache, fresh, work, probe, disk>>

-----------------------------------------------------------------------------
(* State.                                                                  *)

Phases      == {"Pending", "Available", "Claimed", "Provisioned", "Unreachable"}
MachineOrNone == Machines \cup {None}
HostOrNone    == Hosts \cup {None}

\* What the condition Reset says of a Host.
ResetStates == {"none", "clean", "unverified"}

\* A Host: label is the claimed-by label on the object, claim is
\* status.claimRef, reset the condition Reset, and waits is whether Reachable
\* says that the deletion waits for the claimant; it decides nothing otherwise.
HostObjects == [there: BOOLEAN, fin: BOOLEAN, deleting: BOOLEAN, unhealthy: BOOLEAN,
                label: MachineOrNone, claim: MachineOrNone, phase: Phases,
                waits: BOOLEAN, reset: ResetStates]

MachineObjects == [state: {"absent", "live", "deleting", "gone"}, fin: BOOLEAN,
                   ref: HostOrNone, provisioned: BOOLEAN]

NewHost     == [there |-> TRUE, fin |-> FALSE, deleting |-> FALSE, unhealthy |-> FALSE,
                label |-> None, claim |-> None, phase |-> "Pending",
                waits |-> FALSE, reset |-> "none"]
GoneHost    == [NewHost EXCEPT !.there = FALSE]
NoMachine   == [state |-> "absent", fin |-> FALSE, ref |-> None, provisioned |-> FALSE]
GoneMachine == [NoMachine EXCEPT !.state = "gone"]

\* A reconcile of a HostMachine: seen is the copy patch.NewHelper took, new
\* the copy the reconcile edits; host is the Host it works on, todo the
\* candidates claimHost still has to try, cond the Reset condition to write.
Steps == {"idle", "label", "record", "boot", "mark", "reset", "unlabel", "unclaim",
          "patchMeta", "patchStatus"}
Idle  == [pc |-> "idle", host |-> None, todo |-> {}, cond |-> "none",
          seen |-> NoMachine, new |-> NoMachine]
WorkStates == [pc: Steps, host: HostOrNone, todo: SUBSET Hosts,
               cond: ResetStates,
               seen: MachineObjects, new: MachineObjects]

\* A reconcile of a Host: what it read, when that decides what it writes.
NotProbing  == [pc |-> "idle", label |-> None, phase |-> "Pending", reset |-> "none"]
ProbeStates == [pc: {"idle", "probe", "drop"}, label: MachineOrNone, phase: Phases,
                reset: ResetStates]

CleanDisk  == [by |-> None, run |-> "none"]
DiskStates == [by: MachineOrNone, run: {"none", "running", "succeeded", "failed"}]

Readers == Machines \cup {Cache}

TypeOK ==
    /\ host         \in [Hosts -> HostObjects]
    /\ machine      \in [Machines -> MachineObjects]
    /\ hostCache    \in [Hosts -> HostObjects]
    /\ machineCache \in [Machines -> MachineObjects]
    /\ fresh        \in [Readers -> SUBSET Hosts]
    /\ work         \in [Machines -> WorkStates]
    /\ probe        \in [Hosts -> ProbeStates]
    /\ disk         \in [Hosts -> DiskStates]

Init ==
    /\ host         = [h \in Hosts |-> NewHost]
    /\ machine      = [m \in Machines |-> NoMachine]
    /\ hostCache    = host
    /\ machineCache = machine
    /\ fresh        = [x \in Readers |-> IF x = Cache THEN Hosts ELSE {}]
    /\ work         = [m \in Machines |-> Idle]
    /\ probe        = [h \in Hosts |-> NotProbing]
    /\ disk         = [h \in Hosts |-> CleanDisk]

-----------------------------------------------------------------------------
(* The API server and the informer caches.                                 *)

\* A write of Host h.  Without lag the cache follows at once.
StoreHost(h, r) ==
    /\ host'      = [host EXCEPT ![h] = r]
    /\ hostCache' = IF "hostLag" \in Faults THEN hostCache ELSE [hostCache EXCEPT ![h] = r]

StoreMachine(m, r) ==
    /\ machine'      = [machine EXCEPT ![m] = r]
    /\ machineCache' = IF "machineLag" \in Faults THEN machineCache
                       ELSE [machineCache EXCEPT ![m] = r]

\* The copies of h that a write of h leaves current: the cache's, if it follows.
Outdated(h) ==
    [x \in Readers |-> IF x = Cache /\ "hostLag" \notin Faults THEN fresh[x]
                       ELSE fresh[x] \ {h}]

\* m takes its copies of the Hosts in S from the cache; it is done with them.
Read(m, S) == fresh' = [fresh EXCEPT ![m] = S \cap fresh[Cache]]
Forget(m)  == Read(m, {})

\* Mutant: the write is a patch, which no version guards.
MayPatch(m, h) == host[h].there

\* Update or Status().Update by m: it succeeds if m's copy of h has the
\* server's resourceVersion.  Writing what is already there keeps the version.
MayUpdate(m, h) == host[h].there /\ h \in fresh[m]

Update(m, h, r, keep) ==
    /\ MayUpdate(m, h)
    /\ StoreHost(h, r)
    /\ fresh' = [(IF r = host[h] THEN fresh ELSE Outdated(h)) EXCEPT ![m] = keep]

\* The end of a reconcile: nothing is left to do if nothing changed, else the
\* deferred patch runs.
Return(m, t) ==
    work' = [work EXCEPT ![m] = IF t.seen = t.new THEN Idle
             ELSE [Idle EXCEPT !.pc = "patchMeta", !.seen = t.seen, !.new = t.new]]

Become(m, t) == work' = [work EXCEPT ![m] = t]

First(S) == CHOOSE h \in S : \A g \in S : h <= g

-----------------------------------------------------------------------------
(* HostMachineReconciler: finding and claiming a Host.                     *)

\* The reconcile of a live HostMachine begins: the finalizer is added to the
\* copy in memory, and lands with the deferred patch.
Begin(m) ==
    LET seen == machineCache[m]
    IN  [Idle EXCEPT !.seen = seen, !.new = [seen EXCEPT !.fin = TRUE]]

BeginsNormal(m) == work[m].pc = "idle" /\ machineCache[m].state = "live"

\* The infrastructure or the bootstrap data is not there yet.
WaitForDependency(m) ==
    /\ BeginsNormal(m)
    /\ Return(m, Begin(m)) /\ Forget(m)
    /\ UNCHANGED <<host, machine, hostCache, machineCache, probe, disk>>

\* claimHost with a hostRef: the Host it names, or none if that Host is gone.
UseHostRef(m) ==
    /\ BeginsNormal(m)
    /\ LET h == machineCache[m].ref
       IN  /\ h # None
           /\ \/ /\ hostCache[h].there
                 /\ Become(m, [Begin(m) EXCEPT !.pc = "boot", !.host = h])
                 /\ Read(m, {h})
              \/ /\ ~hostCache[h].there
                 /\ Return(m, [Begin(m) EXCEPT !.new.ref = None]) /\ Forget(m)
    /\ UNCHANGED <<host, machine, hostCache, machineCache, probe, disk>>

\* Mutant: only the claimRef is searched, and it does not survive a move.
NoLabel(m) == {}

\* What the three loops of claimHost look for in the cached list.
ClaimedFor(m)  == {h \in Hosts : hostCache[h].there /\ hostCache[h].claim = m}
LabelledFor(m) == {h \in Hosts : hostCache[h].there /\ hostCache[h].label = m}
FreeFor(m)     == {h \in Selector[m] :
                      /\ hostCache[h].there
                      /\ hostCache[h].claim = None
                      /\ ~hostCache[h].unhealthy
                      /\ ~hostCache[h].deleting
                      /\ hostCache[h].phase = "Available"}

\* The claim this machine had already made, read from a Host's status.
RecoverClaim(m) ==
    /\ BeginsNormal(m) /\ machineCache[m].ref = None
    /\ ClaimedFor(m) # {}
    /\ LET h == First(ClaimedFor(m))
       IN  /\ Become(m, [Begin(m) EXCEPT !.pc = "boot", !.host = h, !.new.ref = h])
           /\ Read(m, {h})
    /\ UNCHANGED <<host, machine, hostCache, machineCache, probe, disk>>

\* The same claim, read from the label a move carries.
RecoverLabel(m) ==
    /\ BeginsNormal(m) /\ machineCache[m].ref = None
    /\ ClaimedFor(m) = {} /\ LabelledFor(m) # {}
    /\ LET h == First(LabelledFor(m))
       IN  /\ Become(m, [Begin(m) EXCEPT !.pc = "record", !.host = h])
           /\ Read(m, {h})
    /\ UNCHANGED <<host, machine, hostCache, machineCache, probe, disk>>

\* A fresh claim: the candidates in inventory order, or none at all.
ChooseHost(m) ==
    /\ BeginsNormal(m) /\ machineCache[m].ref = None
    /\ ClaimedFor(m) = {} /\ LabelledFor(m) = {}
    /\ \/ /\ FreeFor(m) # {}
          /\ Become(m, [Begin(m) EXCEPT !.pc = "label", !.todo = FreeFor(m)])
          /\ Read(m, FreeFor(m))
       \/ /\ FreeFor(m) = {}
          /\ Return(m, Begin(m)) /\ Forget(m)
    /\ UNCHANGED <<host, machine, hostCache, machineCache, probe, disk>>

\* The label Update on the first candidate; a conflict moves on to the next,
\* a Host that is gone ends the reconcile with an error.
LabelHost(m) ==
    /\ work[m].pc = "label"
    /\ LET t == work[m]
           h == First(t.todo)
           rest == t.todo \ {h}
       IN  \/ /\ Update(m, h, [host[h] EXCEPT !.label = m], {h})
              /\ Become(m, [t EXCEPT !.pc = "record", !.host = h, !.todo = {}])
           \/ /\ host[h].there /\ ~MayUpdate(m, h)
              /\ IF rest = {} THEN Return(m, t) /\ Forget(m)
                 ELSE Become(m, [t EXCEPT !.todo = rest]) /\ UNCHANGED fresh
              /\ UNCHANGED <<host, hostCache>>
           \/ /\ ~host[h].there
              /\ Return(m, t) /\ Forget(m)
              /\ UNCHANGED <<host, hostCache>>
    /\ UNCHANGED <<machine, machineCache, probe, disk>>

\* recordClaim: the Status().Update; hostRef is set in memory once it landed.
RecordClaim(m) ==
    /\ work[m].pc = "record"
    /\ LET t == work[m]
           h == t.host
       IN  \/ /\ Update(m, h, [host[h] EXCEPT !.claim = m, !.phase = "Claimed"], {h})
              /\ Become(m, [t EXCEPT !.pc = "boot", !.new.ref = h])
           \/ /\ ~MayUpdate(m, h)
              /\ Return(m, t) /\ Forget(m)
              /\ UNCHANGED <<host, hostCache>>
    /\ UNCHANGED <<machine, machineCache, probe, disk>>

-----------------------------------------------------------------------------
(* HostMachineReconciler: bootstrapping, and the deferred patch.           *)

\* The bootstrap secret is unreadable or cannot be rendered, the Host does
\* not answer, or a command over SSH fails.
BootstrapUnavailable(m) ==
    /\ work[m].pc = "boot" /\ "ssh" \in Faults
    /\ Return(m, work[m]) /\ Forget(m)
    /\ UNCHANGED <<host, machine, hostCache, machineCache, probe, disk>>

\* runBootstrap: the state of this machine's own script (by checksum) on the
\* host decides.  A host without it is idle, whatever else it carries.
RunBootstrap(m) ==
    /\ work[m].pc = "boot"
    /\ LET t == work[m]
           h == t.host
           run == IF disk[h].by = m THEN disk[h].run ELSE "idle"
       IN  \/ /\ run = "idle"
              /\ disk' = [disk EXCEPT ![h] = [by |-> m, run |-> "running"]]
              /\ Return(m, t) /\ Forget(m)
           \/ /\ run \in {"running", "failed"}
              /\ Return(m, t) /\ Forget(m)
              /\ UNCHANGED disk
           \/ /\ run = "succeeded"
              /\ Become(m, [t EXCEPT !.new.provisioned = TRUE, !.pc = "mark"])
              /\ UNCHANGED <<fresh, disk>>
    /\ UNCHANGED <<host, machine, hostCache, machineCache, probe>>

\* markHostProvisioned; a conflict is an error, and the patch still runs.
MarkProvisioned(m) ==
    /\ work[m].pc = "mark"
    /\ LET h == work[m].host
       IN  \/ Update(m, h, [host[h] EXCEPT !.phase = "Provisioned"], {})
           \/ /\ ~MayUpdate(m, h)
              /\ Forget(m)
              /\ UNCHANGED <<host, hostCache>>
    /\ Return(m, work[m])
    /\ UNCHANGED <<machine, machineCache, probe, disk>>

\* The status goes by a patch of its own, if it changed, once the metadata's is done.
StatusNext(t) == IF [t.new EXCEPT !.fin = t.seen.fin] = t.seen THEN Idle
                 ELSE [t EXCEPT !.pc = "patchStatus"]

\* The deferred patch: metadata first, then status, each only if it changed.
\* The API server deletes the object when its last finalizer goes.
PatchMeta(m) ==
    /\ work[m].pc = "patchMeta"
    /\ LET t == work[m]
       IN  /\ machine[m].state \in {"live", "deleting"}
           /\ \/ /\ t.seen.fin /\ ~t.new.fin
                 /\ StoreMachine(m, GoneMachine)
                 /\ Become(m, Idle)
              \/ /\ t.new.fin
                 /\ IF t.seen.fin THEN UNCHANGED <<machine, machineCache>>
                    ELSE StoreMachine(m, [machine[m] EXCEPT !.fin = TRUE])
                 /\ Become(m, StatusNext(t))
    /\ UNCHANGED <<host, hostCache, fresh, probe, disk>>

PatchStatus(m) ==
    /\ work[m].pc = "patchStatus"
    /\ machine[m].state \in {"live", "deleting"}
    /\ LET t == work[m]
       IN  StoreMachine(m, [machine[m] EXCEPT
               !.ref = IF t.new.ref = t.seen.ref THEN @ ELSE t.new.ref,
               !.provisioned = @ \/ t.new.provisioned])
    /\ Become(m, Idle)
    /\ UNCHANGED <<host, hostCache, fresh, probe, disk>>

\* A patch fails: the object is gone, or the API server did not take it.  The
\* status is patched also when the metadata could not be.
PatchFails(m) ==
    /\ work[m].pc \in {"patchMeta", "patchStatus"}
    /\ machine[m].state = "gone" \/ "patchError" \in Faults
    /\ Become(m, IF work[m].pc = "patchMeta" THEN StatusNext(work[m]) ELSE Idle)
    /\ UNCHANGED <<host, machine, hostCache, machineCache, fresh, probe, disk>>

-----------------------------------------------------------------------------
(* HostMachineReconciler: reset and release.                               *)

\* reconcileDelete: without a Host to release the finalizer goes at once.
BeginDelete(m) ==
    /\ work[m].pc = "idle" /\ machineCache[m].state = "deleting"
    /\ LET seen == machineCache[m]
           t == [Idle EXCEPT !.seen = seen, !.new = seen]
           h == seen.ref
       IN  \/ /\ h # None => ~hostCache[h].there
              /\ Return(m, [t EXCEPT !.new.ref = None, !.new.fin = FALSE]) /\ Forget(m)
           \/ /\ h # None /\ hostCache[h].there
              /\ Become(m, [t EXCEPT !.pc = "reset", !.host = h]) /\ Read(m, {h})
    /\ UNCHANGED <<host, machine, hostCache, machineCache, probe, disk>>

\* Mutants: a failed reset is reported as a success; or keeps the finalizer.
ResetAssumed(m) ==
    /\ work[m].pc = "reset"
    /\ disk' \in {disk, [disk EXCEPT ![work[m].host] = CleanDisk]}
    /\ Become(m, [work[m] EXCEPT !.pc = "unlabel", !.cond = "clean"])
    /\ UNCHANGED <<host, machine, hostCache, machineCache, fresh, probe>>

ResetInsisted(m) ==
    /\ work[m].pc = "reset"
    /\ \/ /\ disk' = [disk EXCEPT ![work[m].host] = CleanDisk]
          /\ Become(m, [work[m] EXCEPT !.pc = "unlabel", !.cond = "clean"])
          /\ UNCHANGED fresh
       \/ /\ "ssh" \in Faults
          /\ Return(m, work[m]) /\ Forget(m)
          /\ UNCHANGED disk
    /\ UNCHANGED <<host, machine, hostCache, machineCache, probe>>

\* Reset over SSH; a host that cannot be reset is released all the same.
ResetHost(m) ==
    /\ work[m].pc = "reset"
    /\ \/ /\ disk' = [disk EXCEPT ![work[m].host] = CleanDisk]
          /\ Become(m, [work[m] EXCEPT !.pc = "unlabel", !.cond = "clean"])
       \/ /\ "ssh" \in Faults
          /\ Become(m, [work[m] EXCEPT !.pc = "unlabel", !.cond = "unverified"])
          /\ UNCHANGED disk
    /\ UNCHANGED <<host, machine, hostCache, machineCache, fresh, probe>>

\* releaseHost, first write: the labels.
UnlabelHost(m) ==
    /\ work[m].pc = "unlabel"
    /\ LET t == work[m]
           h == t.host
       IN  \/ /\ Update(m, h, [host[h] EXCEPT !.label = None], {h})
              /\ Become(m, [t EXCEPT !.pc = "unclaim"])
           \/ /\ ~host[h].there
              /\ Become(m, [t EXCEPT !.pc = "unclaim"]) /\ Forget(m)
              /\ UNCHANGED <<host, hostCache>>
           \/ /\ host[h].there /\ ~MayUpdate(m, h)
              /\ Return(m, t) /\ Forget(m)
              /\ UNCHANGED <<host, hostCache>>
    /\ UNCHANGED <<machine, machineCache, probe, disk>>

\* releaseHost, second write: the claim, the phase and the Reset condition.
UnclaimHost(m) ==
    /\ work[m].pc = "unclaim"
    /\ LET t == work[m]
           h == t.host
           released == [t EXCEPT !.new.ref = None, !.new.fin = FALSE]
       IN  \/ /\ Update(m, h, [host[h] EXCEPT !.claim = None, !.phase = "Pending",
                                              !.reset = t.cond], {})
              /\ Return(m, released)
           \/ /\ ~host[h].there
              /\ Return(m, released) /\ Forget(m)
              /\ UNCHANGED <<host, hostCache>>
           \/ /\ host[h].there /\ ~MayUpdate(m, h)
              /\ Return(m, t) /\ Forget(m)
              /\ UNCHANGED <<host, hostCache>>
    /\ UNCHANGED <<machine, machineCache, probe, disk>>
-----------------------------------------------------------------------------
(* HostReconciler.                                                         *)

AddHostFinalizer(h) ==
    /\ probe[h].pc = "idle"
    /\ hostCache[h].there /\ ~hostCache[h].deleting /\ ~hostCache[h].fin
    /\ host[h].there
    /\ StoreHost(h, [host[h] EXCEPT !.fin = TRUE])
    /\ fresh' = IF host[h].fin THEN fresh ELSE Outdated(h)
    /\ UNCHANGED <<machine, machineCache, work, probe, disk>>

\* A merge patch of the conditions replaces the list: Reachable is the
\* new one, and Reset is as it was in the copy p that was read.
ReplaceConditions(r, p, w) == [r EXCEPT !.waits = w, !.reset = p.reset]

\* The deferred patch writes what differs from the copy p that was read, and
\* checks no version: the phase v, and the conditions if Reachable has changed
\* in status, message or generation.
PatchHost(h, p, v, changed) ==
    LET r == [host[h] EXCEPT !.phase = IF v = p.phase THEN @ ELSE v]
    IN  /\ StoreHost(h, IF changed THEN ReplaceConditions(r, p, FALSE) ELSE r)
        /\ fresh' = Outdated(h)

\* A claimed Host is left alone ...
Unattended(r) == r.there /\ ~r.deleting /\ r.fin /\ r.claim = None

\* ... one that is marked unhealthy is reported, not probed ...
MarkUnreachable(h) ==
    /\ probe[h].pc = "idle"
    /\ Unattended(hostCache[h]) /\ hostCache[h].unhealthy /\ host[h].there
    /\ \E changed \in BOOLEAN :
          /\ changed \/ hostCache[h].phase # "Unreachable"
          /\ PatchHost(h, hostCache[h], "Unreachable", changed)
    /\ UNCHANGED <<machine, machineCache, work, probe, disk>>

\* ... and any other is probed over SSH.
BeginProbe(h) ==
    /\ probe[h].pc = "idle"
    /\ LET r == hostCache[h]
       IN  /\ Unattended(r) /\ ~r.unhealthy
           /\ probe' = [probe EXCEPT ![h] =
                 [pc |-> "probe", label |-> r.label, phase |-> r.phase, reset |-> r.reset]]
    /\ UNCHANGED <<host, machine, hostCache, machineCache, fresh, work, disk>>

\* Mutants: a probe that ignores the label; that invents a phase; that never
\* recovers a host.
VerdictLabelless(p, up) == IF ~up THEN "Unreachable" ELSE "Available"

VerdictReady(p, up) ==
    CASE ~up             -> "Unreachable"
      [] p.label # None -> "Claimed"
      [] OTHER          -> "Ready"

VerdictFinal(p, up) ==
    CASE ~up \/ p.phase = "Unreachable" -> "Unreachable"
      [] p.label # None -> "Claimed"
      [] OTHER          -> "Available"

\* The phase a probe arrives at, from the labels as they were read.
Verdict(p, up) ==
    CASE ~up             -> "Unreachable"
      [] p.label # None -> "Claimed"
      [] OTHER          -> "Available"

\* The patch that ends the probe.  lastProbeTime changes every time, so the
\* Host gets a new version even when nothing else changes.
EndProbe(h) ==
    /\ probe[h].pc = "probe"
    /\ \E up \in (IF "ssh" \in Faults THEN BOOLEAN ELSE {TRUE}), changed \in BOOLEAN :
         IF host[h].there THEN PatchHost(h, probe[h], Verdict(probe[h], up), changed)
         ELSE UNCHANGED <<host, hostCache, fresh>>
    /\ probe' = [probe EXCEPT ![h] = NotProbing]
    /\ UNCHANGED <<machine, machineCache, work, disk>>

\* The claimant of a Host exists, as far as the caches tell.
ClaimantExists(h) ==
    hostCache[h].claim # None /\ machineCache[hostCache[h].claim].state \in {"live", "deleting"}

\* reconcileDelete: a claimant that exists is waited for, and the first time the
\* Host is patched to say so ...
AnnounceWait(h) ==
    /\ probe[h].pc = "idle"
    /\ hostCache[h].there /\ hostCache[h].deleting /\ ClaimantExists(h) /\ ~hostCache[h].waits
    /\ host[h].there
    /\ StoreHost(h, ReplaceConditions(host[h], hostCache[h], TRUE))
    /\ fresh' = Outdated(h)
    /\ UNCHANGED <<machine, machineCache, work, probe, disk>>

\* ... else the finalizer is dropped.
BeginHostDelete(h) ==
    /\ probe[h].pc = "idle"
    /\ hostCache[h].there /\ hostCache[h].deleting /\ ~ClaimantExists(h)
    /\ probe' = [probe EXCEPT ![h] = [NotProbing EXCEPT !.pc = "drop"]]
    /\ UNCHANGED <<host, machine, hostCache, machineCache, fresh, work, disk>>

EndHostDelete(h) ==
    /\ probe[h].pc = "drop"
    /\ IF host[h].there THEN StoreHost(h, GoneHost) /\ fresh' = Outdated(h)
       ELSE UNCHANGED <<host, hostCache, fresh>>
    /\ probe' = [probe EXCEPT ![h] = NotProbing]
    /\ UNCHANGED <<machine, machineCache, work, disk>>

-----------------------------------------------------------------------------
(* The environment.                                                        *)

\* Cluster API creates and deletes HostMachines.  Without a finalizer the
\* API server removes the object at once.
CreateMachine(m) ==
    /\ machine[m].state = "absent"
    /\ StoreMachine(m, [NoMachine EXCEPT !.state = "live"])
    /\ UNCHANGED <<host, hostCache, fresh, work, probe, disk>>

DeleteMachine(m) ==
    /\ machine[m].state = "live"
    /\ StoreMachine(m, IF machine[m].fin THEN [machine[m] EXCEPT !.state = "deleting"]
                       ELSE GoneMachine)
    /\ UNCHANGED <<host, hostCache, fresh, work, probe, disk>>

\* The detached run on the host ends.
RunEnds(h) ==
    /\ disk[h].run = "running"
    /\ \E r \in {"succeeded", "failed"} : disk' = [disk EXCEPT ![h].run = r]
    /\ UNCHANGED <<host, machine, hostCache, machineCache, fresh, work, probe>>

DeleteHost(h) ==
    /\ "hostDelete" \in Faults
    /\ host[h].there /\ ~host[h].deleting
    /\ StoreHost(h, IF host[h].fin THEN [host[h] EXCEPT !.deleting = TRUE] ELSE GoneHost)
    /\ fresh' = Outdated(h)
    /\ UNCHANGED <<machine, machineCache, work, probe, disk>>

SetUnhealthy(h) ==
    /\ "unhealthy" \in Faults
    /\ host[h].there
    /\ StoreHost(h, [host[h] EXCEPT !.unhealthy = ~@])
    /\ fresh' = Outdated(h)
    /\ UNCHANGED <<machine, machineCache, work, probe, disk>>

\* The informers catch up with one object.
SyncHost(h) ==
    /\ h \notin fresh[Cache]
    /\ hostCache' = [hostCache EXCEPT ![h] = host[h]]
    /\ fresh' = [fresh EXCEPT ![Cache] = @ \cup {h}]
    /\ UNCHANGED <<host, machine, machineCache, work, probe, disk>>

SyncMachine(m) ==
    /\ machineCache[m] # machine[m]
    /\ machineCache' = [machineCache EXCEPT ![m] = machine[m]]
    /\ UNCHANGED <<host, machine, hostCache, fresh, work, probe, disk>>

\* A manager starts with no reconcile running and its caches filled from the
\* objects it finds.
Restart(hosts, machines) ==
    /\ host' = hosts       /\ hostCache' = hosts
    /\ machine' = machines /\ machineCache' = machines
    /\ fresh' = [x \in Readers |-> IF x = Cache THEN Hosts ELSE {}]
    /\ work'  = [m \in Machines |-> Idle]
    /\ probe' = [h \in Hosts |-> NotProbing]
    /\ UNCHANGED disk

Crash == "crash" \in Faults /\ Restart(host, machine)

\* clusterctl move: every object arrives without its status.  It runs once
\* every Machine is provisioned and nothing is being deleted.
Move ==
    /\ "move" \in Faults
    /\ \E m \in Machines : machine[m].state = "live"
    /\ \A m \in Machines : /\ machine[m].state # "deleting"
                           /\ machine[m].state = "live" => machine[m].provisioned
    /\ \A h \in Hosts : ~host[h].deleting
    /\ Restart([h \in Hosts |-> [host[h] EXCEPT !.claim = None, !.phase = "Pending",
                                                !.waits = FALSE, !.reset = "none"]],
               [m \in Machines |-> [machine[m] EXCEPT !.ref = None, !.provisioned = FALSE]])

-----------------------------------------------------------------------------

MachineStep(m) ==
    \/ WaitForDependency(m) \/ UseHostRef(m) \/ RecoverClaim(m) \/ RecoverLabel(m)
    \/ ChooseHost(m) \/ LabelHost(m) \/ RecordClaim(m)
    \/ BootstrapUnavailable(m) \/ RunBootstrap(m) \/ MarkProvisioned(m)
    \/ PatchMeta(m) \/ PatchStatus(m) \/ PatchFails(m)
    \/ BeginDelete(m) \/ ResetHost(m) \/ UnlabelHost(m) \/ UnclaimHost(m)

HostStep(h) ==
    \/ AddHostFinalizer(h) \/ MarkUnreachable(h) \/ BeginProbe(h) \/ EndProbe(h)
    \/ AnnounceWait(h) \/ BeginHostDelete(h) \/ EndHostDelete(h)

Next ==
    \/ \E m \in Machines : \/ MachineStep(m) \/ CreateMachine(m) \/ DeleteMachine(m)
                           \/ SyncMachine(m)
    \/ \E h \in Hosts : \/ HostStep(h) \/ RunEnds(h) \/ DeleteHost(h) \/ SetUnhealthy(h)
                        \/ SyncHost(h)
    \/ Crash \/ Move

Spec == Init /\ [][Next]_vars

-----------------------------------------------------------------------------
(* Properties.                                                             *)

\* A Host that carries both a claimed-by label and a claimRef names the same
\* machine in both: claimHost and releaseHost write them one after the other,
\* and no interleaving with another machine's writes mixes the two.
LabelAgreesWithClaim ==
    \A h \in Hosts : \/ host[h].label = None
                     \/ host[h].claim = None
                     \/ host[h].label = host[h].claim

\* A claim never passes from one machine to another without the Host having
\* been free in between: recordClaim does not look at the claimRef it
\* overwrites, and the version check has to make that safe.
ClaimNeverStolen ==
    [][\A h \in Hosts : host[h].claim # None => host'[h].claim \in {host[h].claim, None}]_vars

\* A machine that lost the second write of a claim never takes a second Host
\* while the first is still marked as its own.
OneHostPerMachine ==
    \A m \in Machines : \A g, h \in Hosts :
        m \in {host[g].label, host[g].claim} /\ m \in {host[h].label, host[h].claim} => g = h

\* The Host that a live machine's hostRef names is claimed for that machine.
HeldIsClaimed ==
    \A m \in Machines :
        machine[m].state = "live" /\ machine[m].ref # None =>
            LET h == machine[m].ref IN host[h].there /\ host[h].claim = m

\* While a machine is live, the bootstrap run it started on a Host is neither
\* reset nor replaced by another machine's.
ServingUndisturbed ==
    [][\A h \in Hosts : \A m \in Machines :
        disk[h].by = m /\ machine[m].state = "live" => disk'[h].by = m]_vars

UnmarkedDirt(h) ==
    /\ host[h].there /\ host[h].label = None /\ host[h].claim = None
    /\ disk[h].by # None /\ host[h].reset # "unverified"

\* A patch of h's conditions that was computed before the Reset condition was written.
PatchesStatus(h) == EndProbe(h) \/ MarkUnreachable(h) \/ AnnounceWait(h)
PatchedFrom(h)   == IF probe[h].pc = "idle" THEN hostCache[h] ELSE probe[h]
OverwritesReset(h) == PatchesStatus(h) /\ PatchedFrom(h).reset # host[h].reset

\* A Host released with somebody's bootstrap run still on it says so in its
\* Reset condition, and goes on saying so until it is claimed again: "the
\* condition is what tells the two apart afterwards" (hostmachine_controller.go,
\* lines 470-471).  Other machines, conflicts and restarts do not make it look
\* clean.  Two steps do: a move, which drops every status, and HostReconciler's
\* patch of the conditions when it puts back those of a copy read before the
\* release.  Marked or not, the Host is claimed again once a probe finds it
\* reachable, although "A released host rejoins the pool only once it has been
\* reset and probed" (docs/cluster-management.md:144).
DirtyIsMarked ==
    [][\A h \in Hosts :
        UnmarkedDirt(h)' => UnmarkedDirt(h) \/ Move \/ OverwritesReset(h)]_vars

\* The pool as a ledger: the detailed reconcilers implement HostLedger.
Listed   == {h \in Hosts : host[h].there}
Reserved == [h \in Hosts |-> host[h].label]
Holder   == [h \in Hosts |-> host[h].claim]
Ready    == [h \in Hosts |-> /\ host[h].there /\ host[h].claim = None
                             /\ host[h].phase = "Available"]

Ledger == INSTANCE HostLedger WITH
    listed <- Listed, reserved <- Reserved, holder <- Holder, ready <- Ready

\* Under stale caches, conflicts, crashes and a move, every write the
\* reconcilers make is a step of the atomic ledger.
ImplementsLedger == Ledger!Spec

\* What the hosts say of each machine's bootstrap while the machine is in service.
Status == [m \in Machines |->
    IF machine[m].state \in {"deleting", "gone"} THEN "over"
    ELSE IF \E h \in Hosts : disk[h].by = m
    THEN disk[CHOOSE h \in Hosts : disk[h].by = m].run
    ELSE "idle"]

Run == INSTANCE HostRun WITH Jobs <- Machines, status <- Status

\* For a machine in service the pool is one host with one run of its script: being
\* released, moved and claimed over stale caches never takes it back to the start.
ImplementsHostRun == Run!Spec

-----------------------------------------------------------------------------
(* The inductive invariant behind the claims.                              *)

\* A reconcile that works on a Host has one, and one that has candidates to
\* try has at least one left.
WorkShape ==
    \A m \in Machines :
        /\ work[m].pc = "label" => work[m].todo # {}
        /\ work[m].pc \in {"record", "boot", "mark", "reset", "unlabel", "unclaim"}
              => work[m].host \in Hosts

\* A cached copy of the server's version is the server's object.
CacheIsCurrent ==
    \A h \in Hosts : h \in fresh[Cache] => hostCache[h] = host[h]

\* What a reconcile relies on about the Host it is about to write still holds
\* if its copy is current.
CopyOf(m) ==
    \A h \in fresh[m] :
        /\ work[m].pc = "label" /\ h \in work[m].todo
              => host[h].claim = None /\ host[h].phase = "Available"
        /\ work[m].pc = "record" /\ h = work[m].host
              => host[h].claim = None /\ host[h].label = m
        /\ work[m].pc = "unclaim" /\ h = work[m].host
              => host[h].label = None

CopyIsCurrent == \A m \in Machines : CopyOf(m)

ClaimInv == TypeOK /\ WorkShape /\ CacheIsCurrent /\ CopyIsCurrent /\ LabelAgreesWithClaim

-----------------------------------------------------------------------------
(* Liveness.                                                               *)

\* controller-runtime retries a failed reconcile, runs another on every event
\* and after RequeueAfter, and informers catch up.  A host that answers now
\* and then is eventually probed while it answers.
ProbeFindsReady(h) == EndProbe(h) /\ host'[h].phase = "Available"

Fairness ==
    /\ \A m \in Machines : WF_vars(MachineStep(m)) /\ WF_vars(SyncMachine(m))
    /\ \A h \in Hosts : /\ WF_vars(HostStep(h)) /\ WF_vars(SyncHost(h))
                        /\ SF_vars(ProbeFindsReady(h))

FairSpec == Spec /\ Fairness

\* A HostMachine that is being deleted eventually goes: no conflict with a probe,
\* stale read, deleted Host or host that does not answer keeps its finalizer for good.
DeletionCompletes ==
    \A m \in Machines : machine[m].state = "deleting" ~> machine[m].state = "gone"

Unclaimed(h) == /\ host[h].there /\ ~host[h].deleting /\ ~host[h].unhealthy
                /\ host[h].label = None /\ host[h].claim = None

\* A Host nobody claims eventually becomes Available, whatever phase a late
\* probe or a release left it in.
UnclaimedHostReturns ==
    \A h \in Hosts : Unclaimed(h) ~> (host[h].phase = "Available" \/ ~Unclaimed(h))
=============================================================================
