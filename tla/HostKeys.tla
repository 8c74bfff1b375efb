------------------------------ MODULE HostKeys ------------------------------
(***************************************************************************)
(* SSH host keys: how a key is pinned, refused and trusted again, and what *)
(* wakes the Host controller up.  A connection pins the key in the copy of *)
(* the Host it was made from; whoever holds the copy stores it, if at all: *)
(* HostReconciler by a patch of what it changed, HostMachineReconciler by  *)
(* an Update that fails when the Host has changed, kg inventory trust by   *)
(* an Update it retries.  Claims, labels and deletion of Hosts are in      *)
(* HostPool; a claim is one step here.                                     *)
(***************************************************************************)
EXTENDS Integers, FiniteSets

CONSTANTS
    Hosts,
    MaxKey,     \* bound: a machine presents the keys 1, 2 .. MaxKey, one after the other
    Policies,   \* the host key policies in use
    Faults      \* a subset of FaultKinds

\* lag: reconciles read a cache that is behind.  patchFails: a status patch of
\* HostReconciler fails.  restart: the manager is replaced.  outage: machines are
\* switched off.  trustAny: the operator trusts Hosts that are claimed, or that
\* no probe has refused.
FaultKinds == {"lag", "patchFails", "restart", "outage", "trustAny"}

ASSUME KeyAssumption    == MaxKey \in Nat \ {0}
ASSUME PolicyAssumption == Policies \subseteq {"Strict", "TOFU", "Insecure"}
ASSUME FaultsAssumption == Faults \subseteq FaultKinds

VARIABLES
    policy,     \* policy[h]: spec.hostKeyPolicy
    host,       \* host[h]: the Host on the API server
    cache,      \* cache[h]: the Host in the manager's informer cache
    fresh,      \* fresh[h]: who has a copy of h with the current resourceVersion
    key, up,    \* the key the machine presents, and whether it answers
    queue,      \* Hosts in HostReconciler's work queue
    timer,      \* Hosts with a RequeueAfter running
    probe,      \* probe[h]: the reconcile of h by HostReconciler
    visit,      \* visit[h]: the reconcile of h's HostMachine, from its connection on
    wake,       \* Hosts whose HostMachine is queued, or will be after an interval
    holder,     \* holder[h]: the HostMachine that holds h: "none", "live" or "deleting"
    trust,      \* trust[h]: the trust command for h and its next call
    accepted    \* accepted[h]: the keys h was reached with since its pin was forgotten or lost

vars == <<policy, host, cache, fresh, key, up, queue, timer, probe, visit, wake, holder,
          trust, accepted>>
controller == <<queue, timer, probe>>
machine    == <<visit, wake, holder>>
hardware   == <<policy, key, up>>

-----------------------------------------------------------------------------

Keys  == 1 .. MaxKey
NoKey == 0

\* Phase "Refused" is phase Unreachable with a Reachable condition that names a
\* host key mismatch, "Unreachable" the same phase for any other reason.
Phases == {"Pending", "Available", "Unreachable", "Refused", "Claimed", "Provisioned"}

HostObjects == [publicKey: Keys \cup {NoKey}, pin: Keys \cup {NoKey}, phase: Phases,
                claimed: BOOLEAN]

NoProbe == [at |-> "idle"]
Probes  == {NoProbe} \cup [at: {"dial"}, copy: HostObjects]
                     \cup [at: {"patch"}, copy: HostObjects, new: HostObjects]
NoVisit == [at |-> "idle"]
Visits  == {NoVisit} \cup [at: {"dial", "mark", "release"}, copy: HostObjects]

TypeOK ==
    /\ policy \in [Hosts -> Policies]
    /\ host \in [Hosts -> HostObjects] /\ cache \in [Hosts -> HostObjects]
    /\ fresh \in [Hosts -> SUBSET {"cache", "visit", "trust"}]
    /\ key \in [Hosts -> Keys] /\ up \in [Hosts -> BOOLEAN]
    /\ queue \subseteq Hosts /\ timer \subseteq Hosts /\ wake \subseteq Hosts
    /\ probe \in [Hosts -> Probes] /\ visit \in [Hosts -> Visits]
    /\ holder \in [Hosts -> {"none", "live", "deleting"}]
    /\ trust \in [Hosts -> {"idle", "get", "update"}]
    /\ accepted \in [Hosts -> SUBSET Keys]

\* The Hosts of an inventory that has just been applied.
Init ==
    /\ policy \in [Hosts -> Policies]
    /\ \E k \in [Hosts -> {NoKey, 1}] :
         host = [h \in Hosts |-> [publicKey |-> k[h], pin |-> NoKey, phase |-> "Pending",
                                   claimed |-> FALSE]]
    /\ cache = host
    /\ fresh = [h \in Hosts |-> {"cache"}]
    /\ key = [h \in Hosts |-> 1] /\ up = [h \in Hosts |-> TRUE]
    /\ queue = Hosts /\ timer = {} /\ wake = {}
    /\ probe = [h \in Hosts |-> NoProbe] /\ visit = [h \in Hosts |-> NoVisit]
    /\ holder = [h \in Hosts |-> "none"]
    /\ trust = [h \in Hosts |-> "idle"]
    /\ accepted = [h \in Hosts |-> {}]

-----------------------------------------------------------------------------
(* The API server, and one connection.                                     *)

\* x writes new to the Host and has its version; all other copies are behind.  A
\* write that changes nothing leaves the version alone.
Store(h, new, x) ==
    /\ host' = [host EXCEPT ![h] = new]
    /\ fresh' = IF new = host[h] THEN fresh ELSE [fresh EXCEPT ![h] = {x}]

\* sshConfigFor: the key that is asked for.
KnownPublicKey(h, copy) == IF policy[h] = "Strict" THEN copy.publicKey ELSE copy.pin

\* hostKeyCallback.
Accepts(h, copy) ==
    \/ policy[h] = "Insecure"
    \/ policy[h] = "TOFU"   /\ KnownPublicKey(h, copy) \in {NoKey, key[h]}
    \/ policy[h] = "Strict" /\ KnownPublicKey(h, copy) = key[h]

\* ssh.Dial: the machine answers, and is accepted.  Credentials are taken to be right.
Reaches(h, copy) == up[h] /\ Accepts(h, copy)

\* connect: the copy is left with the key to pin.
Pinned(h, copy) ==
    IF policy[h] = "TOFU" /\ copy.pin = NoKey THEN [copy EXCEPT !.pin = key[h]] ELSE copy

\* A connection to h made from copy is accepted.  One under a pin the operator has
\* since forgotten belongs to the earlier trust.
Meets(h, copy) ==
    accepted' = IF policy[h] = "TOFU" /\ copy.pin \in {NoKey, host[h].pin}
                THEN [accepted EXCEPT ![h] = @ \cup {key[h]}] ELSE accepted

\* A probe has made the first contact, and the pin is not stored.
PinInMemory(h) == probe[h].at = "patch" /\ probe[h].new.pin # probe[h].copy.pin /\ host[h].pin = NoKey

\* The pins of first contacts to the Hosts in S are lost, and with them who was met.
LosePins(S) ==
    accepted' = [h \in Hosts |-> IF h \in S /\ PinInMemory(h) THEN {} ELSE accepted[h]]

Read(h) == "lag" \in Faults \/ "cache" \in fresh[h]

-----------------------------------------------------------------------------
(* HostReconciler.                                                         *)

\* A claimed Host is left alone.
BeginProbe(h) ==
    /\ h \in queue /\ probe[h] = NoProbe /\ Read(h)
    /\ queue' = queue \ {h}
    /\ probe' = IF cache[h].claimed THEN probe
                ELSE [probe EXCEPT ![h] = [at |-> "dial", copy |-> cache[h]]]
    /\ UNCHANGED <<hardware, host, cache, fresh, timer, machine, trust, accepted>>

\* probe: the connection, and the facts that are asked for over it, under which the
\* machine may go down.
Dial(h) ==
    LET copy == probe[h].copy
        Finds(new) == probe' = [probe EXCEPT ![h] = [at |-> "patch", copy |-> copy, new |-> new]]
        met  == Reaches(h, copy)
    IN /\ probe[h].at = "dial"
       /\ \/ /\ met /\ Finds([Pinned(h, copy) EXCEPT !.phase = "Available"])
             /\ UNCHANGED up
          \/ /\ met /\ "outage" \in Faults
             /\ Finds([Pinned(h, copy) EXCEPT !.phase = "Unreachable"])
             /\ up' = [up EXCEPT ![h] = FALSE]
          \/ /\ ~met
             /\ Finds([copy EXCEPT !.phase = IF up[h] THEN "Refused" ELSE "Unreachable"])
             /\ UNCHANGED up
       /\ IF met THEN Meets(h, copy) ELSE UNCHANGED accepted
       /\ UNCHANGED <<policy, key, host, cache, fresh, queue, timer, machine, trust>>

\* The result of the reconcile: a Host that was refused is not requeued.
Requeue(h) == timer' = IF probe[h].new.phase = "Refused" THEN timer ELSE timer \cup {h}

\* Mutant: the pin stays in memory.
MergedPhase(h) == [host[h] EXCEPT !.phase = IF probe[h].new.phase # probe[h].copy.phase
                                            THEN probe[h].new.phase ELSE @]

\* The deferred patch carries what differs from the copy, and no version.
Merged(h) ==
    [host[h] EXCEPT
        !.phase = IF probe[h].new.phase # probe[h].copy.phase THEN probe[h].new.phase ELSE @,
        !.pin   = IF probe[h].new.pin   # probe[h].copy.pin   THEN probe[h].new.pin   ELSE @]

\* lastProbeTime has a resolution of a second: the patch changes it, or is made
\* in the second of the last one.
PatchProbe(h) ==
    /\ probe[h].at = "patch"
    /\ host' = [host EXCEPT ![h] = Merged(h)]
    /\ \E ticked \in BOOLEAN :
         fresh' = [fresh EXCEPT ![h] = IF ticked \/ Merged(h) # host[h] THEN {} ELSE @]
    /\ probe' = [probe EXCEPT ![h] = NoProbe]
    /\ Requeue(h)
    /\ UNCHANGED <<hardware, cache, queue, machine, trust, accepted>>

\* Its error is assigned to a variable that nobody returns: the result stands.
PatchProbeFails(h) ==
    /\ "patchFails" \in Faults /\ probe[h].at = "patch"
    /\ probe' = [probe EXCEPT ![h] = NoProbe]
    /\ Requeue(h) /\ LosePins({h})
    /\ UNCHANGED <<hardware, host, cache, fresh, queue, machine, trust>>

TimerFires(h) ==
    /\ h \in timer
    /\ timer' = timer \ {h} /\ queue' = queue \cup {h}
    /\ UNCHANGED <<hardware, host, cache, fresh, probe, machine, trust, accepted>>

\* Mutant: changes of the status are filtered out of the Host's events.
SyncSpecChanges(h) ==
    /\ "cache" \notin fresh[h]
    /\ cache' = [cache EXCEPT ![h] = host[h]]
    /\ fresh' = [fresh EXCEPT ![h] = @ \cup {"cache"}]
    /\ queue' = IF cache[h].publicKey # host[h].publicKey THEN queue \cup {h} ELSE queue
    /\ UNCHANGED <<hardware, host, timer, probe, machine, trust, accepted>>

\* The informer: every change of a Host enqueues it, HostReconciler's own included.
SyncHost(h) ==
    /\ "cache" \notin fresh[h]
    /\ cache' = [cache EXCEPT ![h] = host[h]]
    /\ fresh' = [fresh EXCEPT ![h] = @ \cup {"cache"}]
    /\ queue' = queue \cup {h}
    /\ UNCHANGED <<hardware, host, timer, probe, machine, trust, accepted>>

-----------------------------------------------------------------------------
(* HostMachineReconciler, where it connects to its Host.                   *)

\* claimHost on a free Host, which goes on to runBootstrap.
Claim(h) ==
    /\ holder[h] = "none" /\ visit[h] = NoVisit /\ Read(h)
    /\ cache[h].phase = "Available" /\ ~cache[h].claimed
    /\ "cache" \in fresh[h]
    /\ Store(h, [host[h] EXCEPT !.phase = "Claimed", !.claimed = TRUE], "visit")
    /\ holder' = [holder EXCEPT ![h] = "live"]
    /\ visit' = [visit EXCEPT ![h] = [at |-> "dial", copy |-> host'[h]]]
    /\ UNCHANGED <<hardware, cache, controller, wake, trust, accepted>>

\* A later reconcile of the HostMachine, with its Host from the cache.
BeginVisit(h) ==
    /\ h \in wake /\ visit[h] = NoVisit /\ holder[h] # "none" /\ Read(h)
    /\ wake' = wake \ {h}
    /\ visit' = [visit EXCEPT ![h] = [at |-> "dial", copy |-> cache[h]]]
    /\ fresh' = [fresh EXCEPT ![h] = IF "cache" \in @ THEN @ \cup {"visit"} ELSE @ \ {"visit"}]
    /\ UNCHANGED <<hardware, host, cache, controller, holder, trust, accepted>>

\* runBootstrap.  Without a connection the reconcile ends, and is requeued unless
\* the key was refused.  With one, a run that has not ended is looked at again
\* later and nothing is stored; one that has ended well is marked.
Connect(h) ==
    LET copy == visit[h].copy
        met  == Reaches(h, copy)
    IN /\ visit[h].at = "dial" /\ holder[h] = "live"
       /\ \/ /\ ~met
             /\ visit' = [visit EXCEPT ![h] = NoVisit]
             /\ wake' = IF up[h] THEN wake ELSE wake \cup {h}
          \/ /\ met
             /\ visit' = [visit EXCEPT ![h] = NoVisit]
             /\ wake' = wake \cup {h}
          \/ /\ met
             /\ visit' = [visit EXCEPT ![h] = [at |-> "mark", copy |-> Pinned(h, copy)]]
             /\ UNCHANGED wake
       /\ IF met THEN Meets(h, copy) ELSE UNCHANGED accepted
       /\ UNCHANGED <<hardware, host, cache, fresh, controller, holder, trust>>

\* reconcileDelete: the Host is reset if it can be reached, and released anyway.
ConnectToReset(h) ==
    LET copy == visit[h].copy
        met  == Reaches(h, copy)
    IN /\ visit[h].at = "dial" /\ holder[h] = "deleting"
       /\ visit' = [visit EXCEPT ![h] = [at |-> "release",
                                         copy |-> IF met THEN Pinned(h, copy) ELSE copy]]
       /\ IF met THEN Meets(h, copy) ELSE UNCHANGED accepted
       /\ UNCHANGED <<hardware, host, cache, fresh, controller, wake, holder, trust>>

\* markHostProvisioned: the Host is stored, its pin with it, unless it is marked
\* already; a conflict is an error and retried.
MarkHostProvisioned(h) ==
    LET copy == visit[h].copy
    IN /\ visit[h].at = "mark"
       /\ \/ copy.phase = "Provisioned" /\ UNCHANGED <<host, fresh, wake>>
          \/ /\ copy.phase # "Provisioned" /\ "visit" \in fresh[h]
             /\ Store(h, [copy EXCEPT !.phase = "Provisioned"], "visit")
             /\ UNCHANGED wake
          \/ /\ copy.phase # "Provisioned" /\ "visit" \notin fresh[h]
             /\ wake' = wake \cup {h}
             /\ UNCHANGED <<host, fresh>>
       /\ visit' = [visit EXCEPT ![h] = NoVisit]
       /\ UNCHANGED <<hardware, cache, controller, holder, trust, accepted>>

\* Mutant: the phase is cleared, not set back.
ReleaseCleared(h) ==
    LET copy == visit[h].copy
    IN /\ visit[h].at = "release" /\ "visit" \in fresh[h]
       /\ Store(h, [copy EXCEPT !.phase = "", !.claimed = FALSE], "visit")
       /\ holder' = [holder EXCEPT ![h] = "none"]
       /\ visit' = [visit EXCEPT ![h] = NoVisit]
       /\ UNCHANGED <<hardware, cache, controller, wake, trust, accepted>>

ReleaseHost(h) ==
    LET copy == visit[h].copy
    IN /\ visit[h].at = "release"
       /\ \/ /\ "visit" \in fresh[h]
             /\ Store(h, [copy EXCEPT !.phase = "Pending", !.claimed = FALSE], "visit")
             /\ holder' = [holder EXCEPT ![h] = "none"]
             /\ UNCHANGED wake
          \/ /\ "visit" \notin fresh[h]
             /\ wake' = wake \cup {h}
             /\ UNCHANGED <<host, fresh, holder>>
       /\ visit' = [visit EXCEPT ![h] = NoVisit]
       /\ UNCHANGED <<hardware, cache, controller, trust, accepted>>

\* An event of the HostMachine, its Machine or its Cluster.
MachineEvent(h) ==
    /\ holder[h] # "none" /\ h \notin wake
    /\ wake' = wake \cup {h}
    /\ UNCHANGED <<hardware, host, cache, fresh, controller, visit, holder, trust, accepted>>

DeleteMachine(h) ==
    /\ holder[h] = "live" /\ visit[h] = NoVisit
    /\ holder' = [holder EXCEPT ![h] = "deleting"]
    /\ wake' = wake \cup {h}
    /\ UNCHANGED <<hardware, host, cache, fresh, controller, visit, trust, accepted>>

-----------------------------------------------------------------------------
(* kg inventory trust.                                                     *)

\* A probe has refused the Host, and no machine has it.
Asked(h) == "trustAny" \in Faults \/ (host[h].phase = "Refused" /\ ~host[h].claimed)

\* A Strict Host is turned down; one without a pin has nothing to forget.
BeginTrust(h) ==
    /\ trust[h] = "idle" /\ Asked(h)
    /\ policy[h] # "Strict" /\ host[h].pin # NoKey
    /\ trust' = [trust EXCEPT ![h] = "get"]
    /\ UNCHANGED <<hardware, host, cache, fresh, controller, machine, accepted>>

GetToTrust(h) ==
    /\ trust[h] = "get"
    /\ trust' = [trust EXCEPT ![h] = "update"]
    /\ fresh' = [fresh EXCEPT ![h] = @ \cup {"trust"}]
    /\ UNCHANGED <<hardware, host, cache, controller, machine, accepted>>

\* RetryOnConflict: read again, or the attempts are used up.
ForgetPin(h) ==
    /\ trust[h] = "update"
    /\ \/ /\ "trust" \in fresh[h]
          /\ Store(h, [host[h] EXCEPT !.pin = NoKey], "trust")
          /\ accepted' = [accepted EXCEPT ![h] = {}]
          /\ trust' = [trust EXCEPT ![h] = "idle"]
       \/ /\ "trust" \notin fresh[h]
          /\ \E next \in {"get", "idle"} : trust' = [trust EXCEPT ![h] = next]
          /\ UNCHANGED <<host, fresh, accepted>>
    /\ UNCHANGED <<hardware, cache, controller, machine>>

-----------------------------------------------------------------------------
(* The operator, the machines, and the manager.                            *)

\* spec.publicKey is edited, by hand or by applying a configuration again, to a key
\* the machine has presented.
EditPublicKey(h) ==
    /\ policy[h] = "Strict"
    /\ \E k \in (1 .. key[h]) \ {host[h].publicKey} :
         host' = [host EXCEPT ![h].publicKey = k]
    /\ fresh' = [fresh EXCEPT ![h] = {}]
    /\ UNCHANGED <<hardware, cache, controller, machine, trust, accepted>>

\* The machine is installed anew, or another one answers in its place.
Reinstall(h) ==
    /\ key[h] < MaxKey
    /\ key' = [key EXCEPT ![h] = @ + 1]
    /\ UNCHANGED <<policy, up, host, cache, fresh, controller, machine, trust, accepted>>

Switch(h) ==
    /\ "outage" \in Faults
    /\ up' = [up EXCEPT ![h] = ~@]
    /\ UNCHANGED <<policy, key, host, cache, fresh, controller, machine, trust, accepted>>

\* Queues, timers and reconciles are lost; the informers list everything anew.
Restart ==
    /\ "restart" \in Faults
    /\ cache' = host /\ fresh' = [h \in Hosts |-> (fresh[h] \ {"visit"}) \cup {"cache"}]
    /\ queue' = Hosts /\ timer' = {} /\ probe' = [h \in Hosts |-> NoProbe]
    /\ visit' = [h \in Hosts |-> NoVisit] /\ wake' = {h \in Hosts : holder[h] # "none"}
    /\ LosePins(Hosts)
    /\ UNCHANGED <<hardware, host, holder, trust>>

-----------------------------------------------------------------------------

HostReconciler(h) ==
    \/ BeginProbe(h) \/ Dial(h) \/ PatchProbe(h) \/ PatchProbeFails(h) \/ TimerFires(h)
    \/ SyncHost(h)

HostMachineReconciler(h) ==
    \/ Claim(h) \/ BeginVisit(h) \/ Connect(h) \/ ConnectToReset(h)
    \/ MarkHostProvisioned(h) \/ ReleaseHost(h) \/ MachineEvent(h) \/ DeleteMachine(h)

Operator(h) ==
    \/ BeginTrust(h) \/ GetToTrust(h) \/ ForgetPin(h) \/ EditPublicKey(h)
    \/ Reinstall(h) \/ Switch(h)

Next == Restart \/ \E h \in Hosts : HostReconciler(h) \/ HostMachineReconciler(h) \/ Operator(h)

\* The work queue serves every Host, intervals end, informers deliver.  However
\* often managers are replaced and patches fail, at some time a probe gets through.
Fairness ==
    \A h \in Hosts :
        /\ WF_vars(BeginProbe(h)) /\ WF_vars(TimerFires(h)) /\ WF_vars(SyncHost(h))
        /\ SF_vars(Dial(h)) /\ SF_vars(PatchProbe(h))
        /\ WF_vars(PatchProbe(h) \/ PatchProbeFails(h))

Spec == Init /\ [][Next]_vars /\ Fairness

-----------------------------------------------------------------------------
(* Properties.                                                             *)

\* Under TOFU every connection to a Host, for a probe, the bootstrap or the reset, is
\* accepted with the key of the first, until the operator trusts it anew or that first
\* contact is lost: its pin stays in the probe's copy, and a patch that fails or a
\* restart leaves the next contact to be the first again, with whatever key it meets.
OneKeyPerTrust ==
    \A h \in Hosts : policy[h] = "TOFU" => Cardinality(accepted[h]) <= 1

\* The key a Host's machine presents is the one its policy asks for.
KeyIsRight(h) ==
    \/ policy[h] = "Insecure"
    \/ policy[h] = "TOFU"   /\ host[h].pin \in {NoKey, key[h]}
    \/ policy[h] = "Strict" /\ host[h].publicKey = key[h]

\* A free Host that answers with the right key becomes Available and stays so: once
\* the operator has corrected a mismatch, which nothing requeues, the correction
\* itself brings the controller back, and no late verdict of an earlier probe stands.
CorrectedHostReturns ==
    \A h \in Hosts :
        <>[](up[h] /\ KeyIsRight(h) /\ holder[h] = "none") => <>[](host[h].phase = "Available")
=============================================================================
