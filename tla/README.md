# A verification project for kg

kg builds Kubernetes clusters on machines that already exist. A *genesis node*
runs a small management cluster (kind, with Cluster API and kg's own infrastructure
provider); the provider hands pre-provisioned hosts to Cluster API machines,
bootstraps them over SSH, and takes them back. Later the cluster is *ejected*: it
is released, or takes over its own management.

These modules model the parts of kg where state is spread over several places and
several actors write to it. TLC checks them on small instances, and TLAPS proves
the safety properties of the passing runs for every instance. `PROJECT.json` holds the
runs, the mutants that show each property can fail, the mapping from definitions to
lines of the source, the findings and the hazards.

## 1. Inventory

| Component | State it keeps | Operations | Hard behaviour | What makes it correct |
| --- | --- | --- | --- | --- |
| HostMachine controller (`internal/controller/hostmachine_controller.go`) | HostMachine spec, status and finalizer; label, claimRef, phase and conditions of the Host | claim or recover a Host, bootstrap, mark provisioned, reset, release | up to five reconciles at once over an informer cache that lags; a claim is two writes to one object and one to another; restarts; clusterctl drops every status | a Host has one owner; a machine has one Host; a serving Host is never reset or handed out; deletion ends |
| Host controller (`host_controller.go`) | phase, facts, conditions and finalizer of a Host | probe, delete | probes last seconds and write what was true before; patches check no version | free Hosts become available again; a claimed Host's phase is left alone; deletion waits for the claim |
| HostCluster controller (`hostcluster_controller.go`) | endpoint flag, finalizer | reconcile | most returns hope for an event; four informers deliver in any order | no wake-up is lost, also after a move or a pause |
| Connection and host keys (`connection.go`, `internal/ssh`) | the pinned key, in a copy of the Host that somebody else stores | connect under Strict, TOFU or Insecure | the key changes while a pin is on its way; a refusal is not requeued | one key until the operator trusts anew; a corrected host returns |
| Inventory commands (`internal/cli/inventory.go`) | none of their own | trust (forget a pin); check and list read only | trust races probes and claims | as above |
| Controller manager (`cmd/manager/main.go`) | caches, work queues, leader lease | start, stop | restart in the middle of a reconcile | nothing is lost with the process |
| Provisioner (`internal/provisioner`) | script, runner, checksum and exit code on the host, and detached processes | Status, Start, Reset, probe | sessions that drop, uploads cut short, reboots, a run that outlives its machine | a script runs at most once and whole; the outcome reported is its own |
| SSH client (`internal/ssh`) | one connection, the pinned host key | dial, run, write file | timeouts while the remote command goes on | an error is never taken for an answer |
| Cloud-init renderer (`internal/cloudinit`) | none | Render | bash's rules for failing commands; kubeadm's two formats | exit 0 means that no entry failed; no node joins without its provider ID |
| Configuration (`internal/config`) and manifests (`internal/render`, `internal/kube`) | the configuration file | load, default, validate, render, apply | objects take effect while others are still to be applied | what is accepted fits the inventory |
| Inventory order (`internal/inventory`) | none | compare, sort | mixed text and numbers | one total order |
| CLI life cycle (`internal/cli`: init, cluster, pivot, registry, clusters, kubeconfig, reset) | Cluster objects on the genesis node, their copies in ejected clusters, the registry, the genesis node's kubeconfig and the clusters' | init, create, eject, delete, forget, clusters, kubeconfig, reset | a command stops between any two writes; several clusters share the genesis node | a cluster has one manager; the genesis node outlives what it manages |
| Registry (`internal/registry`) | one record per cluster identity | Get, List, Put, Forget | written by hand-offs that may be interrupted | says managed, released or self-managed only when true |
| Bootstrap cluster and clusterctl (`internal/bootstrap`, `internal/capi`) | kind cluster, providers | create, delete, init, move | a move copies, then deletes, and may leave objects behind | used as a library |
| Status output, CNI, images, names, version | files and output | one-shot | few | not modelled |

The commands write Cluster objects, which Cluster API turns into Machines and
HostMachines; the HostMachine controller reads the Hosts that `init` and `create`
applied, renders the bootstrap data and drives the provisioner through the SSH client.
The two controllers share the Host objects and nothing else; the commands and the
controllers share the objects on the genesis node.

## 2. The modules

| Module | Models | Extends or refines |
| --- | --- | --- |
| `HostPool` | both reconcilers over shared Hosts | implements `HostLedger` and `HostRun` |
| `HostLedger` | what the pool promises: an atomic ledger of claims | |
| `HostRun` | what bootstrapping promises: one run for each machine | |
| `HostPoolProofs` | proofs: types, label and claim, current copies; the pool implements the ledger | `HostPool` |
| `HostPoolServingProofs` | proofs: what a machine may count on; the pool implements `HostRun` | `HostPoolProofs` |
| `Provisioner` | the files and processes on one host | implements `HostRun` |
| `HostKeys` | pins, refusals and trust; the Host controller's events and requeues | |
| `Wakeups` | what makes HostCluster and HostMachine controllers look again | |
| `CloudInit` | the rendered script and what bash makes of it | |
| `Fleet` | configuration, rendering, application, placement | |
| `InventoryOrder` | the order of the pool | extended by `Fleet` |
| `Management` | the commands over the life of several clusters | |
| `ProvisionerProofs`, `HostKeysProofs`, `WakeupsProofs`, `CloudInitProofs`, `FleetProofs`, `ManagementProofs` | proofs | the module of that name |
| `MC*` | instances for TLC: sets of hosts, symmetry, inputs | the module of that name |

Each fault is a member of a constant `Faults` (in `Management`, of one of the sets in
`Worlds`), so that a run names exactly what may go wrong in it and the theorems range
over every subset.

### HostPool

`host` and `machine` are the objects on the API server, `hostCache` and
`machineCache` the manager's informer caches, `work[m]` and `probe[h]` the reconciles
that are going on, and `disk[h]` whose bootstrap run the machine behind a Host carries.
`fresh[x]` is the set of Hosts of which `x` (a reconcile, or the cache) has the current
resourceVersion; `Update` fails with a conflict otherwise, which is all a version is for.

Every API call and SSH operation is a step:

- `ChooseHost` is `claimHost` up to its first write: the hostRef if there is one
  (`UseHostRef`), a Host whose claimRef names the machine (`RecoverClaim`), one whose
  label does (`RecoverLabel`), else the free candidates. `LabelHost` is the label
  Update, trying candidates in inventory order; `RecordClaim` the status Update.
- `RunBootstrap` is Status and Start over SSH; `MarkProvisioned` the phase.
- `PatchMeta` and `PatchStatus` are the two requests of the deferred patch, which also
  follow every early return; `PatchFails` is their failure, of which the first does not
  keep the second from being tried.
- `BeginDelete`, `ResetHost`, `UnlabelHost`, `UnclaimHost` are `reconcileDelete`.
- `BeginProbe` and `EndProbe` are a probe with everything that may happen in between;
  `MarkUnreachable` is what a Host marked unhealthy gets instead; `AnnounceWait`,
  `BeginHostDelete` and `EndHostDelete` are the deletion of a Host. Their patches
  (`PatchHost`) check no version and are computed from the copy that was read. `status.conditions` is one
  list in a merge patch, so a patch that changes `Reachable` puts back the `Reset` condition
  of that copy too (`ReplaceConditions`).
- `Move` is a clusterctl move (labels survive, status does not), `Restart` a new
  manager, `SyncHost` and `SyncMachine` the informers.

A paused object is one of which no reconcile is started. Condition messages,
addresses, provider IDs and the host facts are left out: nothing decides on them.

### Provisioner

The state directory as four files (each absent, whole, or torn), the detached runs,
and the controller's position in `Status` and `Start`. The machines own the host one
after the other. `Interrupt` is a session that drops: a command whose answer is lost
may have had its effect. `Release` waits for the run to end unless `earlyRelease` is
among the faults. `outcome[d]` remembers how a script really ended.

### HostRun, and how it joins Provisioner and HostPool

`HostRun` is what the two have in common: a machine's script is idle, then running, then
has succeeded or failed, until the machine leaves. `Provisioner!Status` reads that off the
checksum and exit files, as `Status` does; `HostPool!Status` off the run on the disk of the
host that carries the machine's script. Both are checked to implement it
(`ImplementsHostRun`). So the one step a run takes in `HostPool` is the abstraction of the
many in `Provisioner`, and not an assumption beside them.

### HostKeys

`host` and `cache` are Hosts reduced to public key, pin, phase and claim; `key[h]` is what
the machine presents, which changes with `Reinstall`. `Reaches` is `ssh.Dial`, `Accepts` the
host key callback, `Pinned` what `connect` leaves in the caller's copy. Who stores the copy
differs, and that is the point of the module:

- HostReconciler (`BeginProbe`, `Dial`, `PatchProbe`) patches what differs from what it
  read, without a version; `PatchProbeFails` loses the pin, and the error with it, because
  the deferred function assigns it to a variable that is not returned;
- HostMachineReconciler (`Claim`, `BeginVisit`, `Connect`, `MarkHostProvisioned`,
  `ConnectToReset`, `ReleaseHost`) stores it with an Update that a newer version refuses, or
  not at all while the run goes on;
- `kg inventory trust` (`BeginTrust`, `GetToTrust`, `ForgetPin`) retries on a conflict.

`queue`, `timer` and `wake` are the work queue, the `RequeueAfter` of each Host, and the
queue of the HostMachines. `accepted[h]` is history: the keys the host was used with since
its pin was last forgotten or lost: every connection counts from the moment it is accepted,
and a first contact whose pin goes with a failed patch or a restart (`LosePins`) leaves the
next one to be the first. Phase `Refused` is Unreachable with the mismatch as its reason.
Claims are one step here; `HostPool` has their steps. `lastProbeTime` is kept as what it
does: a probe's patch is a new version unless it falls into the second of the last one.

### Wakeups

`api` is the Cluster, its Machines, HostMachines and HostCluster, `cache` what the four
informers have delivered, each at its own pace; `queue` the work queues, `later` what comes
back after an interval or an error, `work[k]` the reconcile of `k`. Both reconcilers begin
alike (`Begin`, `Blocked`); `ReconcileCluster` is the rest of HostClusterReconciler,
`WaitForDependency`, `AttemptHost`, `GiveUpHost` and `FinishHost` the returns of
HostMachineReconciler, `Patch` the deferred patch. `GiveUpHost` is the return without a requeue
after a host key mismatch or bootstrap data that does not render; `givenUp` remembers of which
machines it was the last. `ClusterToHostMachines` looks through the Machine cache as it
is when the Cluster's event arrives. Objects arrive in the order of a `create` (Cluster API
makes HostMachine, Machine and owner reference) or of a move (paused Cluster first, then
Machines, then HostMachines, unpaused at the end), and go in the order of a deletion. How
hosts are claimed and bootstrapped is in `HostPool`; here it is done, or not yet.

### CloudInit

`Refused` is everything on which `Render` returns an error, `PatchKubeadmConfig` the
rewriting of documents, `Script` the result. `GuardCommand` is the rendered
`{ ... } || exit $?` under bash's rules: errexit is off inside it, and the group has the
status of its last line. Files are their documents, documents what the patch looks at,
commands the simple commands of their lines; what a command does to kubeadm's file is left out. Encodings, quoting and heredocs are left
out. `Rerun` is the operator running the artifact by hand, which the package comment
invites.

### Fleet

`Load` is defaults then validation, `Apply` one object of `kube.Apply`, `Recreate` a
`cluster create` that is run again, `MakeMachine` Cluster API, `Claim` a machine that finds
the first host of the inventory that is free and matches and whose Update is accepted. `Probe`
gives a free host a new version, until `SyncHost` tells the cache; the claim goes on to the next
host then. Replica counts go up to `MaxCount`
(2^31 - 1 in the code) and their sum wraps around there, as an int32 does. Objects are known
by their kind and name, so that a pool and the control plane never share a group, while a pool
named `control-plane` does share the template. The syntax of names, versions, CIDRs and manifests is one flag, since it
meets nothing else.

### InventoryOrder

`CompareNames` on bytes, against `Before`, a reference in terms of words and values. A sort
of a list that arrives in any order is modelled by what its callers use, the head of the
result: `Heads` is every host that may stand there, which is one if the order is total. What
`SortHosts` does with equal names is left open by it, and there are none in a pool.

### Management

`object[c]` is the Cluster on the genesis node, `landed[c]` what a move put into the
cluster, `record[c]` the registry, `era[c]` how often the identity has been built (the CA
differs each time) and `saved[c]` the era of the kubeconfig on disk. `cmd[c]` is the running
command and its next write; `Interrupt` ends it there. `genesis` is the kind cluster and
`file` its kubeconfig on disk: absent, good, or dead, which is what kind's `Delete` leaves.
Commands ask both (`Up`), `Export` writes the file, eject and `reset` remove it in a step of
their own. `faults`, one of `Worlds`, is fixed at the start, so that one run compares an
orderly world with one in which everything may be stopped. `Forget` follows what its
documentation asks of the operator: only after retiring. `released` is a history variable
for the properties. A move is `whole` when `verifyMoved` would say so: the Cluster is there, with
as many Hosts and HostMachines as the genesis node had; other objects are not counted.

## 3. The runs

Passing runs:

| Run | Question | Faults | Bounds |
| --- | --- | --- | --- |
| `pool_claims` | can one machine end up with two hosts? | stale machine reads, failing patches, restarts, moves, hosts marked unhealthy | 1 machine, 2 hosts |
| `pool_serving` | is the two-write claim as good as an atomic one; can a host be taken from, or left dirty under, somebody? | SSH failures, stale host reads, moves | 2 machines, 1 host |
| `pool_liveness` | does deletion end, do free hosts come back? | SSH failures, stale host reads, deleted hosts, moves | 1 machine, 1 host |
| `provisioner_runs` | is an outcome always the script's own, and is it reported? | dropped sessions, reboots | 3 scripts, 5 runs |
| `cloudinit_applied` | does exit 0 mean that every entry succeeded, and is every joined node pinned? | any command fails | every document shape, 2 runs of the script |
| `fleet_fits` | can what Validate accepts be placed, and in one order? | interrupted `create`, conflicts with probes | up to 3 hosts in any roles, 4 with 3 for the control plane; 2 pools, 3 replicas; every pair of 41 names; 1 host at a time with a version the cache does not have |
| `management_commands` | can a cluster have two managers or lose its only one; does the registry, or the kubeconfig on disk, ever claim what is not so? | one world with incomplete moves only; one with stopped and overlapping commands, incomplete moves and maintenance pauses | 2 clusters, each built twice |
| `hostkeys_trust` | is a host used with two keys; does a corrected host come back? | failing patches, restarts, hosts switched off | 1 host, 3 keys, every policy |
| `wakeups_order` | is an object with something to do ever left without an event? | failing patches, restarts, pauses | 1 HostMachine and its HostCluster, created or moved, and deleted |

Why these bounds are enough to see the interesting cases: a conflict needs two machines
and one host; a second claim needs one machine and two hosts; one of each is enough for a
deletion and a return, which no other machine has a part in; handing a host on needs two
owners, and a third shows that what the second left behind does not add up. A stale
kubeconfig needs a second era, a teardown that strands another cluster a second cluster.
Two names at a time are enough for the order, because the reference is transitive. In
`Fleet` the smallest configuration with three control plane replicas and one worker has
four hosts. A key that changes twice is the shortest history in which a pin of the first
key, stored late, meets a third. Hosts do not meet each other in `HostKeys`, nor machines in
`Wakeups`: requests are queued by name and reconciles of different names share only caches,
so one of each is the general case; the HostCluster is the second actor there.

Some properties carry the condition under which the code keeps them. `DirtyIsMarked`
exempts a move, and a patch of HostReconciler computed from conditions older than the release
(`OverwritesReset`; TLC refutes the property without that exemption). `HostsTakenInOrder`
is about hosts no probe has patched since they were listed, `NoLostWakeup` excepts the bootstrap
of a machine whose last reconcile gave up on its host, `OneKeyPerTrust` counts anew when the pin
of a first contact was lost, and `ZeroMeansEntriesSucceeded` is about entries, of which only the
last line decides. Each of the five is weaker than what a comment or document promises; the
hazards quote the lines. `JoinedIsPinned` is about bootstrap data that lists no kubelet flag twice.
`ControlPlaneFindsHosts` is about configurations that place by role (`PlacedByRole`), and
`MachinesFindHosts` about those in which, besides, no control plane host is spare. Both ask for a
host that stands at the head of the sorted list and can be claimed, not only for one that
matches. The
inputs of the runs include the configurations on the other side of each condition.
`OneManager`, `GenesisKept` and `FileTellsGenesis` are about orderly worlds: one command at a
time and none stopped. `OneKeyPerTrust` is checked with operators who trust a host that a
probe has refused and nobody has claimed (`trustAny` is not among the faults).

Deadlock is not checked where a system may rightly come to rest: machines are provisioned,
scripts have ended, every identity has been built `MaxEra` times.

**Fairness.** `HostPool!Fairness` is weak fairness of each reconcile and each informer:
controller-runtime retries errors, requeues after `RequeueAfter` and delivers events, and
the probe interval re-examines unclaimed hosts. `ProbeFindsReady` is strongly fair: a host
that answers again and again is at some time probed while it answers. Without that no
probe could be relied on. `Provisioner!Fairness` says that detached processes run, and that
not every session drops exactly at the read of the exit code. `HostKeys!Fairness` is weak
fairness of the work queue, the timers and the informer, as above, and strong fairness of
`Dial` and `PatchProbe`: a manager that is replaced again and again, and an API server that
refuses patches, let a probe get through at some time. Nothing is assumed of the refused
host, which has no timer: that is what `CorrectedHostReturns` is about. `Wakeups` states the
safety half of liveness, that a wake-up is owed, and needs no fairness. No fairness is assumed of
operators or faults.

Runs that end in a violation state what a comment or document says and the code does not
do. The findings in `PROJECT.json` quote the lines:

| Run | What happens |
| --- | --- |
| `pool_crash_serving` | after a restart between release and patch, the next owner's host is reset |
| `provisioner_stale_exit` | a run that Reset did not stop writes its exit code beside the next checksum |
| `management_shared` | two clusters in one namespace: ejecting one deletes the other's manager |

The runs that pass leave out precisely the fault that breaks a property: `pool_serving`
has no `crash`, `pool_claims` no `hostLag`, `provisioner_runs` no `earlyRelease`,
`hostkeys_trust` neither `lag` nor `trustAny`; `management_commands` has every fault, and
keeps apart the world without.

Other places where the models can be driven against what a comment says are listed as
hazards, and have no run of their own: a late probe wipes the Reset condition of a host that was
released unverified, and with or without it the host is handed out after a probe, while the docs
say reset and probed; a free host is passed over because a probe has just patched it; the pin of
a first contact is lost with a patch, so that the next key is trusted; a HostMachine is not woken
when its host is corrected; a machine deleted before its hostRef is
stored leaves its mark on the host; a host cache that does not show the own claim leads to
a second one; a Host is removed although it was claimed after the decision; a late probe
overwrites the phase of a claimed host; a session that drops between checksum and launch is
reported as running for ever; a flag listed twice is pinned once; replicas whose sum
overflows are accepted; spare control plane hosts are counted for workers; a pool named
`control-plane` replaces the control plane's template; an eject stopped between move and
record lets the old configuration bring the cluster back; a cluster paused for maintenance
does not keep the genesis node; a later eject deletes what an incomplete move left behind; a
failing line in the middle of a multi-line command is passed over, since the guard turns
errexit off; a probe's own patch wakes the controller, so that intervals are not kept and a
refused host is dialled again; a claimed host that is trusted again has no pin until a
reconcile stores one; a
teardown stopped before the kubeconfig is removed leaves a file that `reset` does not remove;
a kubeconfig written before a rebuild is taken for good once the genesis node has been reset.

## 4. What is proved

Every theorem is for all values of the constants: any set of Hosts, Machines, scripts or
clusters, any selectors, any bound on runs, eras or keys. Where a theorem names a fault that
must not happen, every other fault may. Each inductive invariant was checked by TLC on an
instance before it was proved.

| Theorem | Property | Holds |
| --- | --- | --- |
| `HostPoolProofs!TypeCorrect`, `LabelsAgree`, `CopiesAreCurrent` | `TypeOK`, `LabelAgreesWithClaim`, `CopyIsCurrent` | under every fault |
| `HostPoolProofs!ClaimsAreNotStolen`, `PoolImplementsLedger` | `ClaimNeverStolen`, `ImplementsLedger` | under every fault |
| `HostPoolServingProofs!OneHostEach` | `OneHostPerMachine` | without `hostLag` |
| `HostPoolServingProofs!HeldHostsAreClaimed`, `RunsAreUndisturbed`, `DirtStaysMarked` | `HeldIsClaimed`, `ServingUndisturbed`, `DirtyIsMarked` | `Steady` |
| `HostPoolServingProofs!PoolImplementsHostRun` | `ImplementsHostRun` | `Steady` and `Tracked` |
| `ProvisionerProofs!TypeCorrect` | `TypeOK` | under every fault |
| `ProvisionerProofs!OutcomesAreTruthful`, `ScriptsRunAtMostOnce`, `NoTornScriptRuns`, `FilesImplementHostRun` | `TruthfulOutcome`, `AtMostOnce`, `NoTornRun`, `ImplementsHostRun` | without `earlyRelease` |
| `WakeupsProofs!TypeCorrect`, `WakeupsAreNotLost` | `TypeOK`, `NoLostWakeup` | under every fault |
| `HostKeysProofs!TypeCorrect` | `TypeOK` | under every fault |
| `HostKeysProofs!OneKeyUntilTrustedAnew` | `OneKeyPerTrust` | `Careful` |
| `ManagementProofs!TypeCorrect`, `ReleasedClustersArePaused`, `KubeconfigsAreCurrent`, `MovesAreWhole` | `TypeOK`, `ReleasedIsPaused`, `CurrentKubeconfig`, `MovedWhole` | in every world |
| `ManagementProofs!TheFileTellsOfGenesis` | `FileTellsGenesis` | in every world (the property is about orderly ones) |
| `ManagementProofs!OneManagerAtATime`, `TheGenesisNodeIsKept` | `OneManager`, `GenesisKept` | `Apart` |
| `CloudInitProofs!TypeCorrect` | `TypeOK` | for all bootstrap data |
| `CloudInitProofs!ExitZeroMeansEntriesSucceeded` | `ZeroMeansEntriesSucceeded` | `Signals(config)` |
| `CloudInitProofs!NodesJoinPinned`, `PinningLosesNothing` | `JoinedIsPinned`, `NothingElseChanges` | `InPlace(config)` |
| `FleetProofs!TypeCorrect`, `DefaultsStayStable`, `ControlPlaneIsPlaced` | `TypeOK`, `DefaultsAreStable`, `ControlPlaneFindsHosts` | for all configurations |
| `FleetProofs!MachinesArePlaced` | `MachinesFindHosts` | `Fits` |
| `FleetProofs!HostsInOrder` | `HostsTakenInOrder` | for all names |

The assumptions on constants are the ones the modules declare: of any Hosts one comes first
in the inventory (numbers stand for it), a selector is a set of Hosts, `None`, `Torn` and
`Cache` are not names of anything, bounds are positive, a cloud-config is a list of files
and two lists of commands, and an inventory has no more hosts than an int32 counts, which is
what `int32(len(c.Hosts))` takes for granted.

**Why the hypotheses are needed.** Each leaves out what breaks the property:

- `Steady` is no `crash`, `patchError`, `machineLag` or `hostDelete`. A reconcile that
  releases its Host and then loses the patch that says so releases it again when the next
  owner is serving on it; that is the violation of `pool_crash_serving`. Added to
  `pool_serving` one at a time, each of `crash`, `patchError` and `machineLag` makes TLC
  refute `ServingUndisturbed`, and `hostDelete` `HeldIsClaimed`. Stale Hosts, hosts
  that do not answer, operators' edits and moves are allowed.
- Without `hostLag`: a machine that does not see its own label claims a second Host (the
  hazard at `hostmachine_controller.go:297`). `Tracked` is no `hostLag`, or only one Host: with
  two, such a second label can be recovered after a move and the script run again.
- Without `earlyRelease`: `provisioner_stale_exit`. `Release` waits for the run to end.
- `Careful` is neither `lag` nor `trustAny`: a pin made from an old copy, and a pin forgotten
  while a machine holds the Host, let a second key in.
- `Apart` is one namespace for each cluster: `management_shared`.
- `Signals(c)`: the line of `runcmd` that calls kubeadm writes the sentinel too, as the
  bootstrap provider's does. Otherwise no exit status can tell.
- `InPlace(c)`: whatever is written to kubeadm's file is a configuration, and what is appended
  to it comes after such a write, as in what the bootstrap provider writes. A node that joins
  from documents that were appended to an older file joins with that file's, too.
- `Fits`: the machines asked for in total are at most `MaxCount`. Beyond it the sum is negative
  and Validate lets everything through (the hazard at `load.go:311`).

**The ledger.** That label and claim agree is not inductive: `RecordClaim` writes the claim
without looking at the label, `UnclaimHost` clears it likewise. They are right because the
copy they write from was read together with the version they send. So the inductive
invariant is

    ClaimInv == TypeOK /\ WorkShape /\ CacheIsCurrent /\ CopyIsCurrent /\ LabelAgreesWithClaim

`CacheIsCurrent` says that a cached Host of the server's version is the server's Host;
`CopyIsCurrent` what a reconcile may rely on about a Host as long as its copy is current
(free while it is about to label it, its own label and no claim while it is about to
record, no label while it is about to unclaim); `WorkShape` that a reconcile in those steps
works on a Host at all. A step of another actor either leaves the Host alone, or writes it
and thereby makes the copy stale (`UntouchedKeepsCopies`, `UpdateFrame`, `WriteFrame`); a
stale copy cannot be written from. HostReconciler's patches carry no version but change
neither label nor claim (`StatusPatch`). The ledger theorem reads each write off the same invariant: a
write of the label is `Reserve` or `Withdraw`, of the claim `Confirm` or `GiveUp`, of the
phase `Verify`; everything else stutters.

**What a machine may count on.** `ServingInv` adds to `ClaimInv`, for each machine: the Host
its hostRef names is claimed for it, unless the reconcile has released it and is about to drop
the finalizer (`RefInv`); a claim the cache shows for a live machine is still there, and is
labelled (`ClaimedInv`); a Host that carries a live machine's run has its label, and its claim
too unless a move dropped it, in which case no probe that is under way can make the Host
Available (`DiskInv`, `LabelGuards`); and what a reconcile in the middle of its work has
established (`Good`). The proof splits a step into the machine it is for and the others, for
which it shows that what they count on is `Kept`. The three theorems follow from it, two of them
as action properties: a step that resets a disk, or frees a Host, is one of few, and the
invariant says whose. `DirtStaysMarked` needs besides that a patch of the conditions which is not
`OverwritesReset` puts back the Reset condition the Host has. TLC: 361,793 states, two
machines and one host.

`OneHostEach` needs other things: `MarkInv`, that the cache is the server's view, that a Host
which is gone marks nobody, and that a reconcile chooses among free Hosts only when no Host is
marked for its machine. It survives crashes and lost patches, because the mark on the Host and
not the hostRef is looked for first. TLC: 722,640 states with one machine, two hosts
and the faults of `pool_claims`.

`PoolImplementsHostRun` is the refinement of `HostRun`, from `ServingInv` and
`OneHostPerMachine`: the first gives that a run is started only on a Host claimed for the
machine, the second that no other Host carries a run of it, so that the answer of `Status` goes
from idle to running to its end, and leaves with the machine.

**Provisioner.** `Inv` says what is on the host at each command of `Start` (`FilesInv`), that a
run which is going on is the owner's, the only one, and works on complete files nobody is
writing (`LiveInv`), that `Start` goes to work only for a script that never ran (`RunsInv`), and
that the exit code beside the owner's checksum is how its script ended (`OutcomeInv`). The order
of the uploads, checksum last, is what makes it inductive under dropped sessions and reboots.
With it `Status` implements `HostRun`. TLC: 33,344 states.

**Wakeups.** `NoLostWakeup` speaks of the state in which everything is at rest, so the invariant
has to follow every reconcile that leads there: `WorkInv`, that a reconcile not queued again has
seen what the caches hold, and that its patch changes the object it read or there was nothing to
do; `RestInv`, that when it has let go of an object whose cached copy is current, nothing in the
caches asks for a reconcile, but for the bootstrap it has given up; `ForwardInv`, that the API server does not go back to what a cache
showed. Every event either changes no cache a reconcile looks at, or queues the object. TLC:
1,325,620 states.

**HostKeys.** For a TOFU Host: whoever has the current version has the Host (`CopyInv`); a Host
that can be claimed, or is, has a pin, and one that is refused or about to be trusted presents a
later key than its pin (`PinInv`); a probe under way has read the pin, and only trust has
forgotten it since (`ProbeInv`); and the Host was reached with the pinned key and no other, or,
while the pin of a first contact is still in the probe's copy, with that one (`UsedInv`). The patch without a version is the delicate step: it writes a pin only where the
probe read none, and finds a Host available under a pin only if nobody is about to forget that
pin. TLC: 146,692 states.

**Management.** `Inv` says of each step of a command what the steps before it have made true and
nobody else can undo (`StepInv`, `EjectInv`) and what eject leaves (`RecordInv`): the registry
is written last, and only by the command of that cluster. It holds wherever a command stops.
For orderly worlds `OrderInv` adds that one command runs at a time and the file stands for the
node, and `ApartInv` where a cluster's objects and pauses may come from. TLC: 3,107,752 states.

**CloudInit.** `ScriptShape` says what the concatenation of files and commands looks like,
`UpsertPins`, `FlagIsSet`, `DocumentIsPatched` and `FileIsPatched` what the patch guarantees of
a flag, a document and a file, and `LastLineSucceeds` what a guarded group that did not end the
script has run. The invariant follows the script: every entry behind it had a last line that
succeeded as a whole (`ProgressInv`), every document on disk and read by kubeadm is pinned
(`DiskInv`), and kubeadm's file holds a configuration from the moment it is there
(`KubeadmInv`), also through a second run over what the first left. `GivenInv` says more: what
is on disk behind the k-th file is the patch of what the bootstrap data has for the first k, so
that joining reads the patch of all of it. `NothingElseChanges` is then a fact about the patch:
`UpsertKeeps`, `KeepsTwice` and `GivenFlags` follow each flag by its place in the list. TLC: 70,084 states.

**Fleet.** `Inv` says what a step of `create` leaves behind: the configuration has its defaults
and was accepted (`ConfigInv`); Hosts, templates and groups are those of the configuration and
exist once the index has passed them, also when create is run again (`PoolInv`, `TemplatesInv`,
`GroupsInv`); a machine has its group's selector, its own host, and a group no more machines than
it asks for (`MachinesInv`). `RenderShape` says which object stands where in the list.
`DefaultsStayStable` is a fact about `ApplyDefaults` alone (`DefaultsTwice`).

Placement is counting. If a waiting machine found no host, every host of its role would be taken
(`NoneLeft`), by machines of the same role, each with one host of its own (`TakenAreFewer`), so
there would be more machines of that role than hosts. A control plane has at most `replicas`
machines, and Validate compares that with its hosts. The machines of the pools are at most the
sum of what the pools ask for (`PoolMachines`), which Validate compares with what the control
plane leaves over (`TwoRoles`), if it did not wrap around (`NoOverflow`). That the host can be
claimed too needs a first one among those that match (`Claimable`). TLC: 613,978 states.

**The order.** `CompareNames` and the sums are recursive functions. What they compute is shown
without the induction theorems, from well-foundedness of the natural numbers (`LeastNatural`):
the least input for which a claim fails has a smaller one for which it holds. `CompareUnfolds`
gives the loop of `CompareNames` one turn at a time, from a general fact about loops in which
something gets smaller (`LoopEnds`). Then, for bytes, numbers, heads and whole names in turn:
only equal ones compare equal, turning the arguments around turns the answer around, and the
order is transitive (`NamesAreOrdered`, `NamesAreTransitive`). The delicate place is between runs
of different kinds: numbers are compared by length first, other runs by bytes, and the order is
transitive only because a run shows its kind in its first byte (`MixedHeads`). So a finite pool
has exactly one first host (`HeadsExist`, `HeadsAreFirst`).

The reference reads digits as numbers, the code never does. `NumbersByValue` shows that it makes
no difference: without the zeros on the left a longer number is greater (`CountsOn`,
`LessStaysLess`), one of the same length is decided by the first digit that differs, and where
nothing differs the values are the same (`SameDigits`) and the text decides. `PartInRest` says
that cutting off a head leaves the words and numbers of the rest where they were, and
`CompareIsBefore` puts the two together.

**Only model-checked.**

- Liveness (`DeletionCompletes`, `UnclaimedHostReturns`, `DetachedRunIsReported`,
  `CorrectedHostReturns`): fairness and ENABLED are outside TLAPS.
- Of the sort itself only the head of the result is modelled; that Go's sort returns its input
  in order is the library's promise.

## 5. Not modelled

Deep-copy code, API markers and manifests (generated); output, status tables, image loading,
CNI installation, version, `inventory check` and `inventory list` (one-shot, no state to
protect); probe facts; SSH credentials (taken to be right); secrets and kubeadm
settings in the rendered manifests; operators' commands that append a document to kubeadm's file
(`types.go:57-59`), which would come behind the patch; what else than Hosts and HostMachines a
move may leave behind; leader election (taken to work, as the library promises).

## 6. Plan

1. *Proofs.* Every safety property a passing run checks has its theorem. Left is
   `OneHostPerMachine` for machines whose claims the cache shows, in place of a cache that
   never lags.
2. *Model.* `kg clusters` as a read and a write; editing the inventory of a live pool.
