-------------------------------- MODULE Fleet --------------------------------
(***************************************************************************)
(* From a configuration file to machines on hosts.  Load fills in the      *)
(* defaults and validates; create renders the objects and applies them one *)
(* after the other; Cluster API makes machines as soon as the object that  *)
(* asks for them exists, and each machine claims a free host its selector  *)
(* matches.  What Validate accepts is meant to be a fleet that fits.       *)
(***************************************************************************)
EXTENDS InventoryOrder, FiniteSets

CONSTANTS
    Configs,    \* the configurations an operator may write
    MaxCount,   \* the largest replica count, 2^31 - 1 in the code
    MaxProbed   \* bound: so many Hosts at a time are not as the cache has them

ASSUME CountAssumption == MaxCount \in Nat
ASSUME ProbedAssumption == MaxProbed \in Nat

VARIABLES
    cfg,        \* the configuration, as written and then with its defaults
    stage,      \* "file", "refused" or "accepted"
    applied,    \* how many objects have been applied
    pool,       \* the Host objects: name -> labels
    templates,  \* the HostMachineTemplates: name -> selector
    groups,     \* the KubeadmControlPlane and MachineDeployments: name -> replicas
    machines,   \* the machines Cluster API has made, in that order
    probed      \* Hosts that a probe has patched since the cache was told of them

vars == <<cfg, stage, applied, pool, templates, groups, machines, probed>>
objects == <<pool, templates, groups>>

-----------------------------------------------------------------------------
(* Configurations.  The fields nothing below tells apart are left out; an  *)
(* empty string or a 0 is a field left empty.                              *)

\* The strings, those the code fills in among them.
Text == STRING \cup {"root", "TOFU", "default", "role", "control-plane", "worker"}

Settings    == [user: Text, key: Text, password: BOOLEAN, policy: Text]
Labels      == SUBSET (Text \X Text)
Counts      == -MaxCount - 1 .. MaxCount
HostConfigs == [name: Names, address: Text, role: Text, labels: Labels, user: Text,
                key: Text, password: BOOLEAN, policy: Text, publicKey: BOOLEAN]
WorkerPools == [name: Text, replicas: Counts, selector: Labels]

\* No inventory has more hosts than a replica count can ask for.
ASSUME ConfigsAssumption ==
    \A c \in Configs :
        /\ c \in [header: BOOLEAN, ssh: Settings, hosts: Seq(HostConfigs), replicas: Counts,
                  workers: Seq(WorkerPools)]
        /\ Len(c.hosts) <= MaxCount

RoleControlPlane == "control-plane"
RoleWorker       == "worker"
RoleIs(role)     == {<<"role", role>>}

\* By their places in the inventory.
HostsWithRole(c, role) == {i \in DOMAIN c.hosts : c.hosts[i].role = role}

Empty(f) == f = ""
Or(f, default) == IF f = "" THEN default ELSE f

\* A host's ssh settings fall back to the ssh block, whose own defaults are in.
DefaultHost(h, ssh) ==
    [h EXCEPT !.user = Or(@, ssh.user), !.key = Or(@, ssh.key), !.policy = Or(@, ssh.policy),
              !.password = @ \/ ssh.password]

DefaultSSH(ssh) == [ssh EXCEPT !.user = Or(@, "root"), !.policy = Or(@, "TOFU")]

\* Without pools every worker host lands in one; a pool without a selector
\* draws from the worker hosts.
DefaultWorkers(c) ==
    LET n == Cardinality(HostsWithRole(c, RoleWorker))
        workers == IF c.workers = <<>> /\ n > 0
                   THEN <<[name |-> "default", replicas |-> n, selector |-> {}]>>
                   ELSE c.workers
    IN  [i \in DOMAIN workers |->
            IF workers[i].selector = {} THEN [workers[i] EXCEPT !.selector = RoleIs(RoleWorker)]
                                        ELSE workers[i]]

DefaultReplicas(c) ==
    IF c.replicas = 0 THEN Cardinality(HostsWithRole(c, RoleControlPlane)) ELSE c.replicas

\* Mutant: the hosts inherit from the ssh block before it has its defaults.
HostsFirst(c) ==
    [c EXCEPT !.ssh = DefaultSSH(@),
              !.hosts = [i \in DOMAIN c.hosts |-> DefaultHost(c.hosts[i], c.ssh)],
              !.replicas = DefaultReplicas(c), !.workers = DefaultWorkers(c)]

ApplyDefaults(c) ==
    [c EXCEPT !.ssh = DefaultSSH(@),
              !.hosts = [i \in DOMAIN c.hosts |-> DefaultHost(c.hosts[i], DefaultSSH(c.ssh))],
              !.replicas = DefaultReplicas(c), !.workers = DefaultWorkers(c)]

-----------------------------------------------------------------------------
(* Validate: the problems it reports.                                      *)

\* A replica count is a signed integer of one word: a sum beyond it wraps around.
Wrap(n) ==
    LET half == MaxCount + 1
    IN  ((n + half) % (2 * half)) - half

\* Wrapped once at the end, which is the same as wrapping every sum.
WorkerReplicas(c) ==
    LET sum[i \in 0 .. Len(c.workers)] == IF i = 0 THEN 0 ELSE sum[i - 1] + c.workers[i].replicas
    IN  sum[Len(c.workers)]

WantedMachines(c) == c.replicas + WorkerReplicas(c)

Repeated(list) == \E i, j \in DOMAIN list : i # j /\ list[i] = list[j]

Fields(list, field) == [i \in DOMAIN list |-> list[i][field]]

HostProblems(c) ==
    \/ c.hosts = <<>>
    \/ Repeated(Fields(c.hosts, "name")) \/ Repeated(Fields(c.hosts, "address"))
    \/ \E h \in Range(c.hosts) :
          \/ h.name = <<>> \/ Empty(h.address)
          \/ h.role \notin {RoleControlPlane, RoleWorker}
          \/ h.key = "unreadable" \/ (Empty(h.key) /\ ~h.password)
          \/ h.policy \notin {"Strict", "TOFU", "Insecure"}
          \/ h.policy = "Strict" /\ ~h.publicKey

\* Mutant: more replicas than control plane hosts are let through.
ControlPlaneParity(c) == c.replicas < 1 \/ c.replicas % 2 = 0

ControlPlaneProblems(c) ==
    \/ c.replicas < 1 \/ c.replicas % 2 = 0
    \/ c.replicas > Cardinality(HostsWithRole(c, RoleControlPlane))

WorkerProblems(c) ==
    \/ Repeated(Fields(c.workers, "name"))
    \/ \E w \in Range(c.workers) : Empty(w.name) \/ w.replicas < 0

\* Mutant: only the workers are counted.
CountWorkers(c) == Wrap(WorkerReplicas(c)) > Len(c.hosts)

TooFewHosts(c) == Wrap(WantedMachines(c)) > Len(c.hosts)

\* header: the version, kind, name, endpoint, CIDRs and manifests at the top are
\* in order, and so are the taints of the pools.
Validate(c) ==
    /\ c.header
    /\ ~HostProblems(c) /\ ~ControlPlaneProblems(c) /\ ~WorkerProblems(c) /\ ~TooFewHosts(c)

-----------------------------------------------------------------------------
(* Render, in the order All() returns the objects in.                      *)

\* The role becomes a label, which a label of the same name overrides.
RenderHost(h) ==
    [kind |-> "Host", name |-> h.name,
     labels |-> {l \in RoleIs(h.role) : \A k \in h.labels : k[1] # l[1]} \cup h.labels]

Template(name, selector) == [kind |-> "HostMachineTemplate", name |-> name, selector |-> selector]
Group(name, template, replicas) ==
    [kind |-> "Group", name |-> name, template |-> template, replicas |-> replicas]

\* A group is known by its kind and its name: a pool may be called like the control plane.
GroupNames == {"KubeadmControlPlane", "MachineDeployment"} \X Text

ControlPlaneName         == <<"KubeadmControlPlane", "control-plane">>
ControlPlaneTemplateName == "control-plane"
WorkerPoolName(w)        == <<"MachineDeployment", w.name>>
WorkerTemplateName(w)    == w.name

\* Mutant: a pool is applied before its template.
DeploymentFirst(w) ==
    <<Group(WorkerPoolName(w), WorkerTemplateName(w), w.replicas),
      Template(WorkerTemplateName(w), w.selector)>>

RenderWorkerPool(w) ==
    <<Template(WorkerTemplateName(w), w.selector),
      Group(WorkerPoolName(w), WorkerTemplateName(w), w.replicas)>>

Render(c) ==
    [i \in DOMAIN c.hosts |-> RenderHost(c.hosts[i])]
    \o <<Template(ControlPlaneTemplateName, RoleIs(RoleControlPlane)),
         Group(ControlPlaneName, ControlPlaneTemplateName, c.replicas)>>
    \o [k \in 1 .. 2 * Len(c.workers) |-> RenderWorkerPool(c.workers[(k + 1) \div 2])[2 - (k % 2)]]

-----------------------------------------------------------------------------

None == [x \in {} |-> {}]
Set(f, x, value) == [y \in DOMAIN f \cup {x} |-> IF y = x THEN value ELSE f[y]]

TypeOK ==
    /\ stage \in {"file", "refused", "accepted"}
    /\ applied \in 0 .. Len(Render(ApplyDefaults(cfg)))
    /\ DOMAIN pool \subseteq {h.name : h \in Range(cfg.hosts)}
    /\ \A g \in DOMAIN groups : groups[g].template \in DOMAIN templates
    /\ \A m \in Range(machines) : m.group \in DOMAIN groups /\ m.host \in DOMAIN pool \cup {<<>>}
    /\ probed \subseteq DOMAIN pool

Init ==
    /\ cfg \in Configs /\ stage = "file" /\ applied = 0
    /\ pool = None /\ templates = None /\ groups = None /\ machines = <<>>
    /\ probed = {}

Load ==
    /\ stage = "file"
    /\ cfg' = ApplyDefaults(cfg)
    /\ stage' = IF Validate(cfg') THEN "accepted" ELSE "refused"
    /\ UNCHANGED <<applied, objects, machines, probed>>

\* One object of kube.Apply: the field manager is the same every time, so an
\* object of a name that exists takes the new contents.
Apply ==
    /\ stage = "accepted" /\ applied < Len(Render(cfg))
    /\ LET o == Render(cfg)[applied + 1]
       IN  /\ pool' = IF o.kind = "Host" THEN Set(pool, o.name, o.labels) ELSE pool
           /\ templates' = IF o.kind = "HostMachineTemplate" THEN Set(templates, o.name, o.selector)
                                                             ELSE templates
           /\ groups' = IF o.kind = "Group"
                        THEN Set(groups, o.name, [template |-> o.template, replicas |-> o.replicas])
                        ELSE groups
    /\ applied' = applied + 1
    /\ UNCHANGED <<cfg, stage, machines, probed>>

\* create stops at an object that cannot be applied, or ends, and is run again.
Recreate ==
    /\ stage = "accepted" /\ applied > 0
    /\ applied' = 0
    /\ UNCHANGED <<cfg, stage, objects, machines, probed>>

MadeFor(g) == {i \in DOMAIN machines : machines[i].group = g}

\* Cluster API scales a group up and clones its template as it is now.
MakeMachine ==
    /\ \E g \in DOMAIN groups :
         /\ Cardinality(MadeFor(g)) < groups[g].replicas
         /\ machines' = Append(machines, [group |-> g, selector |-> templates[groups[g].template],
                                          host |-> <<>>])
    /\ UNCHANGED <<cfg, stage, applied, objects, probed>>

Free(h)       == \A m \in Range(machines) : m.host # h
Matching(m)   == {h \in DOMAIN pool : m.selector \subseteq pool[h] /\ Free(h)}
Waiting       == {m \in Range(machines) : m.host = <<>>}

\* HostReconciler probes a free Host and patches the time of the probe: the copy in
\* the cache has an old resourceVersion ...
Probe ==
    /\ Cardinality(probed) < MaxProbed
    /\ \E m \in Waiting : \E h \in Matching(m) \ probed : probed' = probed \cup {h}
    /\ UNCHANGED <<cfg, stage, applied, objects, machines>>

\* ... until the informer delivers the new one.
SyncHost ==
    /\ \E h \in probed : probed' = probed \ {h}
    /\ UNCHANGED <<cfg, stage, applied, objects, machines>>

\* claimHost, on hosts that a probe has all found available: the list is sorted, and the
\* first is taken that is free and whose Update is accepted.  A conflict, of another
\* claim or of a probe's patch, moves on to the next one.
Claim ==
    /\ \E i \in DOMAIN machines : \E h \in Heads(Matching(machines[i]) \ probed) :
         /\ machines[i].host = <<>>
         /\ machines' = [machines EXCEPT ![i].host = h]
    /\ UNCHANGED <<cfg, stage, applied, objects, probed>>

Next == Load \/ Apply \/ Recreate \/ MakeMachine \/ Probe \/ SyncHost \/ Claim

Spec == Init /\ [][Next]_vars

-----------------------------------------------------------------------------
(* Properties.                                                             *)

\* ApplyDefaults "is safe to call more than once": what it has filled in, it
\* leaves alone.
DefaultsAreStable == stage # "file" => ApplyDefaults(cfg) = cfg

\* The configuration leaves placement to the roles: no label overrides one, every
\* pool asks for workers, and no pool's template is called like the control plane's.
PlacedByRole ==
    /\ \A h \in Range(cfg.hosts) : \A l \in h.labels : l[1] # "role"
    /\ \A w \in Range(cfg.workers) :
          RoleIs(RoleWorker) \subseteq w.selector /\ WorkerTemplateName(w) # ControlPlaneTemplateName

\* A control plane machine of an accepted configuration that places by role never
\* waits for another to give a host back: whatever other machines have claimed before
\* it, one is left that its selector matches, also while create is applying the objects.
ControlPlaneFindsHosts ==
    PlacedByRole => \A m \in Waiting : m.group = ControlPlaneName => Heads(Matching(m)) # {}

\* Validate only compares totals.  That is enough for every machine to find a
\* host, in whatever order they are made, where no control plane host is spare
\* and all pools draw from all worker hosts.
MachinesFindHosts ==
    /\ PlacedByRole
    /\ cfg.replicas = Cardinality(HostsWithRole(cfg, RoleControlPlane))
    /\ \A w \in Range(cfg.workers) : w.selector = RoleIs(RoleWorker)
    => \A m \in Waiting : Heads(Matching(m)) # {}

\* The hosts of a group are taken in the order a person reading the fleet expects,
\* strictly and whatever order the cache lists them in, but for the hosts a probe has
\* patched since: those are passed over although they are free, and "which host it moves
\* onto next" (hostmachine_controller.go:305) can be told only when none of them is.
HostsTakenInOrder ==
    [][\A i \in DOMAIN machines :
          machines'[i].host # machines[i].host =>
              \A h \in Matching(machines[i]) \ (probed \cup {machines'[i].host}) :
                  Before(machines'[i].host, h)]_vars

==============================================================================
