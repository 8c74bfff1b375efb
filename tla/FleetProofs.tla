----------------------------- MODULE FleetProofs -----------------------------
(***************************************************************************)
(* What a configuration that was accepted becomes, for all configurations: *)
(* any number of hosts, pools and machines, in any order of applying the   *)
(* objects, making machines and claiming hosts.                            *)
(***************************************************************************)
EXTENDS Fleet, SequenceTheorems, FiniteSetTheorems, WellFoundedInduction, TLAPS

\* The configurations, before and after Load.
ConfigTypes ==
    [header: BOOLEAN, ssh: Settings, hosts: Seq(HostConfigs), replicas: Counts,
     workers: Seq(WorkerPools)]

MachineTypes == [group: GroupNames, selector: Labels, host: Names]

\* The labels the Host object of the i-th host has.
LabelsAt(i) == RenderHost(cfg.hosts[i]).labels

ConfigInv ==
    /\ cfg \in ConfigTypes /\ Len(cfg.hosts) <= MaxCount
    /\ stage \in {"file", "refused", "accepted"}
    /\ stage # "file" => ApplyDefaults(cfg) = cfg
    /\ stage = "accepted" => Validate(cfg)
    /\ stage # "accepted" =>
          applied = 0 /\ pool = None /\ templates = None /\ groups = None /\ machines = <<>>

\* The objects are those of the configuration, and come after those they refer to.
PoolInv ==
    /\ \A h \in DOMAIN pool :
          \E i \in DOMAIN cfg.hosts : h = cfg.hosts[i].name /\ pool[h] = LabelsAt(i)
    /\ \A i \in DOMAIN cfg.hosts :
          i <= applied \/ DOMAIN groups # {} => cfg.hosts[i].name \in DOMAIN pool

TemplatesInv ==
    /\ \A t \in DOMAIN templates :
          \/ t = ControlPlaneTemplateName /\ templates[t] = RoleIs(RoleControlPlane)
          \/ \E j \in DOMAIN cfg.workers :
                t = WorkerTemplateName(cfg.workers[j]) /\ templates[t] = cfg.workers[j].selector
    /\ applied > Len(cfg.hosts) => ControlPlaneTemplateName \in DOMAIN templates
    /\ \A j \in DOMAIN cfg.workers :
          applied > Len(cfg.hosts) + 2 * j => WorkerTemplateName(cfg.workers[j]) \in DOMAIN templates

\* What the groups of the control plane and of a pool ask for.
ControlPlaneAsks == [template |-> ControlPlaneTemplateName, replicas |-> cfg.replicas]
PoolAsks(j)      == [template |-> WorkerTemplateName(cfg.workers[j]), replicas |-> cfg.workers[j].replicas]

GroupsInv ==
    \A g \in DOMAIN groups :
        /\ groups[g].template \in DOMAIN templates
        /\ \/ g = ControlPlaneName /\ groups[g] = ControlPlaneAsks
           \/ \E j \in DOMAIN cfg.workers :
                 g = WorkerPoolName(cfg.workers[j]) /\ groups[g] = PoolAsks(j)

ObjectsInv ==
    applied \in 0 .. Len(Render(cfg)) /\ PoolInv /\ TemplatesInv /\ GroupsInv

\* A machine's selector is that of its group, where no template was replaced.
SelectorOf(m) ==
    /\ m.group = ControlPlaneName => m.selector = RoleIs(RoleControlPlane)
    /\ m.group # ControlPlaneName =>
          \E j \in DOMAIN cfg.workers :
              m.group = WorkerPoolName(cfg.workers[j]) /\ m.selector = cfg.workers[j].selector

\* The machines are those the groups ask for, and no two have one host.
MachinesInv ==
    /\ machines \in Seq(MachineTypes)
    /\ \A i \in DOMAIN machines :
          /\ machines[i].group \in DOMAIN groups
          /\ machines[i].host # <<>> =>
                machines[i].host \in DOMAIN pool /\ machines[i].selector \subseteq pool[machines[i].host]
          /\ PlacedByRole => SelectorOf(machines[i])
    /\ \A i, j \in DOMAIN machines :
          machines[i].host = machines[j].host /\ machines[i].host # <<>> => i = j
    /\ \A g \in DOMAIN groups : Cardinality(MadeFor(g)) <= groups[g].replicas

Inv == ConfigInv /\ ObjectsInv /\ MachinesInv

-----------------------------------------------------------------------------
(* The defaults.                                                           *)

\* The hosts of a role are finitely many, and no more than the hosts.
LEMMA RoleCount ==
    ASSUME NEW c \in ConfigTypes, NEW role
    PROVE  /\ IsFiniteSet(HostsWithRole(c, role)) /\ HostsWithRole(c, role) \subseteq 1 .. Len(c.hosts)
           /\ Cardinality(HostsWithRole(c, role)) \in 0 .. Len(c.hosts)
<1>1. c.hosts \in Seq(HostConfigs) BY DEF ConfigTypes
<1>2. DOMAIN c.hosts = 1 .. Len(c.hosts) /\ Len(c.hosts) \in Nat BY <1>1
<1>3. IsFiniteSet(1 .. Len(c.hosts)) /\ Cardinality(1 .. Len(c.hosts)) = Len(c.hosts)
  BY <1>2, FS_Interval
<1>4. HostsWithRole(c, role) \subseteq 1 .. Len(c.hosts) BY <1>2 DEF HostsWithRole
<1>5. Cardinality(HostsWithRole(c, role)) <= Len(c.hosts) /\ IsFiniteSet(HostsWithRole(c, role))
  BY <1>3, <1>4, FS_Subset
<1>. QED BY <1>2, <1>4, <1>5, FS_CardinalityType

\* The fields of a configuration with its defaults.
LEMMA DefaultFields ==
    ASSUME NEW c \in ConfigTypes
    PROVE  /\ ApplyDefaults(c).header = c.header
           /\ ApplyDefaults(c).ssh = DefaultSSH(c.ssh)
           /\ ApplyDefaults(c).hosts = [i \in DOMAIN c.hosts |-> DefaultHost(c.hosts[i], DefaultSSH(c.ssh))]
           /\ ApplyDefaults(c).replicas = DefaultReplicas(c)
           /\ ApplyDefaults(c).workers = DefaultWorkers(c)
           /\ DOMAIN ApplyDefaults(c) = DOMAIN c
BY DEF ConfigTypes, ApplyDefaults

\* A setting or its default is a string.
LEMMA OrTyped ==
    ASSUME NEW f \in Text, NEW d \in Text
    PROVE  Or(f, d) \in Text
BY DEF Or

\* The ssh block takes its defaults once.
LEMMA SSHTwice ==
    ASSUME NEW s \in Settings
    PROVE  DefaultSSH(s) \in Settings /\ DefaultSSH(DefaultSSH(s)) = DefaultSSH(s)
<1>1. ASSUME NEW t \in Settings
      PROVE  /\ DefaultSSH(t) \in Settings
             /\ DefaultSSH(t).user = Or(t.user, "root") /\ DefaultSSH(t).policy = Or(t.policy, "TOFU")
             /\ DefaultSSH(t).key = t.key /\ DefaultSSH(t).password = t.password
  <2>1. Or(t.user, "root") \in Text /\ Or(t.policy, "TOFU") \in Text
    BY OrTyped DEF Settings, Text
  <2>. QED BY <2>1 DEF Settings, DefaultSSH
<1>. DEFINE a == DefaultSSH(s)
            b == DefaultSSH(a)
<1>2. a \in Settings /\ b \in Settings BY <1>1
<1>4. b.user = a.user /\ b.policy = a.policy
  <2>1. a.user = Or(s.user, "root") /\ a.policy = Or(s.policy, "TOFU") BY <1>1
  <2>2. b.user = Or(a.user, "root") /\ b.policy = Or(a.policy, "TOFU") BY <1>1, <1>2
  <2>. HIDE DEF a, b
  <2>. QED BY <2>1, <2>2 DEF Or
<1>5. b.key = a.key /\ b.password = a.password BY <1>1, <1>2
<1>. HIDE DEF a, b
<1>6. a = b BY <1>2, <1>4, <1>5 DEF Settings
<1>. QED BY <1>2, <1>6 DEF a, b

\* So does a host, and its name, role and labels are left alone.
LEMMA HostTwice ==
    ASSUME NEW s \in Settings, NEW h \in HostConfigs
    PROVE  /\ DefaultHost(h, s) \in HostConfigs
           /\ DefaultHost(DefaultHost(h, s), s) = DefaultHost(h, s)
           /\ DefaultHost(h, s).name = h.name /\ DefaultHost(h, s).role = h.role
           /\ DefaultHost(h, s).labels = h.labels
<1>1. ASSUME NEW g \in HostConfigs
      PROVE  LET d == DefaultHost(g, s) IN
             /\ d \in HostConfigs
             /\ d.user = Or(g.user, s.user) /\ d.key = Or(g.key, s.key)
             /\ d.policy = Or(g.policy, s.policy) /\ d.password = (g.password \/ s.password)
             /\ d.name = g.name /\ d.address = g.address /\ d.role = g.role
             /\ d.labels = g.labels /\ d.publicKey = g.publicKey
  <2>1. /\ Or(g.user, s.user) \in Text /\ Or(g.key, s.key) \in Text
        /\ Or(g.policy, s.policy) \in Text
    BY OrTyped DEF Settings, HostConfigs
  <2>2. (g.password \/ s.password) \in BOOLEAN BY DEF Settings, HostConfigs
  <2>. QED BY <2>1, <2>2 DEF HostConfigs, DefaultHost
<1>. DEFINE a == DefaultHost(h, s)
            b == DefaultHost(a, s)
<1>2. a \in HostConfigs /\ b \in HostConfigs BY <1>1
<1>3. h.password \in BOOLEAN /\ s.password \in BOOLEAN
  BY DEF Settings, HostConfigs
<1>4. b.user = a.user /\ b.key = a.key /\ b.policy = a.policy
  <2>1. a.user = Or(h.user, s.user) /\ a.key = Or(h.key, s.key) /\ a.policy = Or(h.policy, s.policy)
    BY <1>1
  <2>2. b.user = Or(a.user, s.user) /\ b.key = Or(a.key, s.key) /\ b.policy = Or(a.policy, s.policy)
    BY <1>1, <1>2
  <2>. HIDE DEF a, b
  <2>. QED BY <2>1, <2>2 DEF Or
<1>5. b.password = a.password
  <2>1. a.password = (h.password \/ s.password) /\ b.password = (a.password \/ s.password)
    BY <1>1, <1>2
  <2>2. a.password \in BOOLEAN BY <1>2 DEF HostConfigs
  <2>. HIDE DEF a, b
  <2>. QED BY <1>3, <2>1, <2>2
<1>6. /\ b.name = a.name /\ b.address = a.address /\ b.role = a.role /\ b.labels = a.labels
      /\ b.publicKey = a.publicKey
  BY <1>1, <1>2
<1>7. a.name = h.name /\ a.role = h.role /\ a.labels = h.labels BY <1>1
<1>. HIDE DEF a, b
<1>8. a = b BY <1>2, <1>4, <1>5, <1>6 DEF HostConfigs
<1>. QED BY <1>2, <1>7, <1>8 DEF a, b

\* The hosts stay in their places.
LEMMA HostsStay ==
    ASSUME NEW c \in ConfigTypes
    PROVE  /\ DOMAIN ApplyDefaults(c).hosts = DOMAIN c.hosts
           /\ \A i \in DOMAIN c.hosts :
                 ApplyDefaults(c).hosts[i] = DefaultHost(c.hosts[i], DefaultSSH(c.ssh))
<1>1. ApplyDefaults(c).hosts = [i \in DOMAIN c.hosts |-> DefaultHost(c.hosts[i], DefaultSSH(c.ssh))]
  BY DefaultFields
<1>. QED BY <1>1

\* The roles of the hosts are not touched.
LEMMA RolesStay ==
    ASSUME NEW c \in ConfigTypes, NEW role
    PROVE  HostsWithRole(ApplyDefaults(c), role) = HostsWithRole(c, role)
<1>1. c.hosts \in Seq(HostConfigs) /\ DefaultSSH(c.ssh) \in Settings BY SSHTwice DEF ConfigTypes
<1>2. \A i \in DOMAIN c.hosts : c.hosts[i] \in HostConfigs BY <1>1
<1>3. DOMAIN ApplyDefaults(c).hosts = DOMAIN c.hosts BY HostsStay
<1>4. \A i \in DOMAIN c.hosts : ApplyDefaults(c).hosts[i].role = c.hosts[i].role
  BY <1>1, <1>2, HostsStay, HostTwice
<1>. HIDE DEF ConfigTypes
<1>. QED BY <1>3, <1>4 DEF HostsWithRole

\* A role is one label.
LEMMA RoleTyped ==
    ASSUME NEW role \in Text
    PROVE  RoleIs(role) \in Labels /\ RoleIs(role) # {}
<1>1. <<"role", role>> \in Text \X Text BY DEF Text
<1>. QED BY <1>1 DEF RoleIs, Labels

\* The pools of a configuration with its defaults.
LEMMA DefaultPools ==
    ASSUME NEW c \in ConfigTypes, Len(c.hosts) <= MaxCount
    PROVE  /\ DefaultWorkers(c) \in Seq(WorkerPools)
           /\ \A i \in DOMAIN DefaultWorkers(c) : DefaultWorkers(c)[i].selector # {}
           /\ DefaultWorkers(c) = <<>> =>
                 c.workers = <<>> /\ ~(Cardinality(HostsWithRole(c, RoleWorker)) > 0)
<1>. DEFINE n       == Cardinality(HostsWithRole(c, RoleWorker))
            one     == [name |-> "default", replicas |-> n, selector |-> {}]
            workers == IF c.workers = <<>> /\ n > 0 THEN <<one>> ELSE c.workers
            Full(w) == IF w.selector = {} THEN [w EXCEPT !.selector = RoleIs(RoleWorker)] ELSE w
<1>1. n \in 0 .. Len(c.hosts) /\ Len(c.hosts) \in Nat BY RoleCount DEF ConfigTypes
<1>2. n \in Counts BY <1>1, CountAssumption DEF Counts
<1>. HIDE DEF n
<1>3. {} \in Labels /\ "default" \in Text BY DEF Labels, Text
<1>3a. one \in WorkerPools BY <1>2, <1>3 DEF WorkerPools
<1>. HIDE DEF one
<1>4. c.workers \in Seq(WorkerPools) BY DEF ConfigTypes
<1>5. <<one>> \in Seq(WorkerPools) BY <1>3a
<1>6. workers \in Seq(WorkerPools) /\ (workers = <<>> => c.workers = <<>> /\ ~(n > 0))
  BY <1>4, <1>5
<1>. HIDE DEF workers
<1>7. DefaultWorkers(c) = [i \in DOMAIN workers |-> Full(workers[i])]
  BY DEF DefaultWorkers, workers, n, one
<1>8. RoleIs(RoleWorker) \in Labels /\ RoleIs(RoleWorker) # {} BY RoleTyped DEF RoleWorker, Text
<1>9. \A w \in WorkerPools : Full(w) \in WorkerPools /\ Full(w).selector # {}
  BY <1>8 DEF WorkerPools
<1>. HIDE DEF Full
<1>10. DOMAIN workers = 1 .. Len(workers) /\ Len(workers) \in Nat
       /\ \A i \in DOMAIN workers : workers[i] \in WorkerPools
  BY <1>6
<1>11. [i \in DOMAIN workers |-> Full(workers[i])] \in Seq(WorkerPools)
  BY <1>9, <1>10
<1>12. DefaultWorkers(c) = <<>> => workers = <<>> BY <1>6, <1>7, <1>10
<1>. QED BY <1>6, <1>7, <1>9, <1>10, <1>11, <1>12 DEF n

\* A configuration with its defaults is one, with as many hosts.
LEMMA DefaultsTyped ==
    ASSUME NEW c \in ConfigTypes, Len(c.hosts) <= MaxCount
    PROVE  /\ ApplyDefaults(c) \in ConfigTypes /\ Len(ApplyDefaults(c).hosts) = Len(c.hosts)
           /\ DOMAIN ApplyDefaults(c).hosts = DOMAIN c.hosts
<1>1. c.hosts \in Seq(HostConfigs) /\ c.ssh \in Settings /\ DefaultSSH(c.ssh) \in Settings
  BY SSHTwice DEF ConfigTypes
<1>2. DOMAIN c.hosts = 1 .. Len(c.hosts) /\ Len(c.hosts) \in Nat BY <1>1
<1>3. \A i \in DOMAIN c.hosts : DefaultHost(c.hosts[i], DefaultSSH(c.ssh)) \in HostConfigs
  BY <1>1, HostTwice
<1>4. [i \in DOMAIN c.hosts |-> DefaultHost(c.hosts[i], DefaultSSH(c.ssh))] \in Seq(HostConfigs)
  BY <1>2, <1>3
<1>5. DefaultReplicas(c) \in Counts
  BY <1>2, RoleCount, CountAssumption DEF DefaultReplicas, Counts, ConfigTypes
<1>6. ApplyDefaults(c) \in ConfigTypes
  BY <1>1, <1>4, <1>5, DefaultPools DEF ApplyDefaults, ConfigTypes
<1>7. DOMAIN ApplyDefaults(c).hosts = DOMAIN c.hosts BY HostsStay
<1>8. Len(ApplyDefaults(c).hosts) = Len(c.hosts)
  <2>1. ApplyDefaults(c).hosts \in Seq(HostConfigs) BY <1>6 DEF ConfigTypes
  <2>. QED BY <1>1, <1>7, <2>1, LenProperties
<1>. QED BY <1>6, <1>7, <1>8

\* The pools take their defaults once.
LEMMA PoolsTwice ==
    ASSUME NEW c \in ConfigTypes, Len(c.hosts) <= MaxCount
    PROVE  DefaultWorkers(ApplyDefaults(c)) = DefaultWorkers(c)
<1>. DEFINE d == ApplyDefaults(c)
            ws == DefaultWorkers(c)
<1>1. d.workers = ws /\ HostsWithRole(d, RoleWorker) = HostsWithRole(c, RoleWorker)
  BY DefaultFields, RolesStay
<1>2. /\ ws \in Seq(WorkerPools) /\ \A i \in DOMAIN ws : ws[i].selector # {}
      /\ ~(ws = <<>> /\ Cardinality(HostsWithRole(c, RoleWorker)) > 0)
  BY DefaultPools
<1>3. DefaultWorkers(d) = [i \in DOMAIN ws |-> ws[i]]
  <2>. HIDE DEF d, ws
  <2>. QED BY <1>1, <1>2 DEF DefaultWorkers
<1>. HIDE DEF ws
<1>4. ws = [i \in DOMAIN ws |-> ws[i]] BY <1>2
<1>. QED BY <1>3, <1>4 DEF ws

\* ApplyDefaults "is safe to call more than once".
LEMMA DefaultsTwice ==
    ASSUME NEW c \in ConfigTypes, Len(c.hosts) <= MaxCount
    PROVE  ApplyDefaults(ApplyDefaults(c)) = ApplyDefaults(c)
<1>. DEFINE d == ApplyDefaults(c)
            e == ApplyDefaults(d)
<1>1. d \in ConfigTypes /\ Len(d.hosts) <= MaxCount /\ DOMAIN d.hosts = DOMAIN c.hosts
  BY DefaultsTyped
<1>2. e \in ConfigTypes BY <1>1, DefaultsTyped
<1>3. c.ssh \in Settings /\ DefaultSSH(c.ssh) \in Settings /\ c.hosts \in Seq(HostConfigs)
  BY SSHTwice DEF ConfigTypes
<1>4. e.ssh = d.ssh /\ e.header = d.header /\ d.ssh = DefaultSSH(c.ssh)
  BY <1>1, <1>3, DefaultFields, SSHTwice
<1>5. e.hosts = d.hosts
  <2>1. d.hosts = [i \in DOMAIN c.hosts |-> DefaultHost(c.hosts[i], d.ssh)]
    BY <1>4, DefaultFields
  <2>2. e.hosts = [i \in DOMAIN c.hosts |-> DefaultHost(d.hosts[i], e.ssh)]
    BY <1>1, <1>4, DefaultFields
  <2>3. ASSUME NEW i \in DOMAIN c.hosts PROVE DefaultHost(d.hosts[i], e.ssh) = d.hosts[i]
    <3>1. c.hosts[i] \in HostConfigs /\ d.ssh \in Settings BY <1>3, <1>4
    <3>2. d.hosts[i] = DefaultHost(c.hosts[i], d.ssh) BY <2>1
    <3>. QED BY <1>4, <3>1, <3>2, HostTwice
  <2>. HIDE DEF d, e
  <2>. QED BY <2>1, <2>2, <2>3
<1>6. e.replicas = d.replicas
  <2>1. e.replicas = DefaultReplicas(d) /\ d.replicas = DefaultReplicas(c) BY <1>1, DefaultFields
  <2>2. HostsWithRole(d, RoleControlPlane) = HostsWithRole(c, RoleControlPlane) BY RolesStay
  <2>. HIDE DEF d, e
  <2>. QED BY <2>1, <2>2 DEF DefaultReplicas
<1>7. e.workers = d.workers
  BY <1>1, DefaultFields, PoolsTwice
<1>. HIDE DEF d, e
<1>8. e = d BY <1>1, <1>2, <1>4, <1>5, <1>6, <1>7 DEF ConfigTypes
<1>. QED BY <1>8 DEF d, e

-----------------------------------------------------------------------------
(* The rendered objects.                                                   *)

ControlPlaneTemplate == Template(ControlPlaneTemplateName, RoleIs(RoleControlPlane))
ControlPlaneGroup(c) == Group(ControlPlaneName, ControlPlaneTemplateName, c.replicas)
PoolTemplate(w)      == Template(WorkerTemplateName(w), w.selector)
PoolGroup(w)         == Group(WorkerPoolName(w), WorkerTemplateName(w), w.replicas)

\* What a row of three lists holds at every place.
LEMMA ThreeLists ==
    ASSUME NEW S, NEW a \in Seq(S), NEW b \in Seq(S), NEW c \in Seq(S)
    PROVE  /\ (a \o b) \o c \in Seq(S)
           /\ Len((a \o b) \o c) = Len(a) + Len(b) + Len(c)
           /\ \A i \in 1 .. Len(a) : ((a \o b) \o c)[i] = a[i]
           /\ \A i \in 1 .. Len(b) : ((a \o b) \o c)[Len(a) + i] = b[i]
           /\ \A i \in 1 .. Len(c) : ((a \o b) \o c)[Len(a) + Len(b) + i] = c[i]
<1>. DEFINE ab == a \o b
            t  == ab \o c
<1>0. Len(a) \in Nat /\ Len(b) \in Nat /\ Len(c) \in Nat BY LenProperties
<1>1. /\ ab \in Seq(S) /\ Len(ab) = Len(a) + Len(b)
      /\ \A i \in 1 .. Len(a) + Len(b) : ab[i] = IF i <= Len(a) THEN a[i] ELSE b[i - Len(a)]
  BY ConcatProperties, Zenon
<1>. HIDE DEF ab
<1>2. /\ t \in Seq(S) /\ Len(t) = Len(ab) + Len(c)
      /\ \A i \in 1 .. Len(ab) + Len(c) : t[i] = IF i <= Len(ab) THEN ab[i] ELSE c[i - Len(ab)]
  <2>1. ab \in Seq(S) BY <1>1
  <2>. QED BY <2>1, ConcatProperties, Zenon
<1>. HIDE DEF t
<1>3. ASSUME NEW i \in 1 .. Len(a) PROVE t[i] = a[i]
  <2>1. i \in 1 .. Len(a) + Len(b) /\ i \in 1 .. Len(ab) + Len(c) BY <1>0, <1>1
  <2>. QED BY <1>0, <1>1, <1>2, <2>1
<1>4. ASSUME NEW i \in 1 .. Len(b) PROVE t[Len(a) + i] = b[i]
  <2>. DEFINE j == Len(a) + i
  <2>1. /\ j \in 1 .. Len(a) + Len(b) /\ j \in 1 .. Len(ab) + Len(c)
        /\ ~(j <= Len(a)) /\ j - Len(a) = i /\ j <= Len(ab)
    BY <1>0, <1>1
  <2>. HIDE DEF j
  <2>2. t[j] = ab[j] /\ ab[j] = b[j - Len(a)] BY <1>1, <1>2, <2>1
  <2>. QED BY <2>1, <2>2 DEF j
<1>5. ASSUME NEW i \in 1 .. Len(c) PROVE t[Len(a) + Len(b) + i] = c[i]
  <2>. DEFINE j == Len(a) + Len(b) + i
  <2>1. j \in 1 .. Len(ab) + Len(c) /\ ~(j <= Len(ab)) /\ j - Len(ab) = i BY <1>0, <1>1
  <2>. HIDE DEF j
  <2>2. t[j] = c[j - Len(ab)] BY <1>2, <2>1
  <2>. QED BY <2>1, <2>2 DEF j
<1>6. Len(t) = Len(a) + Len(b) + Len(c) BY <1>0, <1>1, <1>2
<1>. QED BY <1>2, <1>3, <1>4, <1>5, <1>6, Zenon DEF t, ab

\* The two objects of the j-th of w pools are the places 2j - 1 and 2j of the pools' list.
LEMMA PairPlaces ==
    ASSUME NEW w \in Nat, NEW j \in 1 .. w
    PROVE  /\ 2 * j - 1 \in 1 .. 2 * w /\ ((2 * j - 1) + 1) \div 2 = j /\ 2 - ((2 * j - 1) % 2) = 1
           /\ 2 * j \in 1 .. 2 * w /\ (2 * j + 1) \div 2 = j /\ 2 - ((2 * j) % 2) = 2
<1>1. 2 * j - 1 \in 1 .. 2 * w OBVIOUS
<1>2. 2 * j \in 1 .. 2 * w OBVIOUS
<1>3. ((2 * j - 1) + 1) \div 2 = j OBVIOUS
<1>4. (2 * j + 1) \div 2 = j OBVIOUS
<1>5. (2 * j - 1) % 2 = 1 OBVIOUS
<1>6. (2 * j) % 2 = 0 OBVIOUS
<1>. QED BY <1>1, <1>2, <1>3, <1>4, <1>5, <1>6

\* A function on the first k numbers is a list of length k.
LEMMA ListTyped ==
    ASSUME NEW S, NEW k \in Nat, NEW f \in [1 .. k -> S]
    PROVE  f \in Seq(S) /\ Len(f) = k
<1>1. f \in Seq(S) BY SeqDef
<1>. QED BY <1>1, LenProperties

\* The Hosts, the control plane's template and group, and the two objects of every pool.
LEMMA RenderShape ==
    ASSUME NEW c \in ConfigTypes
    PROVE  /\ Len(c.hosts) \in Nat /\ Len(c.workers) \in Nat
           /\ Len(Render(c)) = Len(c.hosts) + 2 + 2 * Len(c.workers)
           /\ \A i \in 1 .. Len(c.hosts) : Render(c)[i] = RenderHost(c.hosts[i])
           /\ Render(c)[Len(c.hosts) + 1] = ControlPlaneTemplate
           /\ Render(c)[Len(c.hosts) + 2] = ControlPlaneGroup(c)
           /\ \A j \in 1 .. Len(c.workers) :
                 /\ Render(c)[Len(c.hosts) + 1 + 2 * j] = PoolTemplate(c.workers[j])
                 /\ Render(c)[Len(c.hosts) + 2 + 2 * j] = PoolGroup(c.workers[j])
<1>. DEFINE n == Len(c.hosts)
            w == Len(c.workers)
            At(k) == RenderWorkerPool(c.workers[(k + 1) \div 2])[2 - (k % 2)]
            a == [i \in DOMAIN c.hosts |-> RenderHost(c.hosts[i])]
            b == <<ControlPlaneTemplate, ControlPlaneGroup(c)>>
            d == [k \in 1 .. 2 * w |-> At(k)]
            S == {RenderHost(c.hosts[i]) : i \in DOMAIN c.hosts}
                    \cup {ControlPlaneTemplate, ControlPlaneGroup(c)} \cup {At(k) : k \in 1 .. 2 * w}
<1>1. c.hosts \in Seq(HostConfigs) /\ c.workers \in Seq(WorkerPools) BY DEF ConfigTypes
<1>2. n \in Nat /\ w \in Nat /\ DOMAIN c.hosts = 1 .. n /\ DOMAIN c.workers = 1 .. w
  BY <1>1, LenProperties
<1>3. Render(c) = (a \o b) \o d BY DEF Render, ControlPlaneTemplate, ControlPlaneGroup
<1>4. ASSUME NEW j \in 1 .. w
      PROVE  /\ 2 * j - 1 \in 1 .. 2 * w /\ At(2 * j - 1) = PoolTemplate(c.workers[j])
             /\ 2 * j \in 1 .. 2 * w /\ At(2 * j) = PoolGroup(c.workers[j])
  <2>1. /\ 2 * j - 1 \in 1 .. 2 * w /\ ((2 * j - 1) + 1) \div 2 = j /\ 2 - ((2 * j - 1) % 2) = 1
        /\ 2 * j \in 1 .. 2 * w /\ (2 * j + 1) \div 2 = j /\ 2 - ((2 * j) % 2) = 2
    <3>. HIDE DEF n, w, At, a, b, d, S
    <3>. QED BY <1>2, PairPlaces
  <2>2. /\ RenderWorkerPool(c.workers[j])[1] = PoolTemplate(c.workers[j])
        /\ RenderWorkerPool(c.workers[j])[2] = PoolGroup(c.workers[j])
    BY DEF RenderWorkerPool, PoolTemplate, PoolGroup
  <2>. QED BY <2>1, <2>2
<1>. HIDE DEF n, w, At
<1>5. /\ a \in Seq(S) /\ Len(a) = n /\ d \in Seq(S) /\ Len(d) = 2 * w
  <2>1. a \in [1 .. n -> S] /\ d \in [1 .. 2 * w -> S] /\ 2 * w \in Nat BY <1>2
  <2>. DEFINE m == 2 * w
  <2>2. d \in [1 .. m -> S] /\ m \in Nat BY <2>1
  <2>. HIDE DEF a, b, d, S, m
  <2>3. a \in Seq(S) /\ Len(a) = n BY <1>2, <2>1, ListTyped, Zenon
  <2>4. d \in Seq(S) /\ Len(d) = m BY <2>2, ListTyped, Zenon
  <2>. QED BY <2>3, <2>4 DEF m
<1>6. b \in Seq(S) /\ Len(b) = 2 OBVIOUS
<1>7. /\ \A i \in 1 .. n : a[i] = RenderHost(c.hosts[i])
      /\ b[1] = ControlPlaneTemplate /\ b[2] = ControlPlaneGroup(c)
      /\ \A k \in 1 .. 2 * w : d[k] = At(k)
  BY <1>2
<1>. HIDE DEF a, b, d, S
<1>8. /\ Len(Render(c)) = n + 2 + 2 * w
      /\ \A i \in 1 .. n : Render(c)[i] = a[i]
      /\ \A i \in 1 .. 2 : Render(c)[n + i] = b[i]
      /\ \A i \in 1 .. 2 * w : Render(c)[n + 2 + i] = d[i]
  <2>. DEFINE t == (a \o b) \o d
  <2>1. /\ Len(t) = Len(a) + Len(b) + Len(d)
        /\ \A i \in 1 .. Len(a) : t[i] = a[i]
        /\ \A i \in 1 .. Len(b) : t[Len(a) + i] = b[i]
        /\ \A i \in 1 .. Len(d) : t[Len(a) + Len(b) + i] = d[i]
    <3>1. a \in Seq(S) /\ b \in Seq(S) /\ d \in Seq(S) BY <1>5, <1>6
    <3>. QED BY <3>1, ThreeLists
  <2>2. Render(c) = t BY <1>3, Zenon
  <2>. HIDE DEF t
  <2>. QED BY <1>5, <1>6, <2>1, <2>2
<1>9. ASSUME NEW j \in 1 .. w
      PROVE  /\ Render(c)[n + 1 + 2 * j] = PoolTemplate(c.workers[j])
             /\ Render(c)[n + 2 + 2 * j] = PoolGroup(c.workers[j])
  <2>1. n + 1 + 2 * j = n + 2 + (2 * j - 1) BY <1>2
  <2>. QED BY <1>4, <1>7, <1>8, <2>1
<1>10. Render(c)[n + 1] = ControlPlaneTemplate /\ Render(c)[n + 2] = ControlPlaneGroup(c)
  BY <1>7, <1>8
<1>11. \A i \in 1 .. n : Render(c)[i] = RenderHost(c.hosts[i]) BY <1>7, <1>8
<1>. QED BY <1>2, <1>8, <1>9, <1>10, <1>11 DEF n, w

\* Which of these an object is.
LEMMA RenderPlaces ==
    ASSUME NEW c \in ConfigTypes, NEW k \in 1 .. Len(Render(c))
    PROVE  \/ k \in 1 .. Len(c.hosts)
           \/ k = Len(c.hosts) + 1
           \/ k = Len(c.hosts) + 2
           \/ \E j \in 1 .. Len(c.workers) : k = Len(c.hosts) + 1 + 2 * j
           \/ \E j \in 1 .. Len(c.workers) : k = Len(c.hosts) + 2 + 2 * j
<1>. DEFINE n == Len(c.hosts)
            w == Len(c.workers)
<1>1. n \in Nat /\ w \in Nat /\ Len(Render(c)) = n + 2 + 2 * w BY RenderShape
<1>. HIDE DEF n, w
<1>2. CASE k > n + 2
  <2>. DEFINE j == (k - n - 1) \div 2
  <2>1. j \in 1 .. w /\ (k = n + 1 + 2 * j \/ k = n + 2 + 2 * j) BY <1>1, <1>2
  <2>. QED BY <2>1 DEF n, w
<1>3. k > n + 2 \/ k = n + 2 \/ k = n + 1 \/ k \in 1 .. n BY <1>1
<1>. QED BY <1>2, <1>3 DEF n, w

-----------------------------------------------------------------------------
(* The steps before the objects exist.                                     *)

\* What Validate says of the hosts, the control plane and the pools.
LEMMA ValidFacts ==
    ASSUME NEW c \in ConfigTypes, Validate(c)
    PROVE  /\ \A i, j \in DOMAIN c.hosts : c.hosts[i].name = c.hosts[j].name => i = j
           /\ \A i \in DOMAIN c.hosts :
                 c.hosts[i].name # <<>> /\ c.hosts[i].role \in {RoleControlPlane, RoleWorker}
           /\ c.replicas >= 1 /\ c.replicas <= Cardinality(HostsWithRole(c, RoleControlPlane))
           /\ \A i, j \in DOMAIN c.workers : c.workers[i].name = c.workers[j].name => i = j
           /\ \A j \in DOMAIN c.workers : c.workers[j].replicas >= 0
           /\ ~(Wrap(WantedMachines(c)) > Len(c.hosts))
<1>0. c.hosts \in Seq(HostConfigs) /\ c.workers \in Seq(WorkerPools) /\ c.replicas \in Int
  BY DEF ConfigTypes, Counts
<1>1. ~HostProblems(c) /\ ~ControlPlaneProblems(c) /\ ~WorkerProblems(c) /\ ~TooFewHosts(c)
  BY DEF Validate
<1>2. \A i, j \in DOMAIN c.hosts : c.hosts[i].name = c.hosts[j].name => i = j
  BY <1>1 DEF HostProblems, Repeated, Fields
<1>3. \A i \in DOMAIN c.hosts :
         c.hosts[i].name # <<>> /\ c.hosts[i].role \in {RoleControlPlane, RoleWorker}
  BY <1>1 DEF HostProblems, Range
<1>4. c.replicas >= 1 /\ c.replicas <= Cardinality(HostsWithRole(c, RoleControlPlane))
  <2>1. Cardinality(HostsWithRole(c, RoleControlPlane)) \in Int BY RoleCount, <1>0
  <2>2. ~(c.replicas < 1) /\ ~(c.replicas > Cardinality(HostsWithRole(c, RoleControlPlane)))
    BY <1>1 DEF ControlPlaneProblems
  <2>. QED BY <1>0, <2>1, <2>2
<1>5. \A i, j \in DOMAIN c.workers : c.workers[i].name = c.workers[j].name => i = j
  BY <1>1 DEF WorkerProblems, Repeated, Fields
<1>6. \A j \in DOMAIN c.workers : c.workers[j].replicas >= 0
  <2>1. \A j \in DOMAIN c.workers : c.workers[j].replicas \in Int
    <3>1. \A j \in DOMAIN c.workers : c.workers[j] \in WorkerPools BY <1>0
    <3>. QED BY <3>1 DEF WorkerPools, Counts
  <2>2. \A j \in DOMAIN c.workers : ~(c.workers[j].replicas < 0)
    BY <1>1 DEF WorkerProblems, Range
  <2>. QED BY <2>1, <2>2
<1>7. ~(Wrap(WantedMachines(c)) > Len(c.hosts))
  BY <1>1 DEF TooFewHosts
<1>. QED BY <1>2, <1>3, <1>4, <1>5, <1>6, <1>7

\* Before the objects exist there is nothing to say of them.
LEMMA NothingApplied ==
    ConfigInv /\ applied = 0 /\ pool = None /\ templates = None /\ groups = None /\ machines = <<>>
        => ObjectsInv /\ MachinesInv
<1>. SUFFICES ASSUME ConfigInv, applied = 0, pool = None, templates = None, groups = None, machines = <<>>
              PROVE  ObjectsInv /\ MachinesInv
  OBVIOUS
<1>1. DOMAIN pool = {} /\ DOMAIN templates = {} /\ DOMAIN groups = {} BY DEF None
<1>2. cfg \in ConfigTypes /\ Len(cfg.hosts) \in Nat /\ Len(cfg.workers) \in Nat
      /\ applied \in 0 .. Len(Render(cfg))
  BY RenderShape DEF ConfigInv
<1>3. DOMAIN cfg.hosts = 1 .. Len(cfg.hosts) /\ DOMAIN cfg.workers = 1 .. Len(cfg.workers)
  BY <1>2 DEF ConfigTypes
<1>4. DOMAIN machines = {} /\ machines \in Seq(MachineTypes) OBVIOUS
<1>5. PoolInv BY <1>1, <1>2, <1>3 DEF PoolInv
<1>6. TemplatesInv BY <1>1, <1>2, <1>3 DEF TemplatesInv
<1>7. GroupsInv BY <1>1 DEF GroupsInv
<1>8. MachinesInv BY <1>1, <1>4 DEF MachinesInv
<1>. QED BY <1>2, <1>5, <1>6, <1>7, <1>8 DEF ObjectsInv

\* The invariant holds in the initial states.
LEMMA InvInit == Init => Inv
<1>. SUFFICES ASSUME Init PROVE Inv OBVIOUS
<1>1. ConfigInv BY ConfigsAssumption DEF Init, ConfigInv, ConfigTypes
<1>. QED BY <1>1, NothingApplied DEF Init, Inv

\* Loading: the configuration gets its defaults, and is one Validate accepts or is refused.
LEMMA LoadStep == Inv /\ Load => Inv'
<1>. SUFFICES ASSUME Inv, Load PROVE Inv' OBVIOUS
<1>1. /\ cfg \in ConfigTypes /\ Len(cfg.hosts) <= MaxCount /\ cfg' = ApplyDefaults(cfg)
      /\ stage' = (IF Validate(cfg') THEN "accepted" ELSE "refused")
      /\ applied' = 0 /\ pool' = None /\ templates' = None /\ groups' = None /\ machines' = <<>>
  BY DEF Inv, ConfigInv, Load, objects
<1>2. cfg' \in ConfigTypes /\ Len(cfg'.hosts) <= MaxCount BY <1>1, DefaultsTyped
<1>3. ApplyDefaults(cfg') = cfg' BY <1>1, DefaultsTwice
<1>4. ConfigInv' BY <1>1, <1>2, <1>3 DEF ConfigInv
<1>5. (ConfigInv /\ applied = 0 /\ pool = None /\ templates = None /\ groups = None /\ machines = <<>>)'
         => (ObjectsInv /\ MachinesInv)'
  BY NothingApplied, PTL
<1>. QED BY <1>1, <1>4, <1>5 DEF Inv

-----------------------------------------------------------------------------
(* Applying the objects.                                                   *)

\* Writing what a table has already changes none of its entries.
LEMMA Rewrite ==
    ASSUME NEW f, NEW x, NEW v, x \in DOMAIN f => f[x] = v
    PROVE  DOMAIN f \subseteq DOMAIN Set(f, x, v) /\ \A y \in DOMAIN f : Set(f, x, v)[y] = f[y]
BY DEF Set

\* An accepted configuration, with the domains of its lists.
LEMMA Accepted ==
    ASSUME Inv, stage = "accepted"
    PROVE  /\ cfg \in ConfigTypes /\ Validate(cfg)
           /\ Len(cfg.hosts) \in Nat /\ DOMAIN cfg.hosts = 1 .. Len(cfg.hosts)
           /\ Len(cfg.workers) \in Nat /\ DOMAIN cfg.workers = 1 .. Len(cfg.workers)
           /\ Len(Render(cfg)) \in Nat /\ applied \in 0 .. Len(Render(cfg))
<1>1. cfg \in ConfigTypes /\ Validate(cfg) /\ applied \in 0 .. Len(Render(cfg))
  BY DEF Inv, ConfigInv, ObjectsInv
<1>2. cfg.hosts \in Seq(HostConfigs) /\ cfg.workers \in Seq(WorkerPools) BY <1>1 DEF ConfigTypes
<1>. QED BY <1>1, <1>2, LenProperties, RenderShape

\* The five things that applying the next object can be.
HostApplied(i) ==
    /\ applied + 1 = i
    /\ pool' = Set(pool, cfg.hosts[i].name, LabelsAt(i)) /\ UNCHANGED <<templates, groups>>
ControlPlaneTemplateApplied ==
    /\ applied + 1 = Len(cfg.hosts) + 1
    /\ templates' = Set(templates, ControlPlaneTemplateName, RoleIs(RoleControlPlane))
    /\ UNCHANGED <<pool, groups>>
ControlPlaneApplied ==
    /\ applied + 1 = Len(cfg.hosts) + 2
    /\ groups' = Set(groups, ControlPlaneName, ControlPlaneAsks) /\ UNCHANGED <<pool, templates>>
PoolTemplateApplied(j) ==
    /\ applied + 1 = Len(cfg.hosts) + 1 + 2 * j
    /\ templates' = Set(templates, WorkerTemplateName(cfg.workers[j]), cfg.workers[j].selector)
    /\ UNCHANGED <<pool, groups>>
WorkerPoolApplied(j) ==
    /\ applied + 1 = Len(cfg.hosts) + 2 + 2 * j
    /\ groups' = Set(groups, WorkerPoolName(cfg.workers[j]), PoolAsks(j)) /\ UNCHANGED <<pool, templates>>

\* One of them happens.
LEMMA ApplyEffect ==
    ASSUME Inv, Apply
    PROVE  \/ \E i \in DOMAIN cfg.hosts : HostApplied(i)
           \/ ControlPlaneTemplateApplied
           \/ ControlPlaneApplied
           \/ \E j \in DOMAIN cfg.workers : PoolTemplateApplied(j)
           \/ \E j \in DOMAIN cfg.workers : WorkerPoolApplied(j)
<1>. DEFINE k == applied + 1
            o == Render(cfg)[k]
<1>0. /\ stage = "accepted" /\ applied < Len(Render(cfg))
      /\ pool' = (IF o.kind = "Host" THEN Set(pool, o.name, o.labels) ELSE pool)
      /\ templates' = (IF o.kind = "HostMachineTemplate" THEN Set(templates, o.name, o.selector)
                                                         ELSE templates)
      /\ groups' = (IF o.kind = "Group"
                    THEN Set(groups, o.name, [template |-> o.template, replicas |-> o.replicas])
                    ELSE groups)
  BY DEF Apply
<1>1. /\ cfg \in ConfigTypes /\ k \in 1 .. Len(Render(cfg))
      /\ DOMAIN cfg.hosts = 1 .. Len(cfg.hosts) /\ DOMAIN cfg.workers = 1 .. Len(cfg.workers)
  BY <1>0, Accepted
<1>2. CASE k \in 1 .. Len(cfg.hosts)
  <2>1. o = RenderHost(cfg.hosts[k]) BY <1>1, <1>2, RenderShape
  <2>2. o.kind = "Host" /\ o.name = cfg.hosts[k].name /\ o.labels = LabelsAt(k)
    BY <2>1 DEF RenderHost, LabelsAt
  <2>. QED BY <1>0, <1>1, <1>2, <2>2 DEF HostApplied
<1>3. CASE k = Len(cfg.hosts) + 1
  <2>1. o = ControlPlaneTemplate BY <1>1, <1>3, RenderShape
  <2>2. /\ o.kind = "HostMachineTemplate" /\ o.name = ControlPlaneTemplateName
        /\ o.selector = RoleIs(RoleControlPlane)
    BY <2>1 DEF ControlPlaneTemplate, Template
  <2>. QED BY <1>0, <1>3, <2>2 DEF ControlPlaneTemplateApplied
<1>4. CASE k = Len(cfg.hosts) + 2
  <2>1. o = ControlPlaneGroup(cfg) BY <1>1, <1>4, RenderShape
  <2>2. /\ o.kind = "Group" /\ o.name = ControlPlaneName
        /\ [template |-> o.template, replicas |-> o.replicas] = ControlPlaneAsks
    BY <2>1 DEF ControlPlaneGroup, Group, ControlPlaneAsks
  <2>. QED BY <1>0, <1>4, <2>2 DEF ControlPlaneApplied
<1>5. ASSUME NEW j \in 1 .. Len(cfg.workers), k = Len(cfg.hosts) + 1 + 2 * j
      PROVE  PoolTemplateApplied(j)
  <2>1. o = PoolTemplate(cfg.workers[j]) BY <1>1, <1>5, RenderShape
  <2>2. /\ o.kind = "HostMachineTemplate" /\ o.name = WorkerTemplateName(cfg.workers[j])
        /\ o.selector = cfg.workers[j].selector
    BY <2>1 DEF PoolTemplate, Template
  <2>. QED BY <1>0, <1>5, <2>2 DEF PoolTemplateApplied
<1>6. ASSUME NEW j \in 1 .. Len(cfg.workers), k = Len(cfg.hosts) + 2 + 2 * j
      PROVE  WorkerPoolApplied(j)
  <2>1. o = PoolGroup(cfg.workers[j]) BY <1>1, <1>6, RenderShape
  <2>2. /\ o.kind = "Group" /\ o.name = WorkerPoolName(cfg.workers[j])
        /\ [template |-> o.template, replicas |-> o.replicas] = PoolAsks(j)
    BY <2>1 DEF PoolGroup, Group, PoolAsks
  <2>. QED BY <1>0, <1>6, <2>2 DEF WorkerPoolApplied
<1>. HIDE DEF k, o
<1>7. \/ k \in 1 .. Len(cfg.hosts) \/ k = Len(cfg.hosts) + 1 \/ k = Len(cfg.hosts) + 2
      \/ \E j \in 1 .. Len(cfg.workers) : k = Len(cfg.hosts) + 1 + 2 * j
      \/ \E j \in 1 .. Len(cfg.workers) : k = Len(cfg.hosts) + 2 + 2 * j
  BY <1>1, RenderPlaces
<1>. QED BY <1>1, <1>2, <1>3, <1>4, <1>5, <1>6, <1>7

\* A Host or a group that exists is applied again with what it has.
LEMMA ApplyExtends ==
    ASSUME Inv, Apply
    PROVE  /\ DOMAIN pool \subseteq DOMAIN pool' /\ \A h \in DOMAIN pool : pool'[h] = pool[h]
           /\ DOMAIN templates \subseteq DOMAIN templates'
           /\ DOMAIN groups \subseteq DOMAIN groups' /\ \A g \in DOMAIN groups : groups'[g] = groups[g]
<1>0. stage = "accepted" BY DEF Apply
<1>1. cfg \in ConfigTypes /\ Validate(cfg) BY <1>0, Accepted
<1>2. ASSUME NEW i \in DOMAIN cfg.hosts, HostApplied(i)
      PROVE  DOMAIN pool \subseteq DOMAIN pool' /\ \A h \in DOMAIN pool : pool'[h] = pool[h]
  <2>1. ASSUME cfg.hosts[i].name \in DOMAIN pool
        PROVE  pool[cfg.hosts[i].name] = LabelsAt(i)
    <3>1. PICK k \in DOMAIN cfg.hosts :
             cfg.hosts[i].name = cfg.hosts[k].name /\ pool[cfg.hosts[i].name] = LabelsAt(k)
      BY <2>1 DEF Inv, ObjectsInv, PoolInv
    <3>2. i = k BY <1>1, <3>1, ValidFacts
    <3>. QED BY <3>1, <3>2
  <2>2. pool' = Set(pool, cfg.hosts[i].name, LabelsAt(i)) BY <1>2 DEF HostApplied
  <2>. QED BY <2>1, <2>2, Rewrite
<1>3. ASSUME ControlPlaneApplied
      PROVE  DOMAIN groups \subseteq DOMAIN groups' /\ \A g \in DOMAIN groups : groups'[g] = groups[g]
  <2>1. ASSUME ControlPlaneName \in DOMAIN groups PROVE groups[ControlPlaneName] = ControlPlaneAsks
    <3>1. \A j : ControlPlaneName # WorkerPoolName(cfg.workers[j])
      BY DEF ControlPlaneName, WorkerPoolName
    <3>. QED BY <2>1, <3>1 DEF Inv, ObjectsInv, GroupsInv
  <2>2. groups' = Set(groups, ControlPlaneName, ControlPlaneAsks) BY <1>3 DEF ControlPlaneApplied
  <2>. QED BY <2>1, <2>2, Rewrite
<1>4. ASSUME NEW j \in DOMAIN cfg.workers, WorkerPoolApplied(j)
      PROVE  DOMAIN groups \subseteq DOMAIN groups' /\ \A g \in DOMAIN groups : groups'[g] = groups[g]
  <2>. DEFINE name == WorkerPoolName(cfg.workers[j])
  <2>1. ASSUME name \in DOMAIN groups PROVE groups[name] = PoolAsks(j)
    <3>1. ControlPlaneName # name BY DEF ControlPlaneName, WorkerPoolName
    <3>2. PICK k \in DOMAIN cfg.workers :
             name = WorkerPoolName(cfg.workers[k]) /\ groups[name] = PoolAsks(k)
      BY <2>1, <3>1 DEF Inv, ObjectsInv, GroupsInv
    <3>3. cfg.workers[j].name = cfg.workers[k].name BY <3>2 DEF WorkerPoolName
    <3>4. j = k BY <1>1, <3>3, ValidFacts
    <3>. QED BY <3>2, <3>4
  <2>2. groups' = Set(groups, name, PoolAsks(j)) BY <1>4 DEF WorkerPoolApplied
  <2>. HIDE DEF name
  <2>. QED BY <2>1, <2>2, Rewrite
<1>5. \/ pool' = pool \/ \E i \in DOMAIN cfg.hosts : HostApplied(i)
  BY ApplyEffect DEF ControlPlaneTemplateApplied, ControlPlaneApplied, PoolTemplateApplied, WorkerPoolApplied
<1>6. \/ groups' = groups \/ ControlPlaneApplied \/ \E j \in DOMAIN cfg.workers : WorkerPoolApplied(j)
  BY ApplyEffect DEF HostApplied, ControlPlaneTemplateApplied, PoolTemplateApplied
<1>7. DOMAIN templates \subseteq DOMAIN templates'
  <2>1. templates' = templates \/ \E x, v : templates' = Set(templates, x, v)
    BY ApplyEffect DEF HostApplied, ControlPlaneTemplateApplied, ControlPlaneApplied,
       PoolTemplateApplied, WorkerPoolApplied
  <2>2. ASSUME NEW x, NEW v, templates' = Set(templates, x, v)
        PROVE  DOMAIN templates \subseteq DOMAIN templates'
    BY <2>2 DEF Set
  <2>. QED BY <2>1, <2>2
<1>. QED BY <1>2, <1>3, <1>4, <1>5, <1>6, <1>7

\* The Hosts stay those of the configuration, and come before the groups.
LEMMA ApplyPool == Inv /\ Apply => PoolInv'
<1>. SUFFICES ASSUME Inv, Apply PROVE PoolInv' OBVIOUS
<1>0. stage = "accepted" /\ cfg' = cfg /\ applied' = applied + 1 BY DEF Apply
<1>1. /\ Len(cfg.hosts) \in Nat /\ DOMAIN cfg.hosts = 1 .. Len(cfg.hosts) /\ applied \in Nat
      /\ DOMAIN cfg.workers = 1 .. Len(cfg.workers)
  BY <1>0, Accepted
<1>2. PoolInv BY DEF Inv, ObjectsInv
<1>3. DOMAIN pool \subseteq DOMAIN pool' /\ \A h \in DOMAIN pool : pool'[h] = pool[h]
  BY ApplyExtends
<1>4. \A i : LabelsAt(i)' = LabelsAt(i) BY <1>0 DEF LabelsAt
<1>5. CASE \E i \in DOMAIN cfg.hosts : HostApplied(i)
  <2>1. PICK i \in DOMAIN cfg.hosts : HostApplied(i) BY <1>5
  <2>2. /\ DOMAIN pool' = DOMAIN pool \cup {cfg.hosts[i].name} /\ pool'[cfg.hosts[i].name] = LabelsAt(i)
        /\ groups' = groups /\ applied + 1 = i
    <3>1. pool' = Set(pool, cfg.hosts[i].name, LabelsAt(i)) /\ groups' = groups /\ applied + 1 = i
      BY <2>1 DEF HostApplied
    <3>. QED BY <3>1 DEF Set
  <2>3. \A h \in DOMAIN pool' :
           \E k \in DOMAIN cfg.hosts : h = cfg.hosts[k].name /\ pool'[h] = LabelsAt(k)
    BY <1>2, <1>3, <2>2 DEF PoolInv
  <2>4. ASSUME NEW k \in DOMAIN cfg.hosts, k <= applied + 1 \/ DOMAIN groups # {}
        PROVE  cfg.hosts[k].name \in DOMAIN pool'
    <3>1. k = i \/ k <= applied \/ DOMAIN groups # {} BY <1>1, <2>2, <2>4
    <3>. QED BY <1>2, <2>2, <3>1 DEF PoolInv
  <2>. QED BY <1>0, <1>4, <2>2, <2>3, <2>4 DEF PoolInv
<1>6. CASE pool' = pool /\ applied >= Len(cfg.hosts)
  <2>1. \A k \in DOMAIN cfg.hosts : cfg.hosts[k].name \in DOMAIN pool' BY <1>1, <1>2, <1>6 DEF PoolInv
  <2>. QED BY <1>0, <1>2, <1>4, <1>6, <2>1 DEF PoolInv
<1>7. \/ \E i \in DOMAIN cfg.hosts : HostApplied(i)
      \/ pool' = pool /\ applied >= Len(cfg.hosts)
  BY <1>1, ApplyEffect DEF ControlPlaneTemplateApplied, ControlPlaneApplied, PoolTemplateApplied,
     WorkerPoolApplied
<1>. QED BY <1>5, <1>6, <1>7

\* So do the templates, and every one comes before its group.
LEMMA ApplyTemplates == Inv /\ Apply => TemplatesInv'
<1>. SUFFICES ASSUME Inv, Apply PROVE TemplatesInv' OBVIOUS
<1>0. stage = "accepted" /\ cfg' = cfg /\ applied' = applied + 1 BY DEF Apply
<1>. DEFINE n == Len(cfg.hosts)
            w == Len(cfg.workers)
<1>1. n \in Nat /\ DOMAIN cfg.hosts = 1 .. n /\ applied \in Nat /\ DOMAIN cfg.workers = 1 .. w /\ w \in Nat
  BY <1>0, Accepted
<1>. HIDE DEF n, w
<1>2. TemplatesInv BY DEF Inv, ObjectsInv
<1>. DEFINE Good(f, t) == \/ t = ControlPlaneTemplateName /\ f[t] = RoleIs(RoleControlPlane)
                          \/ \E j \in DOMAIN cfg.workers :
                                t = WorkerTemplateName(cfg.workers[j]) /\ f[t] = cfg.workers[j].selector
<1>3. \A t \in DOMAIN templates : Good(templates, t) BY <1>2 DEF TemplatesInv
<1>4. SUFFICES /\ \A t \in DOMAIN templates' : Good(templates', t)
               /\ applied + 1 > Len(cfg.hosts) => ControlPlaneTemplateName \in DOMAIN templates'
               /\ \A j \in DOMAIN cfg.workers : applied + 1 > Len(cfg.hosts) + 2 * j =>
                     WorkerTemplateName(cfg.workers[j]) \in DOMAIN templates'
  BY <1>0 DEF TemplatesInv
<1>5. CASE templates' = templates /\ \A j \in 0 .. w : applied # n + 2 * j
  <2>1. applied + 1 > n => applied > n BY <1>1, <1>5
  <2>2. \A j \in 1 .. w : applied + 1 > n + 2 * j => applied > n + 2 * j BY <1>1, <1>5
  <2>. QED BY <1>1, <1>2, <1>3, <1>5, <2>1, <2>2 DEF TemplatesInv, n
<1>6. CASE ControlPlaneTemplateApplied
  <2>1. /\ DOMAIN templates' = DOMAIN templates \cup {ControlPlaneTemplateName}
        /\ templates'[ControlPlaneTemplateName] = RoleIs(RoleControlPlane)
        /\ \A t \in DOMAIN templates : t # ControlPlaneTemplateName => templates'[t] = templates[t]
    <3>1. templates' = Set(templates, ControlPlaneTemplateName, RoleIs(RoleControlPlane))
      BY <1>6 DEF ControlPlaneTemplateApplied
    <3>. QED BY <3>1 DEF Set
  <2>1a. applied = n BY <1>1, <1>6 DEF ControlPlaneTemplateApplied, n
  <2>2. \A t \in DOMAIN templates' : Good(templates', t) BY <1>3, <2>1
  <2>3. \A j \in 1 .. w : ~(applied + 1 > n + 2 * j) BY <1>1, <2>1a
  <2>. QED BY <1>1, <2>1, <2>2, <2>3 DEF n
<1>7. ASSUME NEW j \in DOMAIN cfg.workers, PoolTemplateApplied(j)
      PROVE  /\ \A t \in DOMAIN templates' : Good(templates', t)
             /\ applied + 1 > Len(cfg.hosts) => ControlPlaneTemplateName \in DOMAIN templates'
             /\ \A k \in DOMAIN cfg.workers : applied + 1 > Len(cfg.hosts) + 2 * k =>
                   WorkerTemplateName(cfg.workers[k]) \in DOMAIN templates'
  <2>. DEFINE name == WorkerTemplateName(cfg.workers[j])
  <2>1. /\ DOMAIN templates' = DOMAIN templates \cup {name}
        /\ templates'[name] = cfg.workers[j].selector
        /\ \A t \in DOMAIN templates : t # name => templates'[t] = templates[t]
    <3>1. templates' = Set(templates, name, cfg.workers[j].selector) BY <1>7 DEF PoolTemplateApplied
    <3>. HIDE DEF name
    <3>. QED BY <3>1 DEF Set
  <2>1a. applied = n + 2 * j
    <3>1. applied + 1 = n + 1 + 2 * j /\ j \in 1 .. w BY <1>1, <1>7 DEF PoolTemplateApplied, n
    <3>. QED BY <1>1, <3>1
  <2>2. \A t \in DOMAIN templates' : Good(templates', t) BY <1>3, <2>1
  <2>3. \A k \in 1 .. w : applied + 1 > n + 2 * k => k = j \/ applied > n + 2 * k
    BY <1>1, <2>1a
  <2>4. applied > n BY <1>1, <2>1a
  <2>. QED BY <1>1, <1>2, <2>1, <2>2, <2>3, <2>4 DEF TemplatesInv, n
<1>8. \/ templates' = templates /\ \A j \in 0 .. w : applied # n + 2 * j
      \/ ControlPlaneTemplateApplied
      \/ \E j \in DOMAIN cfg.workers : PoolTemplateApplied(j)
  <2>1. ASSUME NEW i \in DOMAIN cfg.hosts, HostApplied(i)
        PROVE  templates' = templates /\ \A j \in 0 .. w : applied # n + 2 * j
    <3>1. applied + 1 = i /\ i \in 1 .. n /\ templates' = templates BY <1>1, <2>1 DEF HostApplied, n
    <3>. QED BY <1>1, <3>1
  <2>2. ASSUME ControlPlaneApplied
        PROVE  templates' = templates /\ \A j \in 0 .. w : applied # n + 2 * j
    <3>1. applied + 1 = n + 2 /\ templates' = templates BY <1>1, <2>2 DEF ControlPlaneApplied, n
    <3>. QED BY <1>1, <3>1
  <2>3. ASSUME NEW i \in DOMAIN cfg.workers, WorkerPoolApplied(i)
        PROVE  templates' = templates /\ \A j \in 0 .. w : applied # n + 2 * j
    <3>1. applied + 1 = n + 2 + 2 * i /\ i \in 1 .. w /\ templates' = templates BY <1>1, <2>3 DEF WorkerPoolApplied, n
    <3>. QED BY <1>1, <3>1
  <2>. QED BY <2>1, <2>2, <2>3, ApplyEffect
<1>. HIDE DEF Good
<1>. QED BY <1>5, <1>6, <1>7, <1>8

\* So do the groups.
LEMMA ApplyGroups == Inv /\ Apply => GroupsInv'
<1>. SUFFICES ASSUME Inv, Apply PROVE GroupsInv' OBVIOUS
<1>0. stage = "accepted" /\ cfg' = cfg BY DEF Apply
<1>1. /\ Len(cfg.hosts) \in Nat /\ applied \in Nat /\ DOMAIN cfg.workers = 1 .. Len(cfg.workers)
      /\ Len(cfg.workers) \in Nat
  BY <1>0, Accepted
<1>2. GroupsInv /\ TemplatesInv BY DEF Inv, ObjectsInv
<1>3. /\ DOMAIN templates \subseteq DOMAIN templates'
      /\ \A g \in DOMAIN groups : groups'[g] = groups[g]
  BY ApplyExtends
<1>4. ControlPlaneAsks' = ControlPlaneAsks /\ \A j : PoolAsks(j)' = PoolAsks(j)
  BY <1>0 DEF ControlPlaneAsks, PoolAsks
<1>5. ASSUME NEW g \in DOMAIN groups'
      PROVE  /\ groups'[g].template \in DOMAIN templates'
             /\ \/ g = ControlPlaneName /\ groups'[g] = ControlPlaneAsks
                \/ \E j \in DOMAIN cfg.workers :
                      g = WorkerPoolName(cfg.workers[j]) /\ groups'[g] = PoolAsks(j)
  <2>1. CASE g \in DOMAIN groups BY <1>2, <1>3, <2>1 DEF GroupsInv
  <2>2. CASE g \notin DOMAIN groups /\ ControlPlaneApplied
    <3>1. g = ControlPlaneName /\ groups'[g] = ControlPlaneAsks /\ applied > Len(cfg.hosts)
      <4>1. groups' = Set(groups, ControlPlaneName, ControlPlaneAsks) BY <2>2 DEF ControlPlaneApplied
      <4>2. g = ControlPlaneName /\ groups'[g] = ControlPlaneAsks BY <2>2, <4>1 DEF Set
      <4>3. applied > Len(cfg.hosts) BY <1>1, <2>2 DEF ControlPlaneApplied
      <4>. QED BY <4>2, <4>3
    <3>2. groups'[g].template = ControlPlaneTemplateName BY <3>1 DEF ControlPlaneAsks
    <3>. QED BY <1>2, <1>3, <3>1, <3>2 DEF TemplatesInv
  <2>3. ASSUME NEW j \in DOMAIN cfg.workers, g \notin DOMAIN groups, WorkerPoolApplied(j)
        PROVE  /\ groups'[g].template \in DOMAIN templates'
               /\ g = WorkerPoolName(cfg.workers[j]) /\ groups'[g] = PoolAsks(j)
    <3>1. /\ g = WorkerPoolName(cfg.workers[j]) /\ groups'[g] = PoolAsks(j)
          /\ applied > Len(cfg.hosts) + 2 * j
      <4>1. groups' = Set(groups, WorkerPoolName(cfg.workers[j]), PoolAsks(j)) BY <2>3 DEF WorkerPoolApplied
      <4>2. g = WorkerPoolName(cfg.workers[j]) /\ groups'[g] = PoolAsks(j) BY <2>3, <4>1 DEF Set
      <4>3. applied > Len(cfg.hosts) + 2 * j BY <1>1, <2>3 DEF WorkerPoolApplied
      <4>. QED BY <4>2, <4>3
    <3>2. groups'[g].template = WorkerTemplateName(cfg.workers[j]) BY <3>1 DEF PoolAsks
    <3>. QED BY <1>2, <1>3, <3>1, <3>2 DEF TemplatesInv
  <2>4. groups' = groups \/ ControlPlaneApplied \/ \E j \in DOMAIN cfg.workers : WorkerPoolApplied(j)
    BY ApplyEffect DEF HostApplied, ControlPlaneTemplateApplied, PoolTemplateApplied
  <2>. QED BY <2>1, <2>2, <2>3, <2>4
<1>. QED BY <1>0, <1>4, <1>5 DEF GroupsInv

\* The machines a group has are finitely many.
LEMMA MadeForFinite ==
    ASSUME NEW g, machines \in Seq(MachineTypes)
    PROVE  /\ IsFiniteSet(MadeFor(g)) /\ Cardinality(MadeFor(g)) \in Nat
           /\ DOMAIN machines = 1 .. Len(machines) /\ Len(machines) \in Nat
<1>1. DOMAIN machines = 1 .. Len(machines) /\ Len(machines) \in Nat BY LenProperties
<1>2. IsFiniteSet(1 .. Len(machines)) BY <1>1, FS_Interval
<1>3. MadeFor(g) \subseteq 1 .. Len(machines) BY <1>1 DEF MadeFor
<1>. QED BY <1>1, <1>2, <1>3, FS_Subset, FS_CardinalityType

CountsInv == \A g \in DOMAIN groups : groups[g].replicas \in Nat

\* A group asks for no negative number of machines.
LEMMA GroupCounts == ConfigInv /\ stage = "accepted" /\ GroupsInv => CountsInv
<1>. SUFFICES ASSUME ConfigInv, stage = "accepted", GroupsInv, NEW g \in DOMAIN groups
              PROVE  groups[g].replicas \in Nat
  BY DEF CountsInv
<1>1. cfg \in ConfigTypes /\ Validate(cfg) BY DEF ConfigInv
<1>2. cfg.replicas \in Int /\ cfg.replicas >= 1 BY <1>1, ValidFacts DEF ConfigTypes, Counts
<1>3. \A j \in DOMAIN cfg.workers : cfg.workers[j].replicas \in Int /\ cfg.workers[j].replicas >= 0
  <2>1. \A j \in DOMAIN cfg.workers : cfg.workers[j] \in WorkerPools BY <1>1 DEF ConfigTypes
  <2>2. \A j \in DOMAIN cfg.workers : cfg.workers[j].replicas \in Int BY <2>1 DEF WorkerPools, Counts
  <2>. QED BY <1>1, <2>2, ValidFacts
<1>4. CASE groups[g] = ControlPlaneAsks
  <2>1. groups[g].replicas = cfg.replicas BY <1>4 DEF ControlPlaneAsks
  <2>. QED BY <1>2, <2>1
<1>5. ASSUME NEW j \in DOMAIN cfg.workers, groups[g] = PoolAsks(j) PROVE groups[g].replicas \in Nat
  <2>1. groups[g].replicas = cfg.workers[j].replicas BY <1>5 DEF PoolAsks
  <2>. QED BY <1>3, <2>1
<1>. QED BY <1>4, <1>5 DEF GroupsInv

\* Applying an object keeps the machines as they are and what they refer to in place.
LEMMA ApplyStep == Inv /\ Apply => Inv'
<1>. SUFFICES ASSUME Inv, Apply PROVE Inv' OBVIOUS
<1>0. /\ stage = "accepted" /\ stage' = stage /\ cfg' = cfg /\ machines' = machines
      /\ applied' = applied + 1 /\ applied < Len(Render(cfg))
  BY DEF Apply
<1>1. ConfigInv' BY <1>0 DEF Inv, ConfigInv
<1>2. applied' \in 0 .. Len(Render(cfg)) BY <1>0, Accepted
<1>3. PoolInv' /\ TemplatesInv' /\ GroupsInv' BY ApplyPool, ApplyTemplates, ApplyGroups
<1>4. ObjectsInv' BY <1>0, <1>2, <1>3 DEF ObjectsInv
<1>5. /\ DOMAIN pool \subseteq DOMAIN pool' /\ \A h \in DOMAIN pool : pool'[h] = pool[h]
      /\ DOMAIN groups \subseteq DOMAIN groups' /\ \A g \in DOMAIN groups : groups'[g] = groups[g]
  BY ApplyExtends
<1>6. MachinesInv BY DEF Inv
<1>7. ASSUME NEW i \in DOMAIN machines
      PROVE  /\ machines[i].group \in DOMAIN groups'
             /\ machines[i].host # <<>> =>
                   machines[i].host \in DOMAIN pool' /\ machines[i].selector \subseteq pool'[machines[i].host]
             /\ PlacedByRole => SelectorOf(machines[i])
  BY <1>5, <1>6 DEF MachinesInv
<1>8. PlacedByRole' = PlacedByRole BY <1>0 DEF PlacedByRole
<1>9. \A i : SelectorOf(machines[i])' = SelectorOf(machines[i]) BY <1>0 DEF SelectorOf
<1>10. \A g : MadeFor(g)' = MadeFor(g) BY <1>0 DEF MadeFor
<1>11. ASSUME NEW g \in DOMAIN groups' PROVE Cardinality(MadeFor(g)) <= groups'[g].replicas
  <2>1. CASE g \in DOMAIN groups BY <1>5, <1>6, <2>1 DEF MachinesInv
  <2>2. CASE g \notin DOMAIN groups
    <3>1. MadeFor(g) = {} BY <1>6, <2>2 DEF MachinesInv, MadeFor
    <3>2. ConfigInv' /\ stage' = "accepted" /\ GroupsInv' BY <1>0, <1>1, <1>3
    <3>3. (ConfigInv /\ stage = "accepted" /\ GroupsInv)' => CountsInv'
      BY GroupCounts, PTL
    <3>4. groups'[g].replicas \in Nat BY <3>2, <3>3 DEF CountsInv
    <3>. QED BY <3>1, <3>4, FS_EmptySet
  <2>. QED BY <2>1, <2>2
<1>12. MachinesInv' BY <1>0, <1>6, <1>7, <1>8, <1>9, <1>10, <1>11 DEF MachinesInv
<1>. QED BY <1>1, <1>4, <1>12 DEF Inv

\* Starting create again.
LEMMA RecreateStep == Inv /\ Recreate => Inv'
<1>. SUFFICES ASSUME Inv, Recreate PROVE Inv' OBVIOUS
<1>0. /\ stage = "accepted" /\ applied' = 0
      /\ UNCHANGED <<cfg, stage, pool, templates, groups, machines>>
  BY DEF Recreate, objects
<1>1. /\ Len(cfg.hosts) \in Nat /\ DOMAIN cfg.hosts = 1 .. Len(cfg.hosts)
      /\ DOMAIN cfg.workers = 1 .. Len(cfg.workers) /\ Len(cfg.workers) \in Nat /\ Len(Render(cfg)) \in Nat
  BY <1>0, Accepted
<1>2. ConfigInv' BY <1>0 DEF Inv, ConfigInv
<1>3. \A i : LabelsAt(i)' = LabelsAt(i) BY <1>0 DEF LabelsAt
<1>4. PoolInv' BY <1>0, <1>1, <1>3 DEF Inv, ObjectsInv, PoolInv
<1>5. TemplatesInv'
  <2>. DEFINE n == Len(cfg.hosts)
              w == Len(cfg.workers)
  <2>1. n \in Nat /\ w \in Nat BY <1>1
  <2>. HIDE DEF n, w
  <2>2. ~(0 > n) /\ \A j \in 1 .. w : ~(0 > n + 2 * j) BY <2>1
  <2>. QED BY <1>0, <1>1, <2>2 DEF Inv, ObjectsInv, TemplatesInv, n, w
<1>6. GroupsInv' BY <1>0 DEF Inv, ObjectsInv, GroupsInv, ControlPlaneAsks, PoolAsks
<1>7. ObjectsInv' BY <1>0, <1>1, <1>4, <1>5, <1>6 DEF ObjectsInv
<1>8. MachinesInv' BY <1>0 DEF Inv, MachinesInv, PlacedByRole, SelectorOf, MadeFor
<1>. QED BY <1>2, <1>7, <1>8 DEF Inv

-----------------------------------------------------------------------------
(* The machines.                                                           *)

\* Machines are only made once a configuration was accepted.
LEMMA GroupsMeanAccepted ==
    ASSUME Inv, NEW g \in DOMAIN groups
    PROVE  stage = "accepted"
<1>1. DOMAIN None = {} BY DEF None
<1>. QED BY <1>1 DEF Inv, ConfigInv

\* The selector a group's template has now is that of the group, where no template was replaced.
LEMMA TemplateSelector ==
    ASSUME Inv, NEW g \in DOMAIN groups
    PROVE  LET m == [group |-> g, selector |-> templates[groups[g].template], host |-> <<>>]
           IN  m \in MachineTypes /\ (PlacedByRole => SelectorOf(m))
<1>. DEFINE t == groups[g].template
            m == [group |-> g, selector |-> templates[t], host |-> <<>>]
<1>0. stage = "accepted" BY GroupsMeanAccepted
<1>1. cfg \in ConfigTypes /\ GroupsInv /\ TemplatesInv BY <1>0, Accepted DEF Inv, ObjectsInv
<1>2. \A j \in DOMAIN cfg.workers : cfg.workers[j] \in WorkerPools BY <1>1 DEF ConfigTypes
<1>3. t \in DOMAIN templates BY <1>1 DEF GroupsInv
<1>4. \/ t = ControlPlaneTemplateName /\ templates[t] = RoleIs(RoleControlPlane)
      \/ \E j \in DOMAIN cfg.workers :
            t = WorkerTemplateName(cfg.workers[j]) /\ templates[t] = cfg.workers[j].selector
  BY <1>1, <1>3 DEF TemplatesInv
<1>5. \/ g = ControlPlaneName /\ t = ControlPlaneTemplateName
      \/ \E j \in DOMAIN cfg.workers :
            g = WorkerPoolName(cfg.workers[j]) /\ t = WorkerTemplateName(cfg.workers[j])
  BY <1>1 DEF GroupsInv, ControlPlaneAsks, PoolAsks
<1>6. \A j : ControlPlaneName # WorkerPoolName(cfg.workers[j]) BY DEF ControlPlaneName, WorkerPoolName
<1>. HIDE DEF t
<1>7. templates[t] \in Labels
  <2>1. RoleIs(RoleControlPlane) \in Labels BY RoleTyped DEF RoleControlPlane, Text
  <2>2. \A j \in DOMAIN cfg.workers : cfg.workers[j].selector \in Labels BY <1>2 DEF WorkerPools
  <2>. QED BY <1>4, <2>1, <2>2
<1>8. g \in GroupNames
  <2>1. ControlPlaneName \in GroupNames BY DEF ControlPlaneName, GroupNames, Text
  <2>2. \A j \in DOMAIN cfg.workers : cfg.workers[j].name \in Text BY <1>2 DEF WorkerPools
  <2>3. \A j \in DOMAIN cfg.workers : WorkerPoolName(cfg.workers[j]) \in GroupNames
    BY <2>2 DEF WorkerPoolName, GroupNames
  <2>. QED BY <1>5, <2>1, <2>3
<1>9. <<>> \in Names BY DEF Names
<1>10. m \in MachineTypes BY <1>7, <1>8, <1>9 DEF MachineTypes
<1>11. m.group = g /\ m.selector = templates[t] OBVIOUS
<1>. HIDE DEF m
<1>12. ASSUME PlacedByRole PROVE SelectorOf(m)
  <2>1. \A j \in DOMAIN cfg.workers : WorkerTemplateName(cfg.workers[j]) # ControlPlaneTemplateName
    BY <1>12 DEF PlacedByRole, Range
  <2>2. CASE g = ControlPlaneName
    <3>1. t = ControlPlaneTemplateName BY <1>5, <1>6, <2>2
    <3>2. templates[t] = RoleIs(RoleControlPlane) BY <1>4, <2>1, <3>1
    <3>. QED BY <1>11, <2>2, <3>2 DEF SelectorOf
  <2>3. CASE g # ControlPlaneName
    <3>1. PICK j \in DOMAIN cfg.workers :
             g = WorkerPoolName(cfg.workers[j]) /\ t = WorkerTemplateName(cfg.workers[j])
      BY <1>5, <2>3
    <3>2. PICK k \in DOMAIN cfg.workers :
             t = WorkerTemplateName(cfg.workers[k]) /\ templates[t] = cfg.workers[k].selector
      BY <1>4, <2>1, <3>1
    <3>3. g = WorkerPoolName(cfg.workers[k]) BY <3>1, <3>2 DEF WorkerPoolName, WorkerTemplateName
    <3>. QED BY <1>11, <2>3, <3>2, <3>3 DEF SelectorOf
  <2>. QED BY <2>2, <2>3
<1>. QED BY <1>10, <1>12 DEF m, t

\* A new machine belongs to a group that had not all of its machines.
LEMMA MakeStep == Inv /\ MakeMachine => Inv'
<1>. SUFFICES ASSUME Inv, MakeMachine PROVE Inv' OBVIOUS
<1>. DEFINE New(g) == [group |-> g, selector |-> templates[groups[g].template], host |-> <<>>]
<1>1. PICK g \in DOMAIN groups :
         Cardinality(MadeFor(g)) < groups[g].replicas /\ machines' = Append(machines, New(g))
  BY DEF MakeMachine
<1>2. UNCHANGED <<cfg, stage, applied, pool, templates, groups>> BY DEF MakeMachine, objects
<1>3. stage = "accepted" BY GroupsMeanAccepted
<1>4. ConfigInv' BY <1>2, <1>3 DEF Inv, ConfigInv
<1>5. ObjectsInv'
  <2>1. PoolInv' BY <1>2 DEF Inv, ObjectsInv, PoolInv, LabelsAt
  <2>2. TemplatesInv' BY <1>2 DEF Inv, ObjectsInv, TemplatesInv
  <2>3. GroupsInv' BY <1>2 DEF Inv, ObjectsInv, GroupsInv, ControlPlaneAsks, PoolAsks
  <2>. QED BY <1>2, <2>1, <2>2, <2>3 DEF Inv, ObjectsInv
<1>. DEFINE m == New(g)
            n == Len(machines)
<1>6. m \in MachineTypes /\ (PlacedByRole => SelectorOf(m)) BY TemplateSelector
<1>7. m.group = g /\ m.host = <<>> OBVIOUS
<1>8. MachinesInv /\ machines \in Seq(MachineTypes) BY DEF Inv, MachinesInv
<1>9. n \in Nat /\ DOMAIN machines = 1 .. n BY <1>8
<1>. HIDE DEF m, n
<1>10. /\ machines' \in Seq(MachineTypes) /\ DOMAIN machines' = 1 .. n + 1
       /\ \A i \in 1 .. n : machines'[i] = machines[i]
       /\ machines'[n + 1] = m
  <2>1. machines' = Append(machines, m) BY <1>1 DEF m
  <2>. QED BY <1>6, <1>8, <1>9, <2>1, AppendProperties DEF n
<1>11. \A i \in 1 .. n + 1 : i \in 1 .. n \/ i = n + 1 BY <1>9
<1>12. PlacedByRole' = PlacedByRole BY <1>2 DEF PlacedByRole
<1>13. ASSUME NEW i \in DOMAIN machines'
       PROVE  /\ machines'[i].group \in DOMAIN groups
              /\ machines'[i].host # <<>> =>
                    machines'[i].host \in DOMAIN pool /\ machines'[i].selector \subseteq pool[machines'[i].host]
              /\ PlacedByRole => SelectorOf(machines'[i])
  <2>1. CASE i \in 1 .. n BY <1>8, <1>9, <1>10, <2>1 DEF MachinesInv
  <2>2. CASE i = n + 1 BY <1>6, <1>7, <1>10, <2>2
  <2>. QED BY <1>10, <1>11, <2>1, <2>2
<1>14. \A i \in DOMAIN machines' : (SelectorOf(machines[i]))' = SelectorOf(machines'[i])
  BY <1>2 DEF SelectorOf
<1>15. ASSUME NEW i \in DOMAIN machines', NEW j \in DOMAIN machines',
              machines'[i].host = machines'[j].host, machines'[i].host # <<>>
       PROVE  i = j
  <2>1. i \in 1 .. n /\ j \in 1 .. n BY <1>7, <1>10, <1>11, <1>15
  <2>. QED BY <1>8, <1>9, <1>10, <1>15, <2>1 DEF MachinesInv
<1>16. ASSUME NEW x \in DOMAIN groups PROVE Cardinality(MadeFor(x)') <= groups[x].replicas
  <2>0. /\ Cardinality(MadeFor(x)) \in Nat /\ IsFiniteSet(MadeFor(x)) /\ groups[x].replicas \in Nat
        /\ Cardinality(MadeFor(x)) <= groups[x].replicas
    BY <1>3, <1>8, MadeForFinite, GroupCounts DEF Inv, ObjectsInv, MachinesInv, CountsInv
  <2>1. MadeFor(x) = {i \in 1 .. n : machines[i].group = x} BY <1>9 DEF MadeFor
  <2>2. MadeFor(x)' = {i \in 1 .. n + 1 : machines'[i].group = x} BY <1>10 DEF MadeFor
  <2>3. CASE x = g
    <3>1. MadeFor(x)' = MadeFor(x) \cup {n + 1} /\ n + 1 \notin MadeFor(x)
      BY <1>7, <1>9, <1>10, <1>11, <2>1, <2>2, <2>3
    <3>2. Cardinality(MadeFor(x)') = Cardinality(MadeFor(x)) + 1 BY <2>0, <3>1, FS_AddElement
    <3>3. Cardinality(MadeFor(x)) < groups[x].replicas BY <1>1, <2>3
    <3>. QED BY <2>0, <3>2, <3>3
  <2>4. CASE x # g
    <3>1. MadeFor(x)' = MadeFor(x) BY <1>7, <1>9, <1>10, <1>11, <2>1, <2>2, <2>4
    <3>. QED BY <2>0, <3>1
  <2>. QED BY <2>3, <2>4
<1>17. MachinesInv' BY <1>2, <1>10, <1>12, <1>13, <1>14, <1>15, <1>16 DEF MachinesInv
<1>. QED BY <1>4, <1>5, <1>17 DEF Inv

\* A claim takes a Host that no machine has.
LEMMA ClaimStep == Inv /\ Claim => Inv'
<1>. SUFFICES ASSUME Inv, Claim PROVE Inv' OBVIOUS
<1>1. PICK i \in DOMAIN machines : \E h \in Heads(Matching(machines[i]) \ probed) :
         machines[i].host = <<>> /\ machines' = [machines EXCEPT ![i].host = h]
  BY DEF Claim
<1>2. PICK h \in Heads(Matching(machines[i]) \ probed) : machines' = [machines EXCEPT ![i].host = h]
  BY <1>1
<1>3. h \in DOMAIN pool /\ machines[i].selector \subseteq pool[h] /\ Free(h)
  BY DEF Heads, Matching
<1>4. UNCHANGED <<cfg, stage, applied, pool, templates, groups>> BY DEF Claim, objects
<1>5. MachinesInv /\ machines \in Seq(MachineTypes) BY DEF Inv, MachinesInv
<1>6. machines[i].group \in DOMAIN groups BY <1>5 DEF MachinesInv
<1>7. stage = "accepted" BY <1>6, GroupsMeanAccepted
<1>8. ConfigInv' BY <1>4, <1>7 DEF Inv, ConfigInv
<1>9. ObjectsInv'
  <2>1. PoolInv' BY <1>4 DEF Inv, ObjectsInv, PoolInv, LabelsAt
  <2>2. TemplatesInv' BY <1>4 DEF Inv, ObjectsInv, TemplatesInv
  <2>3. GroupsInv' BY <1>4 DEF Inv, ObjectsInv, GroupsInv, ControlPlaneAsks, PoolAsks
  <2>. QED BY <1>4, <2>1, <2>2, <2>3 DEF Inv, ObjectsInv
<1>10. h \in Names
  <2>1. PICK k \in DOMAIN cfg.hosts : h = cfg.hosts[k].name BY <1>3 DEF Inv, ObjectsInv, PoolInv
  <2>2. cfg.hosts[k] \in HostConfigs
    <3>1. cfg \in ConfigTypes BY <1>7, Accepted
    <3>2. cfg.hosts \in Seq(HostConfigs) BY <3>1 DEF ConfigTypes
    <3>. QED BY <3>2
  <2>. QED BY <2>1, <2>2 DEF HostConfigs
<1>11. \A j \in DOMAIN machines : machines[j] \in MachineTypes BY <1>5
<1>12. /\ DOMAIN machines' = DOMAIN machines
       /\ \A j \in DOMAIN machines : j # i => machines'[j] = machines[j]
       /\ machines'[i] = [machines[i] EXCEPT !.host = h]
  BY <1>2, <1>5
<1>13. /\ machines'[i] \in MachineTypes /\ machines'[i].group = machines[i].group
       /\ machines'[i].selector = machines[i].selector /\ machines'[i].host = h
  BY <1>10, <1>11, <1>12 DEF MachineTypes
<1>14. machines' \in Seq(MachineTypes)
  <2>1. DOMAIN machines = 1 .. Len(machines) /\ Len(machines) \in Nat BY <1>5
  <2>2. machines' = [j \in 1 .. Len(machines) |->
                        IF j = i THEN [machines[i] EXCEPT !.host = h] ELSE machines[j]]
    BY <1>2, <2>1
  <2>3. \A j \in 1 .. Len(machines) : machines'[j] \in MachineTypes BY <1>11, <1>12, <1>13, <2>1
  <2>4. machines' \in [1 .. Len(machines) -> MachineTypes] BY <2>2, <2>3
  <2>. QED BY <2>1, <2>4, SeqDef
<1>15. PlacedByRole' = PlacedByRole BY <1>4 DEF PlacedByRole
<1>16. ASSUME NEW j \in DOMAIN machines
       PROVE  /\ machines'[j].group \in DOMAIN groups
              /\ machines'[j].host # <<>> =>
                    machines'[j].host \in DOMAIN pool /\ machines'[j].selector \subseteq pool[machines'[j].host]
              /\ PlacedByRole => SelectorOf(machines'[j])
  <2>1. CASE j # i BY <1>5, <1>12, <2>1 DEF MachinesInv
  <2>2. CASE j = i
    <3>1. PlacedByRole => SelectorOf(machines[i]) BY <1>5 DEF MachinesInv
    <3>2. PlacedByRole => SelectorOf(machines'[i]) BY <1>13, <3>1 DEF SelectorOf
    <3>. QED BY <1>3, <1>6, <1>13, <2>2, <3>2
  <2>. QED BY <2>1, <2>2
<1>17. \A j \in DOMAIN machines : (SelectorOf(machines[j]))' = SelectorOf(machines'[j])
  BY <1>4 DEF SelectorOf
<1>18. ASSUME NEW j \in DOMAIN machines, NEW k \in DOMAIN machines,
              machines'[j].host = machines'[k].host, machines'[j].host # <<>>
       PROVE  j = k
  <2>1. \A l \in DOMAIN machines : machines[l].host # h BY <1>3 DEF Free, Range
  <2>. QED BY <1>5, <1>12, <1>13, <1>18, <2>1 DEF MachinesInv
<1>19. \A g : MadeFor(g)' = MadeFor(g)
  <2>1. \A j \in DOMAIN machines : machines'[j].group = machines[j].group BY <1>12, <1>13
  <2>. QED BY <1>12, <2>1 DEF MadeFor
<1>20. MachinesInv' BY <1>4, <1>5, <1>12, <1>14, <1>15, <1>16, <1>17, <1>18, <1>19 DEF MachinesInv
<1>. QED BY <1>8, <1>9, <1>20 DEF Inv

\* The invariant holds in every reachable state.
LEMMA Invariance == Spec => []Inv
<1>1. Inv /\ [Next]_vars => Inv'
  <2>. SUFFICES ASSUME Inv, [Next]_vars PROVE Inv' OBVIOUS
  <2>1. CASE UNCHANGED <<cfg, stage, applied, pool, templates, groups, machines>>
    <3>1. ConfigInv' BY <2>1 DEF Inv, ConfigInv
    <3>2. PoolInv' BY <2>1 DEF Inv, ObjectsInv, PoolInv, LabelsAt
    <3>3. TemplatesInv' BY <2>1 DEF Inv, ObjectsInv, TemplatesInv
    <3>4. GroupsInv' BY <2>1 DEF Inv, ObjectsInv, GroupsInv, ControlPlaneAsks, PoolAsks
    <3>5. ObjectsInv' BY <2>1, <3>2, <3>3, <3>4 DEF Inv, ObjectsInv
    <3>6. MachinesInv' BY <2>1 DEF Inv, MachinesInv, PlacedByRole, SelectorOf, MadeFor
    <3>. QED BY <3>1, <3>5, <3>6 DEF Inv
  <2>2. CASE Probe \/ SyncHost \/ UNCHANGED vars BY <2>1, <2>2 DEF Probe, SyncHost, objects, vars
  <2>. QED BY <2>2, LoadStep, ApplyStep, RecreateStep, MakeStep, ClaimStep DEF Next
<1>. QED BY <1>1, InvInit, PTL DEF Spec

-----------------------------------------------------------------------------
(* Counting hosts and machines.                                            *)

\* The hosts of a role whose Host objects exist and are all taken are no more than the
\* machines that may have taken one, without any that has none.
LEMMA TakenAreFewer ==
    ASSUME MachinesInv, NEW R, R \subseteq DOMAIN cfg.hosts,
           \A i, j \in R : cfg.hosts[i].name = cfg.hosts[j].name => i = j,
           \A i \in R : cfg.hosts[i].name # <<>>,
           NEW M, M \subseteq DOMAIN machines,
           \A i \in R : \E k \in M : machines[k].host = cfg.hosts[i].name,
           NEW w \in M, machines[w].host = <<>>
    PROVE  IsFiniteSet(R) /\ IsFiniteSet(M) /\ Cardinality(R) < Cardinality(M)
           /\ Cardinality(R) \in Nat /\ Cardinality(M) \in Nat
<1>. DEFINE f == [i \in R |-> CHOOSE k \in M : machines[k].host = cfg.hosts[i].name]
            T == M \ {w}
<1>1. \A i \in R : f[i] \in M /\ machines[f[i]].host = cfg.hosts[i].name OBVIOUS
<1>2. f \in [R -> T]
  <2>1. \A i \in R : f[i] # w BY <1>1
  <2>. QED BY <1>1, <2>1
<1>. HIDE DEF f
<1>3. \A i, j \in R : f[i] = f[j] => i = j BY <1>1
<1>4. f \in Injection(R, T) BY <1>2, <1>3 DEF Injection, IsInjective
<1>5. machines \in Seq(MachineTypes) BY DEF MachinesInv
<1>6. DOMAIN machines = 1 .. Len(machines) /\ Len(machines) \in Nat BY <1>5, LenProperties
<1>7. IsFiniteSet(DOMAIN machines) BY <1>6, FS_Interval
<1>8. IsFiniteSet(M) /\ Cardinality(M) \in Nat BY <1>7, FS_Subset, FS_CardinalityType
<1>9. IsFiniteSet(T) /\ Cardinality(T) = Cardinality(M) - 1 BY <1>8, FS_RemoveElement
<1>10. IsFiniteSet(R) /\ Cardinality(R) <= Cardinality(T)
  <2>. HIDE DEF T
  <2>. QED BY <1>4, <1>9, FS_Injection
<1>11. Cardinality(R) \in Nat BY <1>10, FS_CardinalityType
<1>. QED BY <1>8, <1>9, <1>10, <1>11

\* A host's Host object has the host's role, and no other, where no label overrides one.
LEMMA RoleLabel ==
    ASSUME NEW h \in HostConfigs, \A l \in h.labels : l[1] # "role", NEW role
    PROVE  RoleIs(role) \subseteq RenderHost(h).labels <=> role = h.role
<1>1. RenderHost(h).labels = RoleIs(h.role) \cup h.labels
  BY DEF RenderHost, RoleIs
<1>2. RoleIs(role) \subseteq RoleIs(h.role) \cup h.labels <=> <<"role", role>> \in RoleIs(h.role) \cup h.labels
  BY DEF RoleIs
<1>3. <<"role", role>> \notin h.labels OBVIOUS
<1>4. <<"role", role>> \in RoleIs(h.role) <=> role = h.role BY DEF RoleIs
<1>. QED BY <1>1, <1>2, <1>3, <1>4

\* The Host object of the i-th host.
LEMMA HostAt ==
    ASSUME Inv, PlacedByRole, DOMAIN groups # {}, NEW i \in DOMAIN cfg.hosts, NEW role
    PROVE  /\ cfg.hosts[i].name \in DOMAIN pool
           /\ RoleIs(role) \subseteq pool[cfg.hosts[i].name] <=> role = cfg.hosts[i].role
<1>0. stage = "accepted" BY GroupsMeanAccepted
<1>1. cfg \in ConfigTypes /\ Validate(cfg) BY <1>0, Accepted
<1>2. cfg.hosts[i] \in HostConfigs
  <2>1. cfg.hosts \in Seq(HostConfigs) BY <1>1 DEF ConfigTypes
  <2>. QED BY <2>1
<1>3. \A l \in cfg.hosts[i].labels : l[1] # "role" BY DEF PlacedByRole, Range
<1>4. cfg.hosts[i].name \in DOMAIN pool BY DEF Inv, ObjectsInv, PoolInv
<1>5. PICK k \in DOMAIN cfg.hosts :
         cfg.hosts[i].name = cfg.hosts[k].name /\ pool[cfg.hosts[i].name] = LabelsAt(k)
  BY <1>4 DEF Inv, ObjectsInv, PoolInv
<1>6. k = i BY <1>1, <1>5, ValidFacts
<1>7. pool[cfg.hosts[i].name] = RenderHost(cfg.hosts[i]).labels BY <1>5, <1>6 DEF LabelsAt
<1>. QED BY <1>2, <1>3, <1>4, <1>7, RoleLabel

\* A machine that placement by role put on a host is of the control plane if and only if
\* the host has that role.
LEMMA HostOfRole ==
    ASSUME Inv, PlacedByRole, NEW k \in DOMAIN machines, NEW i \in DOMAIN cfg.hosts,
           machines[k].host = cfg.hosts[i].name
    PROVE  /\ cfg.hosts[i].role = RoleControlPlane => machines[k].group = ControlPlaneName
           /\ cfg.hosts[i].role = RoleWorker => machines[k].group # ControlPlaneName
<1>1. machines[k].group \in DOMAIN groups /\ SelectorOf(machines[k]) BY DEF Inv, MachinesInv
<1>2. stage = "accepted" BY <1>1, GroupsMeanAccepted
<1>3. machines[k].host # <<>>
  <2>1. cfg \in ConfigTypes /\ Validate(cfg) BY <1>2, Accepted
  <2>. QED BY <2>1, ValidFacts
<1>4. machines[k].selector \subseteq pool[cfg.hosts[i].name] BY <1>3 DEF Inv, MachinesInv
<1>5. \A role : RoleIs(role) \subseteq pool[cfg.hosts[i].name] <=> role = cfg.hosts[i].role
  BY <1>1, HostAt
<1>6. RoleControlPlane # RoleWorker BY DEF RoleControlPlane, RoleWorker
<1>7. CASE machines[k].group = ControlPlaneName
  <2>1. RoleIs(RoleControlPlane) \subseteq pool[cfg.hosts[i].name] BY <1>1, <1>4, <1>7 DEF SelectorOf
  <2>. QED BY <1>5, <1>6, <1>7, <2>1
<1>8. CASE machines[k].group # ControlPlaneName
  <2>1. PICK j \in DOMAIN cfg.workers : machines[k].selector = cfg.workers[j].selector
    BY <1>1, <1>8 DEF SelectorOf
  <2>2. RoleIs(RoleWorker) \subseteq cfg.workers[j].selector BY DEF PlacedByRole, Range
  <2>3. RoleIs(RoleWorker) \subseteq pool[cfg.hosts[i].name] BY <1>4, <2>1, <2>2
  <2>. QED BY <1>5, <1>6, <1>8, <2>3
<1>. QED BY <1>7, <1>8

\* If no host of a role is left for a machine that asks for that role, the role has fewer
\* hosts than there are machines that take hosts of it.
LEMMA NoneLeft ==
    ASSUME Inv, PlacedByRole, NEW w \in DOMAIN machines, machines[w].host = <<>>,
           NEW role \in {RoleControlPlane, RoleWorker}, machines[w].selector = RoleIs(role),
           Matching(machines[w]) = {},
           NEW M, M = {k \in DOMAIN machines : machines[k].group = ControlPlaneName <=> role = RoleControlPlane},
           w \in M
    PROVE  /\ Cardinality(HostsWithRole(cfg, role)) < Cardinality(M)
           /\ Cardinality(HostsWithRole(cfg, role)) \in Nat /\ Cardinality(M) \in Nat
<1>. DEFINE R == HostsWithRole(cfg, role)
<1>1. machines[w].group \in DOMAIN groups /\ MachinesInv BY DEF Inv, MachinesInv
<1>2. stage = "accepted" BY <1>1, GroupsMeanAccepted
<1>3. cfg \in ConfigTypes /\ Validate(cfg) BY <1>2, Accepted
<1>4. R \subseteq DOMAIN cfg.hosts /\ \A i \in R : cfg.hosts[i].role = role BY DEF HostsWithRole
<1>5. ASSUME NEW i \in R PROVE \E k \in M : machines[k].host = cfg.hosts[i].name
  <2>1. i \in DOMAIN cfg.hosts /\ cfg.hosts[i].role = role BY <1>4
  <2>2. cfg.hosts[i].name \in DOMAIN pool /\ machines[w].selector \subseteq pool[cfg.hosts[i].name]
    BY <1>1, <2>1, HostAt
  <2>3. ~Free(cfg.hosts[i].name) BY <2>2 DEF Matching
  <2>4. PICK k \in DOMAIN machines : machines[k].host = cfg.hosts[i].name BY <2>3 DEF Free, Range
  <2>5. RoleControlPlane # RoleWorker BY DEF RoleControlPlane, RoleWorker
  <2>6. machines[k].group = ControlPlaneName <=> role = RoleControlPlane
    BY <2>1, <2>4, <2>5, HostOfRole
  <2>. QED BY <2>4, <2>6
<1>6. /\ \A i, j \in R : cfg.hosts[i].name = cfg.hosts[j].name => i = j
      /\ \A i \in R : cfg.hosts[i].name # <<>>
  BY <1>3, <1>4, ValidFacts
<1>7. M \subseteq DOMAIN machines OBVIOUS
<1>. HIDE DEF R
<1>8. Cardinality(R) < Cardinality(M) /\ Cardinality(R) \in Nat /\ Cardinality(M) \in Nat
  BY <1>1, <1>4, <1>5, <1>6, <1>7, TakenAreFewer
<1>. QED BY <1>8 DEF R

\* A control plane machine finds a host.
LEMMA ControlPlanePlaced ==
    ASSUME Inv, PlacedByRole, NEW w \in DOMAIN machines, machines[w].host = <<>>,
           machines[w].group = ControlPlaneName
    PROVE  Matching(machines[w]) # {}
<1>. SUFFICES ASSUME Matching(machines[w]) = {} PROVE FALSE OBVIOUS
<1>. DEFINE M == {k \in DOMAIN machines : machines[k].group = ControlPlaneName <=> RoleControlPlane = RoleControlPlane}
<1>1. machines[w].group \in DOMAIN groups /\ SelectorOf(machines[w]) /\ MachinesInv BY DEF Inv, MachinesInv
<1>2. machines[w].selector = RoleIs(RoleControlPlane) BY <1>1 DEF SelectorOf
<1>3. w \in M OBVIOUS
<1>4. M = MadeFor(ControlPlaneName) BY DEF MadeFor
<1>. HIDE DEF M
<1>5. /\ Cardinality(HostsWithRole(cfg, RoleControlPlane)) < Cardinality(M)
      /\ Cardinality(HostsWithRole(cfg, RoleControlPlane)) \in Nat /\ Cardinality(M) \in Nat
  BY <1>2, <1>3, NoneLeft DEF M
<1>6. groups[ControlPlaneName] = ControlPlaneAsks
  <2>1. \A j : ControlPlaneName # WorkerPoolName(cfg.workers[j]) BY DEF ControlPlaneName, WorkerPoolName
  <2>. QED BY <1>1, <2>1 DEF Inv, ObjectsInv, GroupsInv
<1>7. Cardinality(M) <= cfg.replicas
  <2>1. Cardinality(M) <= groups[ControlPlaneName].replicas BY <1>1, <1>4 DEF MachinesInv
  <2>. QED BY <1>6, <2>1 DEF ControlPlaneAsks
<1>8. stage = "accepted" BY <1>1, GroupsMeanAccepted
<1>9. cfg \in ConfigTypes /\ Validate(cfg) BY <1>8, Accepted
<1>10. cfg.replicas \in Int /\ cfg.replicas <= Cardinality(HostsWithRole(cfg, RoleControlPlane))
  BY <1>9, ValidFacts DEF ConfigTypes, Counts
<1>. QED BY <1>5, <1>7, <1>10

-----------------------------------------------------------------------------
(* The sum of the replica counts.                                          *)

\* A set of naturals that is not empty has a least one: what is shown of every natural by
\* induction is shown here of the least for which it would fail.
LEMMA LeastNatural ==
    ASSUME NEW T, T \subseteq Nat, T # {}
    PROVE  \E n \in T : \A m \in T : n <= m
<1>1. PICK n \in T : \A m \in T : ~(<<m, n>> \in OpToRel(<, Nat))
  BY NatLessThanWellFounded, WFMin
<1>2. \A m \in T : ~(m < n) BY <1>1 DEF OpToRel
<1>. QED BY <1>2

\* The partial sums of a list of counts exist.
LEMMA SumsExist ==
    ASSUME NEW n \in Nat, NEW r \in [1 .. n -> Int]
    PROVE  \E f \in [0 .. n -> Int] : f[0] = 0 /\ \A i \in 1 .. n : f[i] = f[i - 1] + r[i]
<1>. DEFINE Sums(k, f) == f \in [0 .. k -> Int] /\ f[0] = 0 /\ \A i \in 1 .. k : f[i] = f[i - 1] + r[i]
            T == {k \in 0 .. n : ~\E f : Sums(k, f)}
<1>1. ASSUME T # {} PROVE FALSE
  <2>1. T \subseteq Nat OBVIOUS
  <2>2. PICK k \in T : \A m \in T : k <= m
    <3>. HIDE DEF T
    <3>. QED BY <1>1, <2>1, LeastNatural
  <2>3. CASE k = 0
    <3>. DEFINE f == [i \in 0 .. 0 |-> 0]
    <3>1. Sums(0, f) OBVIOUS
    <3>. QED BY <2>2, <2>3, <3>1
  <2>4. CASE k # 0
    <3>1. k - 1 \in 0 .. n /\ k \in 1 .. n /\ ~(k <= k - 1) BY <2>2, <2>4
    <3>2. k - 1 \notin T BY <2>2, <3>1
    <3>3. PICK f : Sums(k - 1, f) BY <3>1, <3>2
    <3>. DEFINE g == [i \in 0 .. k |-> IF i = k THEN f[k - 1] + r[k] ELSE f[i]]
    <3>4. Sums(k, g)
      <4>1. f[k - 1] \in Int /\ r[k] \in Int BY <3>1, <3>3
      <4>2. g \in [0 .. k -> Int] BY <3>1, <3>3, <4>1
      <4>3. g[0] = 0 BY <2>4, <3>1, <3>3
      <4>4. ASSUME NEW i \in 1 .. k PROVE g[i] = g[i - 1] + r[i] BY <3>1, <3>3, <4>4
      <4>. QED BY <4>2, <4>3, <4>4
    <3>. QED BY <2>2, <3>4
  <2>. QED BY <2>3, <2>4
<1>2. n \notin T BY <1>1
<1>3. \E f : Sums(n, f) BY <1>2
<1>. QED BY <1>3

\* The workers of a configuration are added up.
LEMMA WorkerSum ==
    ASSUME NEW c \in ConfigTypes
    PROVE  \E f \in [0 .. Len(c.workers) -> Int] :
              /\ f[0] = 0
              /\ \A i \in 1 .. Len(c.workers) : f[i] = f[i - 1] + c.workers[i].replicas
              /\ WorkerReplicas(c) = f[Len(c.workers)]
<1>. DEFINE n == Len(c.workers)
            r == [i \in 1 .. n |-> c.workers[i].replicas]
            F(f) == [i \in 0 .. n |-> IF i = 0 THEN 0 ELSE f[i - 1] + c.workers[i].replicas]
            s == CHOOSE f : f = F(f)
<1>1. c.workers \in Seq(WorkerPools) BY DEF ConfigTypes
<1>2. n \in Nat /\ \A i \in 1 .. n : c.workers[i] \in WorkerPools BY <1>1
<1>3. r \in [1 .. n -> Int] BY <1>2 DEF WorkerPools, Counts
<1>4. WorkerReplicas(c) = s[n] BY DEF WorkerReplicas
<1>. HIDE DEF n
<1>5. \A i \in 1 .. n : r[i] = c.workers[i].replicas OBVIOUS
<1>. HIDE DEF r
<1>6. PICK f \in [0 .. n -> Int] : f[0] = 0 /\ \A i \in 1 .. n : f[i] = f[i - 1] + r[i]
  BY <1>2, <1>3, SumsExist
<1>7. f = F(f)
  <2>1. \A i \in 0 .. n : f[i] = IF i = 0 THEN 0 ELSE f[i - 1] + c.workers[i].replicas
    BY <1>2, <1>5, <1>6
  <2>. QED BY <1>6, <2>1
<1>8. s = F(s)
  <2>. HIDE DEF F
  <2>. QED BY <1>7
<1>. HIDE DEF s
<1>9. DOMAIN s = 0 .. n /\ \A i \in 0 .. n : s[i] = IF i = 0 THEN 0 ELSE s[i - 1] + c.workers[i].replicas
  BY <1>8
<1>. HIDE DEF F
<1>. DEFINE T == {i \in 0 .. n : s[i] # f[i]}
<1>10. T = {}
  <2>. SUFFICES ASSUME T # {} PROVE FALSE OBVIOUS
  <2>1. T \subseteq Nat BY <1>2
  <2>2. PICK k \in T : \A m \in T : k <= m
    <3>. HIDE DEF T
    <3>. QED BY <2>1, LeastNatural
  <2>3. k \in 0 .. n /\ s[k] # f[k] BY <2>2
  <2>4. k # 0
    <3>1. 0 \in 0 .. n BY <1>2
    <3>. QED BY <1>6, <1>9, <2>3, <3>1
  <2>5. k - 1 \in 0 .. n /\ k \in 1 .. n /\ ~(k <= k - 1) BY <1>2, <2>3, <2>4
  <2>6. s[k - 1] = f[k - 1] BY <2>2, <2>5
  <2>7. s[k] = s[k - 1] + c.workers[k].replicas BY <1>9, <2>3, <2>4
  <2>8. f[k] = f[k - 1] + c.workers[k].replicas BY <1>5, <1>6, <2>5
  <2>. QED BY <2>3, <2>6, <2>7, <2>8
<1>11. n \in 0 .. n BY <1>2
<1>12. s[n] = f[n] BY <1>10, <1>11
<1>. QED BY <1>4, <1>5, <1>6, <1>12 DEF n

\* The machines of the pools are no more than the pools ask for together.
LEMMA PoolMachines ==
    ASSUME Inv, stage = "accepted"
    PROVE  LET M == {k \in DOMAIN machines :
                        \E j \in DOMAIN cfg.workers : machines[k].group = WorkerPoolName(cfg.workers[j])}
           IN  Cardinality(M) <= WorkerReplicas(cfg) /\ WorkerReplicas(cfg) \in Int
<1>. DEFINE n == Len(cfg.workers)
            P(j) == {k \in DOMAIN machines : \E i \in 1 .. j : machines[k].group = WorkerPoolName(cfg.workers[i])}
<1>1. cfg \in ConfigTypes /\ Validate(cfg) /\ n \in Nat /\ DOMAIN cfg.workers = 1 .. n BY Accepted
<1>2. MachinesInv /\ machines \in Seq(MachineTypes) /\ GroupsInv BY DEF Inv, MachinesInv, ObjectsInv
<1>3. PICK f \in [0 .. n -> Int] :
         /\ f[0] = 0 /\ \A i \in 1 .. n : f[i] = f[i - 1] + cfg.workers[i].replicas
         /\ WorkerReplicas(cfg) = f[n]
  BY <1>1, WorkerSum
<1>4. IsFiniteSet(DOMAIN machines)
  <2>1. DOMAIN machines = 1 .. Len(machines) /\ Len(machines) \in Nat BY <1>2, LenProperties
  <2>. QED BY <2>1, FS_Interval
<1>5. \A j : P(j) \subseteq DOMAIN machines OBVIOUS
<1>6. \A j : IsFiniteSet(P(j)) /\ Cardinality(P(j)) \in Nat
  <2>. HIDE DEF P
  <2>. QED BY <1>4, <1>5, FS_Subset, FS_CardinalityType
<1>7. ASSUME NEW j \in 1 .. n
      PROVE  /\ Cardinality(MadeFor(WorkerPoolName(cfg.workers[j]))) <= cfg.workers[j].replicas
             /\ cfg.workers[j].replicas \in Int
  <2>. DEFINE g == WorkerPoolName(cfg.workers[j])
  <2>1. cfg.workers[j].replicas \in Int /\ cfg.workers[j].replicas >= 0
    <3>1. cfg.workers \in Seq(WorkerPools) BY <1>1 DEF ConfigTypes
    <3>2. cfg.workers[j] \in WorkerPools BY <1>1, <3>1
    <3>. QED BY <1>1, <3>2, ValidFacts DEF WorkerPools, Counts
  <2>2. CASE g \in DOMAIN groups
    <3>1. ControlPlaneName # g BY DEF ControlPlaneName, WorkerPoolName
    <3>2. PICK k \in DOMAIN cfg.workers : g = WorkerPoolName(cfg.workers[k]) /\ groups[g] = PoolAsks(k)
      BY <1>2, <2>2, <3>1 DEF GroupsInv
    <3>3. cfg.workers[j].name = cfg.workers[k].name BY <3>2 DEF WorkerPoolName
    <3>4. j = k BY <1>1, <3>3, ValidFacts
    <3>5. groups[g].replicas = cfg.workers[j].replicas BY <3>2, <3>4 DEF PoolAsks
    <3>. QED BY <1>2, <2>1, <2>2, <3>5 DEF MachinesInv
  <2>3. CASE g \notin DOMAIN groups
    <3>1. MadeFor(g) = {} BY <1>2, <2>3 DEF MachinesInv, MadeFor
    <3>2. Cardinality(MadeFor(g)) = 0 BY <3>1, FS_EmptySet
    <3>. QED BY <2>1, <3>2
  <2>. QED BY <2>2, <2>3
<1>8. P(0) = {} OBVIOUS
<1>9. \A j \in 1 .. n : P(j) = P(j - 1) \cup MadeFor(WorkerPoolName(cfg.workers[j]))
  <2>. TAKE j \in 1 .. n
  <2>1. \A i : i \in 1 .. j <=> i \in 1 .. j - 1 \/ i = j BY <1>1
  <2>. QED BY <2>1 DEF MadeFor
<1>10. P(n) = {k \in DOMAIN machines :
                 \E j \in DOMAIN cfg.workers : machines[k].group = WorkerPoolName(cfg.workers[j])}
  BY <1>1
<1>. HIDE DEF P, n
<1>. DEFINE T == {j \in 0 .. n : ~(Cardinality(P(j)) <= f[j])}
<1>11. T = {}
  <2>. SUFFICES ASSUME T # {} PROVE FALSE OBVIOUS
  <2>1. T \subseteq Nat BY <1>1
  <2>2. PICK k \in T : \A m \in T : k <= m
    <3>. HIDE DEF T
    <3>. QED BY <2>1, LeastNatural
  <2>3. k \in 0 .. n /\ ~(Cardinality(P(k)) <= f[k]) BY <2>2
  <2>4. k # 0
    <3>1. Cardinality(P(0)) = 0 BY <1>8, FS_EmptySet
    <3>. QED BY <1>3, <2>3, <3>1
  <2>5. k - 1 \in 0 .. n /\ k \in 1 .. n /\ ~(k <= k - 1) BY <1>1, <2>3, <2>4
  <2>6. Cardinality(P(k - 1)) <= f[k - 1] BY <2>2, <2>5
  <2>. DEFINE A == P(k - 1)
              B == MadeFor(WorkerPoolName(cfg.workers[k]))
  <2>7. Cardinality(P(k)) <= Cardinality(A) + Cardinality(B) /\ Cardinality(A) \in Nat /\ Cardinality(B) \in Nat
    <3>1. P(k) = A \cup B BY <1>9, <2>5
    <3>2. IsFiniteSet(A) /\ Cardinality(A) \in Nat BY <1>6
    <3>3. IsFiniteSet(B) /\ Cardinality(B) \in Nat BY <1>2, MadeForFinite
    <3>. HIDE DEF A, B
    <3>4. IsFiniteSet(A \cap B)
      <4>1. A \cap B \in SUBSET A OBVIOUS
      <4>. QED BY <3>2, <4>1, FS_Subset
    <3>5. Cardinality(A \cap B) \in Nat BY <3>4, FS_CardinalityType
    <3>6. Cardinality(A \cup B) = Cardinality(A) + Cardinality(B) - Cardinality(A \cap B)
      BY <3>2, <3>3, FS_Union
    <3>. QED BY <3>1, <3>2, <3>3, <3>5, <3>6
  <2>8. Cardinality(B) <= cfg.workers[k].replicas /\ cfg.workers[k].replicas \in Int BY <1>7, <2>5
  <2>9. f[k] = f[k - 1] + cfg.workers[k].replicas BY <1>3, <2>5
  <2>10. f[k] \in Int /\ f[k - 1] \in Int BY <1>3, <2>3, <2>5
  <2>11. Cardinality(P(k)) \in Nat BY <1>6
  <2>. HIDE DEF B
  <2>. QED BY <2>3, <2>6, <2>7, <2>8, <2>9, <2>10, <2>11
<1>12. n \in 0 .. n BY <1>1
<1>13. Cardinality(P(n)) <= f[n] /\ f[n] \in Int BY <1>3, <1>11, <1>12
<1>. QED BY <1>3, <1>10, <1>13

\* A sum that one word holds does not wrap around.
LEMMA NoOverflow ==
    ASSUME NEW n \in Nat, n <= MaxCount
    PROVE  Wrap(n) = n
<1>. DEFINE half == MaxCount + 1
<1>1. half \in Nat /\ half > 0 /\ n < half BY CountAssumption
<1>. HIDE DEF half
<1>2. ((n + half) % (2 * half)) - half = n BY <1>1
<1>. QED BY <1>2 DEF Wrap, half

\* The hosts of an accepted configuration are its control plane hosts and its workers.
LEMMA TwoRoles ==
    ASSUME NEW c \in ConfigTypes, Validate(c)
    PROVE  Cardinality(HostsWithRole(c, RoleControlPlane)) + Cardinality(HostsWithRole(c, RoleWorker))
              = Len(c.hosts)
<1>. DEFINE A == HostsWithRole(c, RoleControlPlane)
            B == HostsWithRole(c, RoleWorker)
<1>1. c.hosts \in Seq(HostConfigs) BY DEF ConfigTypes
<1>2. DOMAIN c.hosts = 1 .. Len(c.hosts) /\ Len(c.hosts) \in Nat BY <1>1, LenProperties
<1>3. A \cup B = 1 .. Len(c.hosts) /\ A \cap B = {}
  BY <1>2, ValidFacts DEF HostsWithRole, RoleControlPlane, RoleWorker
<1>4. IsFiniteSet(A) /\ IsFiniteSet(B) /\ Cardinality(A) \in Nat /\ Cardinality(B) \in Nat
  BY <1>2, RoleCount, FS_CardinalityType
<1>. HIDE DEF A, B
<1>5. Cardinality(A \cup B) = Cardinality(A) + Cardinality(B) - Cardinality(A \cap B)
  BY <1>4, FS_Union
<1>6. Cardinality(1 .. Len(c.hosts)) = Len(c.hosts) BY <1>2, FS_Interval
<1>7. Cardinality(A \cap B) = 0 BY <1>3, FS_EmptySet
<1>8. Cardinality(A \cup B) = Len(c.hosts) BY <1>3, <1>6
<1>9. Cardinality(A) + Cardinality(B) = Len(c.hosts) BY <1>2, <1>4, <1>5, <1>7, <1>8
<1>. QED BY <1>9 DEF A, B

\* The counts that were asked for fit into one word.
Fits == WantedMachines(cfg) <= MaxCount

\* A machine of a pool finds a host where the pools share all workers and no control plane
\* host is spare.
LEMMA WorkerPlaced ==
    ASSUME Inv, Fits, PlacedByRole, cfg.replicas = Cardinality(HostsWithRole(cfg, RoleControlPlane)),
           \A j \in DOMAIN cfg.workers : cfg.workers[j].selector = RoleIs(RoleWorker),
           NEW w \in DOMAIN machines, machines[w].host = <<>>, machines[w].group # ControlPlaneName
    PROVE  Matching(machines[w]) # {}
<1>. SUFFICES ASSUME Matching(machines[w]) = {} PROVE FALSE OBVIOUS
<1>. DEFINE M == {k \in DOMAIN machines : machines[k].group = ControlPlaneName <=> RoleWorker = RoleControlPlane}
            N == {k \in DOMAIN machines :
                    \E j \in DOMAIN cfg.workers : machines[k].group = WorkerPoolName(cfg.workers[j])}
<1>1. machines[w].group \in DOMAIN groups /\ MachinesInv BY DEF Inv, MachinesInv
<1>2. \A k \in DOMAIN machines : SelectorOf(machines[k]) BY <1>1 DEF MachinesInv
<1>3. machines[w].selector = RoleIs(RoleWorker) BY <1>2 DEF SelectorOf
<1>4. RoleWorker # RoleControlPlane BY DEF RoleWorker, RoleControlPlane
<1>5. w \in M BY <1>4
<1>6. M = N
  <2>1. \A j : ControlPlaneName # WorkerPoolName(cfg.workers[j]) BY DEF ControlPlaneName, WorkerPoolName
  <2>2. \A k \in DOMAIN machines : machines[k].group # ControlPlaneName =>
           \E j \in DOMAIN cfg.workers : machines[k].group = WorkerPoolName(cfg.workers[j])
    BY <1>2 DEF SelectorOf
  <2>. QED BY <1>4, <2>1, <2>2
<1>7. stage = "accepted" BY <1>1, GroupsMeanAccepted
<1>8. Cardinality(N) <= WorkerReplicas(cfg) /\ WorkerReplicas(cfg) \in Int BY <1>7, PoolMachines
<1>. HIDE DEF M, N
<1>9. /\ Cardinality(HostsWithRole(cfg, RoleWorker)) < Cardinality(M)
      /\ Cardinality(HostsWithRole(cfg, RoleWorker)) \in Nat /\ Cardinality(M) \in Nat
  BY <1>3, <1>5, NoneLeft DEF M
<1>10. cfg \in ConfigTypes /\ Validate(cfg) /\ Len(cfg.hosts) \in Nat BY <1>7, Accepted
<1>11. cfg.replicas \in Int /\ cfg.replicas >= 1 BY <1>10, ValidFacts DEF ConfigTypes, Counts
<1>12. WantedMachines(cfg) = cfg.replicas + WorkerReplicas(cfg) BY DEF WantedMachines
<1>13. WantedMachines(cfg) \in Nat BY <1>6, <1>8, <1>9, <1>11, <1>12
<1>14. Wrap(WantedMachines(cfg)) = WantedMachines(cfg) BY <1>13, NoOverflow DEF Fits
<1>15. ~(WantedMachines(cfg) > Len(cfg.hosts)) BY <1>10, <1>14, ValidFacts
<1>16. cfg.replicas + Cardinality(HostsWithRole(cfg, RoleWorker)) = Len(cfg.hosts) BY <1>10, TwoRoles
<1>. QED BY <1>6, <1>8, <1>9, <1>10, <1>11, <1>12, <1>15, <1>16

-----------------------------------------------------------------------------
(* The order of the names.                                                 *)

\* The least number of a set is in it.
LEMMA MinIsLeast ==
    ASSUME NEW T, T \subseteq Nat, T # {}
    PROVE  Min(T) \in T /\ \A m \in T : Min(T) <= m
<1>1. \E n \in T : \A m \in T : n <= m BY LeastNatural
<1>. QED BY <1>1 DEF Min

\* The greatest number of a bounded set is in it.
LEMMA MaxIsGreatest ==
    ASSUME NEW n \in Nat, NEW T, T \subseteq 0 .. n, T # {}
    PROVE  Max(T) \in T /\ \A m \in T : Max(T) >= m
<1>. DEFINE U == {n - t : t \in T}
<1>0. \A t \in T : t \in 0 .. n /\ n - t \in Nat OBVIOUS
<1>1. U \subseteq Nat /\ U # {} BY <1>0
<1>2. PICK u \in U : \A v \in U : u <= v
  <2>. HIDE DEF U
  <2>. QED BY <1>1, LeastNatural
<1>3. PICK t \in T : u = n - t OBVIOUS
<1>4. ASSUME NEW m \in T PROVE t >= m
  <2>1. n - t <= n - m BY <1>2, <1>3
  <2>2. t \in 0 .. n /\ m \in 0 .. n BY <1>0
  <2>. HIDE DEF U
  <2>. QED BY <2>1, <2>2
<1>. QED BY <1>4 DEF Max

\* A name that is not empty is its head and its rest, and its head is of one kind.
LEMMA Chunk ==
    ASSUME NEW s \in Names, s # <<>>
    PROVE  /\ Len(s) \in Nat /\ DOMAIN s = 1 .. Len(s) /\ HeadLength(s) \in 1 .. Len(s)
           /\ HeadOf(s) \in Names /\ Len(HeadOf(s)) = HeadLength(s)
           /\ RestOf(s) \in Names /\ Len(RestOf(s)) = Len(s) - HeadLength(s)
           /\ \A i \in 1 .. HeadLength(s) : HeadOf(s)[i] = s[i]
           /\ \A i \in 1 .. Len(s) - HeadLength(s) : RestOf(s)[i] = s[HeadLength(s) + i]
           /\ \A i \in 1 .. HeadLength(s) : IsDigit(s[i]) = IsDigit(s[1])
<1>. DEFINE n == Len(s)
            T == {k \in 1 .. n : \A i \in 1 .. k : IsDigit(s[i]) = IsDigit(s[1])}
            h == HeadLength(s)
<1>1. n \in Nat /\ n >= 1 /\ DOMAIN s = 1 .. n
  BY LenProperties, EmptySeq DEF Names
<1>2. h \in T
  <2>1. 1 \in T BY <1>1
  <2>2. T \subseteq 0 .. n BY <1>1
  <2>. HIDE DEF T
  <2>. QED BY <1>1, <2>1, <2>2, MaxIsGreatest DEF HeadLength, T
<1>3. h \in 1 .. n /\ \A i \in 1 .. h : IsDigit(s[i]) = IsDigit(s[1]) BY <1>2
<1>. HIDE DEF h, n, T
<1>. DEFINE a == SubSeq(s, 1, h)
            b == SubSeq(s, h + 1, n)
<1>4. \A i \in 1 .. n : s[i] \in 0 .. 255 BY ElementOfSeq DEF n, Names
<1>5. a \in Names /\ Len(a) = h /\ \A i \in 1 .. h : a[i] = s[i]
  <2>1. 1 \in Int /\ h \in Int /\ \A i \in 1 .. h : s[i] \in 0 .. 255 BY <1>1, <1>3, <1>4
  <2>2. /\ a \in Seq(0 .. 255) /\ Len(a) = IF 1 <= h THEN h - 1 + 1 ELSE 0
        /\ \A i \in 1 .. h - 1 + 1 : a[i] = s[1 + i - 1]
    <3>. HIDE DEF a
    <3>. QED BY <2>1, SubSeqProperties DEF a
  <2>. HIDE DEF a
  <2>3. h - 1 + 1 = h /\ 1 <= h /\ \A i \in 1 .. h : 1 + i - 1 = i BY <1>1, <1>3
  <2>. QED BY <2>2, <2>3 DEF Names
<1>6. b \in Names /\ Len(b) = n - h /\ \A i \in 1 .. n - h : b[i] = s[h + i]
  <2>1. h + 1 \in Int /\ n \in Int /\ \A i \in h + 1 .. n : s[i] \in 0 .. 255 BY <1>1, <1>3, <1>4
  <2>2. /\ b \in Seq(0 .. 255) /\ Len(b) = IF h + 1 <= n THEN n - (h + 1) + 1 ELSE 0
        /\ \A i \in 1 .. n - (h + 1) + 1 : b[i] = s[(h + 1) + i - 1]
    <3>. HIDE DEF b
    <3>. QED BY <2>1, SubSeqProperties DEF b
  <2>. HIDE DEF b
  <2>3. /\ n - (h + 1) + 1 = n - h /\ (IF h + 1 <= n THEN n - (h + 1) + 1 ELSE 0) = n - h
        /\ \A i \in 1 .. n - h : (h + 1) + i - 1 = h + i
    BY <1>1, <1>3
  <2>. QED BY <2>2, <2>3 DEF Names
<1>. HIDE DEF a, b
<1>7. HeadOf(s) = a /\ RestOf(s) = b BY DEF HeadOf, RestOf, a, b, h, n
<1>8. \A i \in 1 .. h : IsDigit(s[i]) = IsDigit(s[1]) BY <1>3
<1>. QED BY <1>1, <1>3, <1>5, <1>6, <1>7, <1>8, Zenon DEF h, n

\* A name with the same head and the same rest is the same name.
LEMMA ChunksDetermine ==
    ASSUME NEW s \in Names, NEW t \in Names, s # <<>>, t # <<>>,
           HeadOf(s) = HeadOf(t), RestOf(s) = RestOf(t)
    PROVE  s = t
<1>. DEFINE h == HeadLength(s)
            n == Len(s)
<1>1. HeadLength(t) = h /\ h \in 1 .. n /\ n \in Nat /\ Len(t) \in Nat BY Chunk
<1>2. Len(t) = n
  <2>1. Len(RestOf(s)) = n - h /\ Len(RestOf(t)) = Len(t) - h BY <1>1, Chunk
  <2>. HIDE DEF n, h
  <2>. QED BY <1>1, <2>1
<1>3. ASSUME NEW i \in 1 .. n PROVE s[i] = t[i]
  <2>1. CASE i <= h
    <3>1. i \in 1 .. h BY <1>1, <2>1
    <3>2. HeadOf(s)[i] = s[i] /\ HeadOf(t)[i] = t[i] BY <1>1, <3>1, Chunk
    <3>. QED BY <3>2
  <2>2. CASE ~(i <= h)
    <3>. DEFINE k == i - h
    <3>1. k \in 1 .. n - h /\ h + k = i BY <1>1, <2>2
    <3>. HIDE DEF k
    <3>2. /\ \A j \in 1 .. Len(s) - HeadLength(s) : RestOf(s)[j] = s[HeadLength(s) + j]
          /\ \A j \in 1 .. Len(t) - HeadLength(t) : RestOf(t)[j] = t[HeadLength(t) + j]
      BY Chunk, Zenon
    <3>3. RestOf(s)[k] = s[h + k] /\ RestOf(t)[k] = t[h + k] BY <1>1, <1>2, <3>1, <3>2, Zenon
    <3>. QED BY <3>1, <3>3
  <2>. QED BY <2>1, <2>2
<1>. QED BY <1>2, <1>3, SeqEqual DEF Names

\* The i-th byte, and less than any byte behind the end.
At(s, i) == IF i \in 1 .. Len(s) THEN s[i] ELSE -1

\* The order of bytes from the left.
Lex(a, b) ==
    \E i \in Nat \ {0} : At(a, i) < At(b, i) /\ \A j \in 1 .. i - 1 : At(a, j) = At(b, j)

\* What is at a place is a number.
LEMMA AtIsNumber == ASSUME NEW s \in Names, NEW i \in Nat PROVE At(s, i) \in Int
<1>1. \A k \in 1 .. Len(s) : s[k] \in 0 .. 255 BY ElementOfSeq DEF Names
<1>2. CASE i \in 1 .. Len(s)
  <2>1. s[i] \in 0 .. 255 BY <1>1, <1>2
  <2>2. s[i] \in Int BY <2>1
  <2>. QED BY <1>2, <2>2 DEF At
<1>3. CASE i \notin 1 .. Len(s)
  <2>1. At(s, i) = -1 BY <1>3 DEF At
  <2>. QED BY <2>1
<1>. QED BY <1>2, <1>3

\* It is a strict order.
LEMMA LexIsStrict ==
    ASSUME NEW a \in Names, NEW b \in Names
    PROVE  ~Lex(a, a) /\ ~(Lex(a, b) /\ Lex(b, a))
<1>1. ~Lex(a, a)
  <2>1. \A i \in Nat : ~(At(a, i) < At(a, i)) BY AtIsNumber
  <2>. QED BY <2>1 DEF Lex
<1>2. ~(Lex(a, b) /\ Lex(b, a))
  <2>. SUFFICES ASSUME Lex(a, b), Lex(b, a) PROVE FALSE OBVIOUS
  <2>1. PICK i \in Nat \ {0} : At(a, i) < At(b, i) /\ \A j \in 1 .. i - 1 : At(a, j) = At(b, j)
    BY DEF Lex
  <2>2. PICK k \in Nat \ {0} : At(b, k) < At(a, k) /\ \A j \in 1 .. k - 1 : At(b, j) = At(a, j)
    BY DEF Lex
  <2>3. At(a, i) \in Int /\ At(b, i) \in Int /\ At(a, k) \in Int /\ At(b, k) \in Int BY AtIsNumber
  <2>4. CASE i < k
    <3>1. i \in 1 .. k - 1 BY <2>4
    <3>. QED BY <2>1, <2>2, <2>3, <3>1
  <2>5. CASE k < i
    <3>1. k \in 1 .. i - 1 BY <2>5
    <3>. QED BY <2>1, <2>2, <2>3, <3>1
  <2>6. CASE i = k BY <2>1, <2>2, <2>3, <2>6
  <2>. QED BY <2>4, <2>5, <2>6
<1>. QED BY <1>1, <1>2

\* It is transitive.
LEMMA LexIsTransitive ==
    ASSUME NEW a \in Names, NEW b \in Names, NEW c \in Names, Lex(a, b), Lex(b, c)
    PROVE  Lex(a, c)
<1>1. PICK i \in Nat \ {0} : At(a, i) < At(b, i) /\ \A j \in 1 .. i - 1 : At(a, j) = At(b, j)
  BY DEF Lex
<1>2. PICK k \in Nat \ {0} : At(b, k) < At(c, k) /\ \A j \in 1 .. k - 1 : At(b, j) = At(c, j)
  BY DEF Lex
<1>3. /\ At(a, i) \in Int /\ At(b, i) \in Int /\ At(c, i) \in Int
      /\ At(a, k) \in Int /\ At(b, k) \in Int /\ At(c, k) \in Int
  BY AtIsNumber
<1>4. CASE i < k
  <2>1. i \in 1 .. k - 1 /\ \A j \in 1 .. i - 1 : j \in 1 .. k - 1 BY <1>4
  <2>2. At(a, i) < At(c, i) BY <1>1, <1>2, <2>1
  <2>3. \A j \in 1 .. i - 1 : At(a, j) = At(c, j) BY <1>1, <1>2, <2>1
  <2>. QED BY <2>2, <2>3 DEF Lex
<1>5. CASE k < i
  <2>1. k \in 1 .. i - 1 /\ \A j \in 1 .. k - 1 : j \in 1 .. i - 1 BY <1>5
  <2>2. At(a, k) < At(c, k) BY <1>1, <1>2, <2>1
  <2>3. \A j \in 1 .. k - 1 : At(a, j) = At(c, j) BY <1>1, <1>2, <2>1
  <2>. QED BY <2>2, <2>3 DEF Lex
<1>6. CASE i = k
  <2>1. At(a, i) < At(c, i) BY <1>1, <1>2, <1>3, <1>6
  <2>2. \A j \in 1 .. i - 1 : At(a, j) = At(c, j) BY <1>1, <1>2, <1>6
  <2>. QED BY <2>1, <2>2 DEF Lex
<1>. QED BY <1>4, <1>5, <1>6

\* strings.Compare is that order.
LEMMA StringsCompareIsLex ==
    ASSUME NEW a \in Names, NEW b \in Names
    PROVE  /\ StringsCompare(a, b) \in Int
           /\ StringsCompare(a, b) < 0 => Lex(a, b)
           /\ StringsCompare(a, b) > 0 => Lex(b, a)
           /\ StringsCompare(a, b) = 0 => a = b
<1>. DEFINE m == Len(a)
            n == Len(b)
            l == Min({m, n})
            differ == {i \in 1 .. l : a[i] # b[i]}
<1>1. /\ m \in Nat /\ n \in Nat /\ (\A i \in 1 .. m : a[i] \in 0 .. 255)
      /\ \A i \in 1 .. n : b[i] \in 0 .. 255
  BY LenProperties, ElementOfSeq DEF Names
<1>2. l = IF m <= n THEN m ELSE n
  <2>. DEFINE T == {m, n}
  <2>1. T \subseteq Nat /\ T # {} BY <1>1
  <2>. HIDE DEF m, n
  <2>2. Min(T) \in T /\ \A x \in T : Min(T) <= x
    <3>. HIDE DEF T
    <3>. QED BY <2>1, MinIsLeast
  <2>. QED BY <1>1, <2>2
<1>3. StringsCompare(a, b) = IF differ # {} THEN a[Min(differ)] - b[Min(differ)] ELSE m - n
  BY DEF StringsCompare
<1>4. /\ \A i \in 1 .. m : At(a, i) = a[i]
      /\ \A i \in 1 .. n : At(b, i) = b[i]
      /\ At(a, m + 1) = -1 /\ At(b, n + 1) = -1
  BY <1>1 DEF At
<1>. HIDE DEF l, m, n
<1>5. l \in Nat /\ \A i \in 1 .. l : i \in 1 .. m /\ i \in 1 .. n BY <1>1, <1>2
<1>6. CASE differ # {}
  <2>. DEFINE d == Min(differ)
  <2>1. d \in differ /\ \A i \in differ : d <= i
    <3>1. differ \subseteq Nat BY <1>5
    <3>. HIDE DEF differ
    <3>. QED BY <1>6, <3>1, MinIsLeast
  <2>. HIDE DEF d
  <2>2. d \in 1 .. l /\ a[d] # b[d] BY <2>1
  <2>3. /\ d \in Nat \ {0} /\ At(a, d) = a[d] /\ At(b, d) = b[d]
        /\ a[d] \in Int /\ b[d] \in Int
    <3>1. d \in 1 .. m /\ d \in 1 .. n /\ d \in Nat \ {0} BY <1>5, <2>2
    <3>2. a[d] \in 0 .. 255 /\ b[d] \in 0 .. 255 BY <1>1, <3>1
    <3>3. a[d] \in Int /\ b[d] \in Int BY <3>2
    <3>. QED BY <1>4, <3>1, <3>3
  <2>4. \A j \in 1 .. d - 1 : At(a, j) = At(b, j)
    <3>1. \A j \in 1 .. d - 1 : j \in 1 .. l /\ ~(d <= j) BY <1>5, <2>2
    <3>2. \A j \in 1 .. d - 1 : a[j] = b[j] BY <2>1, <3>1
    <3>. QED BY <1>4, <1>5, <3>1, <3>2
  <2>5. StringsCompare(a, b) = a[d] - b[d] BY <1>3, <1>6 DEF d
  <2>. HIDE DEF differ
  <2>6. a[d] < b[d] => Lex(a, b) BY <2>3, <2>4 DEF Lex
  <2>7. b[d] < a[d] => Lex(b, a) BY <2>3, <2>4 DEF Lex
  <2>. QED BY <2>2, <2>3, <2>5, <2>6, <2>7
<1>7. CASE differ = {}
  <2>1. \A i \in 1 .. l : a[i] = b[i] BY <1>7
  <2>2. StringsCompare(a, b) = m - n BY <1>3, <1>7
  <2>. HIDE DEF differ
  <2>3. CASE m < n
    <3>1. l = m /\ m + 1 \in 1 .. n /\ m + 1 \in Nat \ {0} /\ (m + 1) - 1 = m BY <1>1, <1>2, <2>3
    <3>2. At(a, m + 1) < At(b, m + 1)
      <4>1. At(b, m + 1) = b[m + 1] /\ b[m + 1] \in 0 .. 255 BY <1>1, <1>4, <3>1
      <4>. QED BY <1>4, <4>1
    <3>3. \A j \in 1 .. (m + 1) - 1 : At(a, j) = At(b, j) BY <1>4, <1>5, <2>1, <3>1
    <3>4. Lex(a, b) BY <3>1, <3>2, <3>3 DEF Lex
    <3>. QED BY <1>1, <2>2, <2>3, <3>4
  <2>4. CASE n < m
    <3>1. l = n /\ n + 1 \in 1 .. m /\ n + 1 \in Nat \ {0} /\ (n + 1) - 1 = n BY <1>1, <1>2, <2>4
    <3>2. At(b, n + 1) < At(a, n + 1)
      <4>1. At(a, n + 1) = a[n + 1] /\ a[n + 1] \in 0 .. 255 BY <1>1, <1>4, <3>1
      <4>. QED BY <1>4, <4>1
    <3>3. \A j \in 1 .. (n + 1) - 1 : At(b, j) = At(a, j) BY <1>4, <1>5, <2>1, <3>1
    <3>4. Lex(b, a) BY <3>1, <3>2, <3>3 DEF Lex
    <3>. QED BY <1>1, <2>2, <2>4, <3>4
  <2>5. CASE m = n
    <3>1. l = m BY <1>1, <1>2, <2>5
    <3>2. a = b BY <2>1, <2>5, <3>1, SeqEqual DEF Names, m, n
    <3>. QED BY <1>1, <2>2, <2>5, <3>2
  <2>. QED BY <1>1, <2>3, <2>4, <2>5
<1>. QED BY <1>6, <1>7

\* A name without its zeros is a name.
LEMMA TrimIsName == ASSUME NEW s \in Names PROVE TrimZeros(s) \in Names
<1>. DEFINE others == {i \in DOMAIN s : s[i] # 48}
            n == Len(s)
            d == Min(others)
<1>1. n \in Nat /\ DOMAIN s = 1 .. n BY LenProperties DEF Names
<1>2. \A i \in 1 .. n : s[i] \in 0 .. 255 BY ElementOfSeq DEF Names
<1>3. CASE others = {}
  <2>1. TrimZeros(s) = <<>> BY <1>3 DEF TrimZeros
  <2>. QED BY <2>1 DEF Names
<1>4. CASE others # {}
  <2>1. d \in others
    <3>1. others \subseteq Nat BY <1>1
    <3>. HIDE DEF others
    <3>. QED BY <1>4, <3>1, MinIsLeast
  <2>2. TrimZeros(s) = SubSeq(s, d, n) BY <1>4 DEF TrimZeros
  <2>3. d \in 1 .. n BY <1>1, <2>1
  <2>. HIDE DEF d, n, others
  <2>4. d \in Int /\ n \in Int /\ \A i \in d .. n : s[i] \in 0 .. 255 BY <1>1, <1>2, <2>3
  <2>5. SubSeq(s, d, n) \in Seq(0 .. 255) BY <2>4, SubSeqProperties
  <2>. QED BY <2>2, <2>5 DEF Names
<1>. QED BY <1>3, <1>4

\* The order of numbers: their digits without the zeros, and then the zeros.
NumberBefore(a, b) ==
    LET na == TrimZeros(a)
        nb == TrimZeros(b)
    IN  \/ Len(na) < Len(nb)
        \/ Len(na) = Len(nb) /\ Lex(na, nb)
        \/ na = nb /\ Lex(a, b)

\* It is a strict order.
LEMMA NumberIsStrict ==
    ASSUME NEW a \in Names, NEW b \in Names
    PROVE  ~NumberBefore(a, a) /\ ~(NumberBefore(a, b) /\ NumberBefore(b, a))
<1>. DEFINE na == TrimZeros(a)
            nb == TrimZeros(b)
<1>1. na \in Names /\ nb \in Names BY TrimIsName
<1>2. Len(na) \in Nat /\ Len(nb) \in Nat BY <1>1, LenProperties DEF Names
<1>3. /\ ~Lex(na, na) /\ ~Lex(a, a) /\ ~(Lex(a, b) /\ Lex(b, a)) /\ ~(Lex(na, nb) /\ Lex(nb, na))
      /\ ~Lex(nb, nb)
  BY <1>1, LexIsStrict
<1>4. /\ NumberBefore(a, a) <=> \/ Len(na) < Len(na)
                                \/ Len(na) = Len(na) /\ Lex(na, na)
                                \/ na = na /\ Lex(a, a)
      /\ NumberBefore(a, b) <=> \/ Len(na) < Len(nb)
                                \/ Len(na) = Len(nb) /\ Lex(na, nb)
                                \/ na = nb /\ Lex(a, b)
      /\ NumberBefore(b, a) <=> \/ Len(nb) < Len(na)
                                \/ Len(nb) = Len(na) /\ Lex(nb, na)
                                \/ nb = na /\ Lex(b, a)
  BY DEF NumberBefore
<1>. HIDE DEF na, nb
<1>. QED BY <1>2, <1>3, <1>4

\* It is transitive.
LEMMA NumberIsTransitive ==
    ASSUME NEW a \in Names, NEW b \in Names, NEW c \in Names, NumberBefore(a, b), NumberBefore(b, c)
    PROVE  NumberBefore(a, c)
<1>. DEFINE na == TrimZeros(a)
            nb == TrimZeros(b)
            nc == TrimZeros(c)
<1>1. na \in Names /\ nb \in Names /\ nc \in Names BY TrimIsName
<1>2. Len(na) \in Nat /\ Len(nb) \in Nat /\ Len(nc) \in Nat BY <1>1, LenProperties DEF Names
<1>3. /\ Lex(na, nb) /\ Lex(nb, nc) => Lex(na, nc)
      /\ Lex(a, b) /\ Lex(b, c) => Lex(a, c)
  BY <1>1, LexIsTransitive
<1>4. /\ Len(na) < Len(nb) \/ (Len(na) = Len(nb) /\ Lex(na, nb)) \/ (na = nb /\ Lex(a, b))
      /\ Len(nb) < Len(nc) \/ (Len(nb) = Len(nc) /\ Lex(nb, nc)) \/ (nb = nc /\ Lex(b, c))
  BY DEF NumberBefore
<1>. HIDE DEF na, nb, nc
<1>5. Len(na) < Len(nc) \/ (Len(na) = Len(nc) /\ Lex(na, nc)) \/ (na = nc /\ Lex(a, c))
  BY <1>2, <1>3, <1>4
<1>. QED BY <1>5 DEF NumberBefore, na, nb, nc

\* compareNumbers is that order.
LEMMA CompareNumbersIsNumber ==
    ASSUME NEW a \in Names, NEW b \in Names
    PROVE  /\ CompareNumbers(a, b) \in Int
           /\ CompareNumbers(a, b) < 0 => NumberBefore(a, b)
           /\ CompareNumbers(a, b) > 0 => NumberBefore(b, a)
           /\ CompareNumbers(a, b) = 0 => a = b
<1>. DEFINE na == TrimZeros(a)
            nb == TrimZeros(b)
<1>1. na \in Names /\ nb \in Names BY TrimIsName
<1>2. Len(na) \in Nat /\ Len(nb) \in Nat BY <1>1, LenProperties DEF Names
<1>3. CompareNumbers(a, b) = IF Len(na) # Len(nb) THEN Len(na) - Len(nb)
                             ELSE IF na # nb THEN StringsCompare(na, nb) ELSE StringsCompare(a, b)
  BY DEF CompareNumbers
<1>4. /\ NumberBefore(a, b) <=> Len(na) < Len(nb) \/ (Len(na) = Len(nb) /\ Lex(na, nb)) \/ (na = nb /\ Lex(a, b))
      /\ NumberBefore(b, a) <=> Len(nb) < Len(na) \/ (Len(nb) = Len(na) /\ Lex(nb, na)) \/ (nb = na /\ Lex(b, a))
  BY DEF NumberBefore
<1>. HIDE DEF na, nb
<1>5. /\ StringsCompare(na, nb) \in Int
      /\ StringsCompare(na, nb) < 0 => Lex(na, nb)
      /\ StringsCompare(na, nb) > 0 => Lex(nb, na)
      /\ StringsCompare(na, nb) = 0 => na = nb
  BY <1>1, StringsCompareIsLex
<1>6. /\ StringsCompare(a, b) \in Int
      /\ StringsCompare(a, b) < 0 => Lex(a, b)
      /\ StringsCompare(a, b) > 0 => Lex(b, a)
      /\ StringsCompare(a, b) = 0 => a = b
  BY StringsCompareIsLex
<1>7. CASE Len(na) # Len(nb) BY <1>2, <1>3, <1>4, <1>7
<1>8. CASE Len(na) = Len(nb) /\ na # nb BY <1>3, <1>4, <1>5, <1>8
<1>9. CASE na = nb BY <1>3, <1>4, <1>6, <1>9
<1>. QED BY <1>7, <1>8, <1>9

\* A head is a run of digits, or of everything else.
IsHead(h) == h \in Names /\ Len(h) >= 1 /\ \A i \in DOMAIN h : IsDigit(h[i]) = IsDigit(h[1])

\* The head of a name is one.
LEMMA HeadIsHead == ASSUME NEW s \in Names, s # <<>> PROVE IsHead(HeadOf(s))
<1>. DEFINE h == HeadOf(s)
            n == HeadLength(s)
<1>1. /\ h \in Names /\ Len(h) = n /\ n \in 1 .. Len(s) /\ Len(s) \in Nat
      /\ \A i \in 1 .. n : h[i] = s[i]
      /\ \A i \in 1 .. n : IsDigit(s[i]) = IsDigit(s[1])
  BY Chunk
<1>. HIDE DEF h, n
<1>2. n >= 1 /\ 1 \in 1 .. n /\ DOMAIN h = 1 .. n
  <2>1. DOMAIN h = 1 .. Len(h) BY <1>1, LenProperties DEF Names
  <2>. QED BY <1>1, <2>1
<1>3. \A i \in 1 .. n : IsDigit(h[i]) = IsDigit(h[1]) BY <1>1, <1>2, Zenon
<1>. QED BY <1>1, <1>2, <1>3, Zenon DEF IsHead, h

\* What a head is made of shows in its first byte.
LEMMA KindOfHead ==
    ASSUME NEW h, IsHead(h)
    PROVE  /\ h \in Names /\ h[1] \in Int /\ At(h, 1) = h[1]
           /\ IsDigits(h) <=> h[1] >= 48 /\ h[1] <= 57
<1>1. h \in Names /\ Len(h) >= 1 /\ \A i \in DOMAIN h : IsDigit(h[i]) = IsDigit(h[1]) BY DEF IsHead
<1>2. Len(h) \in Nat /\ DOMAIN h = 1 .. Len(h) BY <1>1, LenProperties DEF Names
<1>3. 1 \in 1 .. Len(h) BY <1>1, <1>2
<1>4. h[1] \in 0 .. 255 BY <1>1, <1>3, ElementOfSeq DEF Names
<1>5. h[1] \in Int BY <1>4
<1>6. At(h, 1) = h[1] BY <1>3 DEF At
<1>7. IsDigits(h) <=> IsDigit(h[1]) BY <1>1, <1>2, <1>3, Zenon DEF IsDigits
<1>8. IsDigit(h[1]) <=> h[1] >= 48 /\ h[1] <= 57 BY <1>5 DEF IsDigit
<1>. QED BY <1>1, <1>5, <1>6, <1>7, <1>8

\* The first byte tells a run of digits from another.
LEMMA MixedHeads ==
    ASSUME NEW a, NEW b, IsHead(a), IsHead(b), a[1] # b[1]
    PROVE  Lex(a, b) <=> a[1] < b[1]
<1>1. /\ a[1] \in Int /\ b[1] \in Int /\ At(a, 1) = a[1] /\ At(b, 1) = b[1] BY KindOfHead
<1>2. a[1] < b[1] => Lex(a, b)
  <2>1. 1 \in Nat \ {0} /\ 1 .. 1 - 1 = {} OBVIOUS
  <2>. QED BY <1>1, <2>1 DEF Lex
<1>3. ASSUME Lex(a, b) PROVE a[1] < b[1]
  <2>1. PICK i \in Nat \ {0} : At(a, i) < At(b, i) /\ \A j \in 1 .. i - 1 : At(a, j) = At(b, j)
    BY <1>3 DEF Lex
  <2>2. i = 1
    <3>. SUFFICES ASSUME i # 1 PROVE FALSE OBVIOUS
    <3>1. 1 \in 1 .. i - 1 OBVIOUS
    <3>. QED BY <1>1, <2>1, <3>1
  <2>. QED BY <1>1, <2>1, <2>2
<1>. QED BY <1>2, <1>3

\* The order of heads: numbers among themselves, bytes otherwise.
HeadBefore(a, b) == IF IsDigits(a) /\ IsDigits(b) THEN NumberBefore(a, b) ELSE Lex(a, b)

\* It is transitive: a run of digits is on the same side of any other run.
LEMMA HeadIsTransitive ==
    ASSUME NEW a, NEW b, NEW c, IsHead(a), IsHead(b), IsHead(c), HeadBefore(a, b), HeadBefore(b, c)
    PROVE  HeadBefore(a, c)
<1>. DEFINE D(h) == h[1] >= 48 /\ h[1] <= 57
<1>1. /\ a \in Names /\ a[1] \in Int /\ (IsDigits(a) <=> D(a))
      /\ b \in Names /\ b[1] \in Int /\ (IsDigits(b) <=> D(b))
      /\ c \in Names /\ c[1] \in Int /\ (IsDigits(c) <=> D(c))
  BY KindOfHead
<1>2. /\ a[1] # b[1] => (Lex(a, b) <=> a[1] < b[1])
      /\ b[1] # c[1] => (Lex(b, c) <=> b[1] < c[1])
      /\ a[1] # c[1] => (Lex(a, c) <=> a[1] < c[1])
  BY MixedHeads
<1>3. Lex(a, b) /\ Lex(b, c) => Lex(a, c) BY <1>1, LexIsTransitive
<1>4. CASE D(a) /\ D(b) /\ D(c)
  <2>1. NumberBefore(a, b) /\ NumberBefore(b, c) BY <1>1, <1>4 DEF HeadBefore
  <2>2. NumberBefore(a, c) BY <1>1, <2>1, NumberIsTransitive
  <2>. QED BY <1>1, <1>4, <2>2 DEF HeadBefore
<1>5. CASE D(a) /\ D(b) /\ ~D(c)
  <2>1. Lex(b, c) BY <1>1, <1>5 DEF HeadBefore
  <2>2. b[1] < c[1] BY <1>1, <1>2, <1>5, <2>1
  <2>3. a[1] < c[1] BY <1>1, <1>5, <2>2
  <2>4. Lex(a, c) BY <1>1, <1>2, <2>3
  <2>. QED BY <1>1, <1>5, <2>4 DEF HeadBefore
<1>6. CASE ~D(a) /\ D(b) /\ D(c)
  <2>1. Lex(a, b) BY <1>1, <1>6 DEF HeadBefore
  <2>2. a[1] < b[1] BY <1>1, <1>2, <1>6, <2>1
  <2>3. a[1] < c[1] BY <1>1, <1>6, <2>2
  <2>4. Lex(a, c) BY <1>1, <1>2, <2>3
  <2>. QED BY <1>1, <1>6, <2>4 DEF HeadBefore
<1>7. CASE D(a) /\ ~D(b) /\ D(c)
  <2>1. Lex(a, b) /\ Lex(b, c) BY <1>1, <1>7 DEF HeadBefore
  <2>2. a[1] < b[1] /\ b[1] < c[1] BY <1>1, <1>2, <1>7, <2>1
  <2>. QED BY <1>1, <1>7, <2>2
<1>8. CASE ~(D(a) /\ D(b)) /\ ~(D(b) /\ D(c)) /\ ~(D(a) /\ D(c))
  BY <1>1, <1>3, <1>8 DEF HeadBefore
<1>. HIDE DEF D
<1>. QED BY <1>4, <1>5, <1>6, <1>7, <1>8

\* The heads are compared in that order, and only equal ones compare equal.
LEMMA HeadsAreOrdered ==
    ASSUME NEW a, NEW b, IsHead(a), IsHead(b)
    PROVE  /\ CompareHeads(a, b) \in Int
           /\ CompareHeads(a, b) < 0 <=> HeadBefore(a, b)
           /\ CompareHeads(a, b) > 0 <=> HeadBefore(b, a)
           /\ CompareHeads(a, b) = 0 <=> a = b
<1>1. a \in Names /\ b \in Names BY KindOfHead
<1>2. /\ ~HeadBefore(a, a) /\ ~HeadBefore(b, b) /\ ~(HeadBefore(a, b) /\ HeadBefore(b, a))
  BY <1>1, NumberIsStrict, LexIsStrict DEF HeadBefore
<1>. DEFINE c == CompareHeads(a, b)
<1>3. c \in Int /\ (c < 0 => HeadBefore(a, b)) /\ (c > 0 => HeadBefore(b, a)) /\ (c = 0 => a = b)
  <2>1. CASE IsDigits(a) /\ IsDigits(b)
    <3>1. c = CompareNumbers(a, b) BY <2>1 DEF CompareHeads
    <3>2. /\ HeadBefore(a, b) <=> NumberBefore(a, b)
          /\ HeadBefore(b, a) <=> NumberBefore(b, a)
      BY <2>1 DEF HeadBefore
    <3>. HIDE DEF c
    <3>. QED BY <1>1, <3>1, <3>2, CompareNumbersIsNumber
  <2>2. CASE ~(IsDigits(a) /\ IsDigits(b))
    <3>1. c = StringsCompare(a, b) BY <2>2 DEF CompareHeads
    <3>2. /\ HeadBefore(a, b) <=> Lex(a, b)
          /\ HeadBefore(b, a) <=> Lex(b, a)
      BY <2>2 DEF HeadBefore
    <3>. HIDE DEF c
    <3>. QED BY <1>1, <3>1, <3>2, StringsCompareIsLex
  <2>. QED BY <2>1, <2>2
<1>. HIDE DEF c
<1>. QED BY <1>2, <1>3 DEF c

\* f runs a loop: at a stop it has an answer, and elsewhere it goes on.
IsLoop(f, P, stop, ans, rest) == f = [p \in P |-> IF p \in stop THEN ans[p] ELSE f[rest[p]]]

\* A loop whose every turn makes something smaller computes a function.
LEMMA LoopEnds ==
    ASSUME NEW P, NEW stop, NEW ans, NEW rest, NEW size \in [P -> Nat],
           \A p \in P : p \notin stop => rest[p] \in P /\ size[rest[p]] < size[p]
    PROVE  \E f : IsLoop(f, P, stop, ans, rest)
<1>. DEFINE S(f, p) == IF p \in stop THEN ans[p] ELSE f[rest[p]]
            Good(k, f) == \A p \in P : size[p] < k => f[p] = S(f, p)
            T == {k \in Nat : ~\E f : Good(k, f)}
<1>0. \A p \in P : size[p] \in Nat OBVIOUS
<1>1. ASSUME T # {} PROVE FALSE
  <2>1. PICK k \in T : \A m \in T : k <= m
    <3>1. T \subseteq Nat OBVIOUS
    <3>. HIDE DEF T
    <3>. QED BY <1>1, <3>1, LeastNatural
  <2>2. k \in Nat /\ ~\E f : Good(k, f) BY <2>1
  <2>3. k # 0
    <3>1. \A f : Good(0, f) BY <1>0
    <3>. QED BY <2>2, <3>1
  <2>4. k - 1 \in Nat /\ ~(k <= k - 1) BY <2>2, <2>3
  <2>5. k - 1 \notin T BY <2>1, <2>4
  <2>6. PICK f : Good(k - 1, f) BY <2>4, <2>5
  <2>. DEFINE g == [p \in P |-> S(f, p)]
  <2>7. ASSUME NEW p \in P, size[p] < k PROVE g[p] = S(g, p)
    <3>1. g[p] = S(f, p) OBVIOUS
    <3>2. CASE p \in stop BY <3>1, <3>2
    <3>3. CASE p \notin stop
      <4>1. rest[p] \in P /\ size[rest[p]] < k - 1 BY <1>0, <2>2, <2>7, <3>3
      <4>2. g[rest[p]] = S(f, rest[p]) BY <4>1
      <4>3. f[rest[p]] = S(f, rest[p]) BY <2>6, <4>1
      <4>. HIDE DEF g
      <4>. QED BY <3>1, <3>3, <4>2, <4>3
    <3>. QED BY <3>2, <3>3
  <2>8. Good(k, g)
    <3>. HIDE DEF g, S
    <3>. QED BY <2>7
  <2>. HIDE DEF g, Good
  <2>. QED BY <2>2, <2>8
<1>2. \A k \in Nat : \E f : Good(k, f) BY <1>1
<1>. HIDE DEF S
<1>3. ASSUME NEW k \in Nat, NEW m \in Nat, NEW f, NEW g, Good(k, f), Good(m, g),
             NEW p \in P, size[p] < k, size[p] < m
      PROVE  f[p] = g[p]
  <2>. DEFINE U == {q \in P : size[q] < k /\ size[q] < m /\ f[q] # g[q]}
              V == {size[q] : q \in U}
  <2>. SUFFICES ASSUME f[p] # g[p] PROVE FALSE OBVIOUS
  <2>1. p \in U BY <1>3
  <2>2. V \subseteq Nat /\ V # {} BY <1>0, <2>1
  <2>3. PICK n \in V : \A v \in V : n <= v
    <3>. HIDE DEF V
    <3>. QED BY <2>2, LeastNatural
  <2>4. PICK q \in U : size[q] = n BY <2>3
  <2>5. q \in P /\ size[q] < k /\ size[q] < m /\ f[q] # g[q] /\ size[q] \in Nat BY <1>0, <2>4
  <2>6. f[q] = S(f, q) /\ g[q] = S(g, q) BY <1>3, <2>5
  <2>7. q \notin stop BY <2>5, <2>6 DEF S
  <2>. DEFINE r == rest[q]
  <2>8. r \in P /\ size[r] < size[q] /\ size[r] \in Nat BY <1>0, <2>5, <2>7
  <2>9. f[r] # g[r] BY <2>5, <2>6, <2>7 DEF S
  <2>. HIDE DEF r
  <2>10. size[r] < k /\ size[r] < m BY <1>3, <2>5, <2>8
  <2>11. r \in U BY <2>8, <2>9, <2>10
  <2>12. size[r] \in V BY <2>11
  <2>13. n <= size[r] BY <2>3, <2>12
  <2>. QED BY <2>4, <2>5, <2>8, <2>13
<1>. DEFINE G(k) == CHOOSE f : Good(k, f)
<1>4. \A k \in Nat : Good(k, G(k))
  <2>. HIDE DEF Good
  <2>. QED BY <1>2
<1>. HIDE DEF G
<1>. DEFINE h == [p \in P |-> G(size[p] + 1)[p]]
<1>5. ASSUME NEW p \in P PROVE h[p] = S(h, p)
  <2>. DEFINE n == size[p]
  <2>1. n \in Nat /\ n + 1 \in Nat /\ n < n + 1 BY <1>0
  <2>2. G(n + 1)[p] = S(G(n + 1), p) BY <1>4, <2>1
  <2>3. h[p] = G(n + 1)[p] OBVIOUS
  <2>4. CASE p \in stop BY <2>2, <2>3, <2>4 DEF S
  <2>5. CASE p \notin stop
    <3>. DEFINE r == rest[p]
                m == size[r]
    <3>1. r \in P /\ m < n /\ m \in Nat BY <1>0, <2>5
    <3>2. h[r] = G(m + 1)[r] BY <3>1
    <3>. HIDE DEF h, n, m, r
    <3>3. m + 1 \in Nat /\ m < m + 1 /\ m < n + 1 /\ n + 1 \in Nat BY <2>1, <3>1
    <3>4. Good(m + 1, G(m + 1)) /\ Good(n + 1, G(n + 1)) BY <1>4, <3>3
    <3>5. size[r] < m + 1 /\ size[r] < n + 1 BY <3>3 DEF m
    <3>6. G(m + 1)[r] = G(n + 1)[r]
      <4>. HIDE DEF Good
      <4>. QED BY <1>3, <3>1, <3>3, <3>4, <3>5
    <3>7. S(h, p) = h[r] /\ S(G(n + 1), p) = G(n + 1)[r] BY <2>5 DEF S, r
    <3>. QED BY <2>2, <2>3, <3>2, <3>6, <3>7
  <2>. QED BY <2>4, <2>5
<1>6. h = [p \in P |-> h[p]] OBVIOUS
<1>. HIDE DEF h
<1>7. h = [p \in P |-> S(h, p)] BY <1>5, <1>6
<1>8. IsLoop(h, P, stop, ans, rest) BY <1>7 DEF IsLoop, S
<1>. QED BY <1>8

\* CompareNames goes through two names chunk by chunk, until they differ or one runs out.
LEMMA CompareUnfolds ==
    ASSUME NEW a \in Names, NEW b \in Names
    PROVE  CompareNames(a, b) =
              IF a = <<>> \/ b = <<>> THEN Len(a) - Len(b)
              ELSE IF CompareHeads(HeadOf(a), HeadOf(b)) # 0 THEN CompareHeads(HeadOf(a), HeadOf(b))
              ELSE CompareNames(RestOf(a), RestOf(b))
<1>. DEFINE P == Names \X Names
            Out(p) == p[1] = <<>> \/ p[2] = <<>>
            C(p) == CompareHeads(HeadOf(p[1]), HeadOf(p[2]))
            D(p) == Len(p[1]) - Len(p[2])
            R(p) == <<RestOf(p[1]), RestOf(p[2])>>
            F(f) == [p \in P |-> IF Out(p) THEN D(p) ELSE IF C(p) # 0 THEN C(p) ELSE f[R(p)]]
            s == CHOOSE f : f = F(f)
            stop == {p \in P : Out(p) \/ C(p) # 0}
            ans == [p \in P |-> IF Out(p) THEN D(p) ELSE C(p)]
            rest == [p \in P |-> R(p)]
            size == [p \in P |-> Len(p[1])]
<1>1. \A x, y : CompareNames(x, y) = s[<<x, y>>] BY DEF CompareNames
<1>2. size \in [P -> Nat]
  <2>1. \A x \in Names : Len(x) \in Nat BY LenProperties DEF Names
  <2>2. \A p \in P : p[1] \in Names OBVIOUS
  <2>. QED BY <2>1, <2>2
<1>3. ASSUME NEW p \in P, ~Out(p) PROVE R(p) \in P /\ Len(R(p)[1]) < Len(p[1])
  <2>. DEFINE x == p[1]
              y == p[2]
  <2>1. x \in Names /\ y \in Names /\ x # <<>> /\ y # <<>> BY <1>3
  <2>2. R(p) = <<RestOf(x), RestOf(y)>> OBVIOUS
  <2>. HIDE DEF x, y, R
  <2>3. RestOf(x) \in Names /\ RestOf(y) \in Names BY <2>1, Chunk
  <2>4. Len(RestOf(x)) < Len(x)
    <3>1. /\ Len(x) \in Nat /\ HeadLength(x) \in 1 .. Len(x) /\ Len(RestOf(x)) = Len(x) - HeadLength(x)
      BY <2>1, Chunk
    <3>. QED BY <3>1
  <2>5. R(p) \in P /\ R(p)[1] = RestOf(x) BY <2>2, <2>3
  <2>. QED BY <2>4, <2>5 DEF x
<1>. HIDE DEF Out, C, D, R, P
<1>4. \A p \in P : p \notin stop => rest[p] \in P /\ size[rest[p]] < size[p]
  <2>. SUFFICES ASSUME NEW p \in P, p \notin stop PROVE rest[p] \in P /\ size[rest[p]] < size[p]
    OBVIOUS
  <2>1. ~Out(p) OBVIOUS
  <2>2. R(p) \in P /\ Len(R(p)[1]) < Len(p[1]) BY <1>3, <2>1
  <2>3. rest[p] = R(p) /\ size[p] = Len(p[1]) /\ size[R(p)] = Len(R(p)[1]) BY <2>2
  <2>. QED BY <2>2, <2>3
<1>. HIDE DEF s
<1>5. PICK f : IsLoop(f, P, stop, ans, rest)
  <2>. HIDE DEF stop, ans, rest, size
  <2>. QED BY <1>2, <1>4, LoopEnds
<1>6. f = F(f)
  <2>1. f = [p \in P |-> IF p \in stop THEN ans[p] ELSE f[rest[p]]] BY <1>5 DEF IsLoop
  <2>2. ASSUME NEW p \in P
        PROVE  (IF p \in stop THEN ans[p] ELSE f[rest[p]])
                  = IF Out(p) THEN D(p) ELSE IF C(p) # 0 THEN C(p) ELSE f[R(p)]
    OBVIOUS
  <2>. HIDE DEF stop, ans, rest
  <2>. QED BY <2>1, <2>2
<1>7. s = F(s)
  <2>. HIDE DEF F
  <2>. QED BY <1>6 DEF s
<1>8. ASSUME NEW p \in P PROVE s[p] = IF Out(p) THEN D(p) ELSE IF C(p) # 0 THEN C(p) ELSE s[R(p)]
  BY <1>7
<1>. DEFINE q == <<a, b>>
<1>9. q \in P /\ q[1] = a /\ q[2] = b BY DEF P
<1>. HIDE DEF q, F
<1>10. s[q] = IF Out(q) THEN D(q) ELSE IF C(q) # 0 THEN C(q) ELSE s[R(q)] BY <1>8, <1>9
<1>11. /\ Out(q) <=> a = <<>> \/ b = <<>>
       /\ D(q) = Len(a) - Len(b)
       /\ C(q) = CompareHeads(HeadOf(a), HeadOf(b))
       /\ R(q) = <<RestOf(a), RestOf(b)>>
  BY <1>9 DEF Out, D, C, R
<1>12. s[q] = CompareNames(a, b) /\ s[R(q)] = CompareNames(RestOf(a), RestOf(b))
  BY <1>1, <1>11 DEF q
<1>. QED BY <1>10, <1>11, <1>12

\* Only equal names compare equal, and turning two names around turns the answer around.
LEMMA NamesAreOrdered ==
    ASSUME NEW a \in Names, NEW b \in Names
    PROVE  /\ CompareNames(a, b) \in Int
           /\ CompareNames(a, b) < 0 <=> CompareNames(b, a) > 0
           /\ CompareNames(a, b) > 0 <=> CompareNames(b, a) < 0
           /\ CompareNames(a, b) = 0 <=> a = b
<1>. DEFINE Good(x, y) == /\ CompareNames(x, y) \in Int /\ CompareNames(y, x) \in Int
                          /\ CompareNames(x, y) < 0 <=> CompareNames(y, x) > 0
                          /\ CompareNames(x, y) > 0 <=> CompareNames(y, x) < 0
                          /\ CompareNames(x, y) = 0 <=> x = y
            T == {n \in Nat : \E x \in Names, y \in Names : Len(x) = n /\ ~Good(x, y)}
<1>0. \A x \in Names : Len(x) \in Nat BY LenProperties DEF Names
<1>1. ASSUME T # {} PROVE FALSE
  <2>1. PICK n \in T : \A m \in T : n <= m
    <3>1. T \subseteq Nat OBVIOUS
    <3>. HIDE DEF T
    <3>. QED BY <1>1, <3>1, LeastNatural
  <2>2. PICK x \in Names, y \in Names : Len(x) = n /\ ~Good(x, y) BY <2>1
  <2>3. CASE x = <<>> \/ y = <<>>
    <3>1. CompareNames(x, y) = Len(x) - Len(y) /\ CompareNames(y, x) = Len(y) - Len(x)
      BY <2>3, CompareUnfolds
    <3>2. Len(x) \in Nat /\ Len(y) \in Nat /\ (x = y => Len(x) = Len(y)) BY <1>0
    <3>3. Len(x) = Len(y) => x = y
      <4>1. Len(<<>>) = 0 OBVIOUS
      <4>2. (Len(x) = 0 => x = <<>>) /\ (Len(y) = 0 => y = <<>>) BY EmptySeq DEF Names
      <4>. QED BY <2>3, <4>1, <4>2
    <3>. DEFINE i == Len(x)
                k == Len(y)
                p == CompareNames(x, y)
                q == CompareNames(y, x)
    <3>. HIDE DEF i, k, p, q
    <3>4. p = i - k /\ q = k - i /\ i \in Nat /\ k \in Nat /\ (i = k <=> x = y)
      BY <3>1, <3>2, <3>3 DEF i, k, p, q
    <3>5. p \in Int /\ q \in Int /\ (p < 0 <=> q > 0) /\ (p > 0 <=> q < 0) /\ (p = 0 <=> x = y)
      BY <3>4
    <3>. QED BY <2>2, <3>5 DEF p, q
  <2>4. CASE x # <<>> /\ y # <<>>
    <3>. DEFINE hx == HeadOf(x)
                hy == HeadOf(y)
                rx == RestOf(x)
                ry == RestOf(y)
                c == CompareHeads(hx, hy)
                d == CompareHeads(hy, hx)
                p == CompareNames(rx, ry)
                q == CompareNames(ry, rx)
    <3>1. IsHead(hx) /\ IsHead(hy) BY <2>4, HeadIsHead
    <3>2. rx \in Names /\ ry \in Names /\ Len(rx) \in Nat /\ Len(rx) < n
      <4>1. /\ rx \in Names /\ ry \in Names /\ HeadLength(x) \in 1 .. Len(x)
            /\ Len(rx) = Len(x) - HeadLength(x) /\ Len(x) \in Nat
        BY <2>4, Chunk
      <4>. HIDE DEF rx, ry
      <4>. QED BY <1>0, <2>2, <4>1
    <3>3. CompareNames(x, y) = IF c # 0 THEN c ELSE p BY <2>4, CompareUnfolds
    <3>4. CompareNames(y, x) = IF d # 0 THEN d ELSE q BY <2>4, CompareUnfolds
    <3>5. hx = hy /\ rx = ry <=> x = y BY <2>4, ChunksDetermine
    <3>. HIDE DEF hx, hy, rx, ry
    <3>6. Good(rx, ry)
      <4>1. Len(rx) \notin T BY <2>1, <3>2
      <4>. QED BY <3>2, <4>1
    <3>7. /\ c \in Int /\ (c < 0 <=> HeadBefore(hx, hy)) /\ (c > 0 <=> HeadBefore(hy, hx))
          /\ (c = 0 <=> hx = hy)
      BY <3>1, HeadsAreOrdered
    <3>8. /\ d \in Int /\ (d < 0 <=> HeadBefore(hy, hx)) /\ (d > 0 <=> HeadBefore(hx, hy))
          /\ (d = 0 <=> hy = hx)
      BY <3>1, HeadsAreOrdered
    <3>9. p \in Int /\ q \in Int /\ (p < 0 <=> q > 0) /\ (p > 0 <=> q < 0) /\ (p = 0 <=> rx = ry)
      BY <3>6
    <3>. HIDE DEF c, d, p, q
    <3>10. CASE hx = hy
      <4>1. CompareNames(x, y) = p /\ CompareNames(y, x) = q BY <3>3, <3>4, <3>7, <3>8, <3>10
      <4>. QED BY <2>2, <3>5, <3>9, <3>10, <4>1
    <3>11. CASE hx # hy
      <4>1. CompareNames(x, y) = c /\ CompareNames(y, x) = d /\ c # 0 /\ d # 0
        BY <3>3, <3>4, <3>7, <3>8, <3>11
      <4>2. (c < 0 <=> d > 0) /\ (c > 0 <=> d < 0) /\ x # y BY <3>5, <3>7, <3>8, <3>11
      <4>. QED BY <2>2, <3>7, <3>8, <4>1, <4>2
    <3>. QED BY <3>10, <3>11
  <2>. QED BY <2>3, <2>4
<1>2. Len(a) \notin T /\ Len(a) \in Nat BY <1>0, <1>1
<1>3. Good(a, b) BY <1>2
<1>. QED BY <1>3

\* Nothing comes before the empty name, and it comes before every other.
LEMMA EmptyIsFirst ==
    ASSUME NEW x \in Names, NEW y \in Names
    PROVE  /\ CompareNames(x, y) < 0 => y # <<>>
           /\ x = <<>> /\ y # <<>> => CompareNames(x, y) < 0
<1>1. Len(x) \in Nat /\ Len(y) \in Nat /\ Len(<<>>) = 0 BY LenProperties DEF Names
<1>2. y # <<>> => Len(y) # 0 BY EmptySeq DEF Names
<1>3. x = <<>> \/ y = <<>> => CompareNames(x, y) = Len(x) - Len(y) BY CompareUnfolds
<1>4. ASSUME CompareNames(x, y) < 0, y = <<>> PROVE FALSE
  <2>1. CompareNames(x, y) = Len(x) - 0 BY <1>1, <1>3, <1>4
  <2>. QED BY <1>1, <1>4, <2>1
<1>5. ASSUME x = <<>>, y # <<>> PROVE CompareNames(x, y) < 0
  <2>1. CompareNames(x, y) = 0 - Len(y) BY <1>1, <1>3, <1>5
  <2>. QED BY <1>1, <1>2, <1>5, <2>1
<1>. QED BY <1>4, <1>5

\* The order of names is transitive.
LEMMA NamesAreTransitive ==
    ASSUME NEW a \in Names, NEW b \in Names, NEW c \in Names,
           CompareNames(a, b) < 0, CompareNames(b, c) < 0
    PROVE  CompareNames(a, c) < 0
<1>. DEFINE Good(x, y, z) == CompareNames(x, y) < 0 /\ CompareNames(y, z) < 0 => CompareNames(x, z) < 0
            T == {n \in Nat : \E x \in Names, y \in Names, z \in Names : Len(x) = n /\ ~Good(x, y, z)}
<1>0. \A x \in Names : Len(x) \in Nat BY LenProperties DEF Names
<1>1. ASSUME T # {} PROVE FALSE
  <2>1. PICK n \in T : \A m \in T : n <= m
    <3>1. T \subseteq Nat OBVIOUS
    <3>. HIDE DEF T
    <3>. QED BY <1>1, <3>1, LeastNatural
  <2>2. PICK x \in Names, y \in Names, z \in Names : Len(x) = n /\ ~Good(x, y, z) BY <2>1
  <2>3. CompareNames(x, y) < 0 /\ CompareNames(y, z) < 0 /\ ~(CompareNames(x, z) < 0) BY <2>2
  <2>4. y # <<>> /\ z # <<>> /\ x # <<>> BY <2>3, EmptyIsFirst
  <2>. DEFINE hx == HeadOf(x)
              hy == HeadOf(y)
              hz == HeadOf(z)
              rx == RestOf(x)
              ry == RestOf(y)
              rz == RestOf(z)
  <2>5. IsHead(hx) /\ IsHead(hy) /\ IsHead(hz) BY <2>4, HeadIsHead
  <2>6. rx \in Names /\ ry \in Names /\ rz \in Names /\ Len(rx) \in Nat /\ Len(rx) < n
    <3>1. /\ rx \in Names /\ ry \in Names /\ rz \in Names /\ HeadLength(x) \in 1 .. Len(x)
          /\ Len(rx) = Len(x) - HeadLength(x) /\ Len(x) \in Nat
      BY <2>4, Chunk
    <3>. HIDE DEF rx, ry, rz
    <3>. QED BY <1>0, <2>2, <3>1
  <2>7. /\ CompareNames(x, y) = IF CompareHeads(hx, hy) # 0 THEN CompareHeads(hx, hy) ELSE CompareNames(rx, ry)
        /\ CompareNames(y, z) = IF CompareHeads(hy, hz) # 0 THEN CompareHeads(hy, hz) ELSE CompareNames(ry, rz)
        /\ CompareNames(x, z) = IF CompareHeads(hx, hz) # 0 THEN CompareHeads(hx, hz) ELSE CompareNames(rx, rz)
    BY <2>4, CompareUnfolds
  <2>. HIDE DEF hx, hy, hz, rx, ry, rz
  <2>8. Good(rx, ry, rz)
    <3>1. Len(rx) \notin T BY <2>1, <2>6
    <3>. QED BY <2>6, <3>1
  <2>9. /\ CompareHeads(hx, hy) < 0 <=> HeadBefore(hx, hy)
        /\ CompareHeads(hx, hy) = 0 <=> hx = hy
        /\ CompareHeads(hy, hz) < 0 <=> HeadBefore(hy, hz)
        /\ CompareHeads(hy, hz) = 0 <=> hy = hz
        /\ CompareHeads(hx, hz) < 0 <=> HeadBefore(hx, hz)
        /\ CompareHeads(hx, hz) = 0 <=> hx = hz
    BY <2>5, HeadsAreOrdered
  <2>10. HeadBefore(hx, hy) /\ HeadBefore(hy, hz) => HeadBefore(hx, hz) BY <2>5, HeadIsTransitive
  <2>11. /\ HeadBefore(hx, hy) \/ (hx = hy /\ CompareNames(rx, ry) < 0)
         /\ HeadBefore(hy, hz) \/ (hy = hz /\ CompareNames(ry, rz) < 0)
         /\ ~(HeadBefore(hx, hz) \/ (hx = hz /\ CompareNames(rx, rz) < 0))
    <3>1. HeadBefore(hx, hy) \/ (hx = hy /\ CompareNames(rx, ry) < 0) BY <2>3, <2>7, <2>9
    <3>2. HeadBefore(hy, hz) \/ (hy = hz /\ CompareNames(ry, rz) < 0) BY <2>3, <2>7, <2>9
    <3>3. ~HeadBefore(hx, hz)
      <4>. SUFFICES ASSUME HeadBefore(hx, hz) PROVE FALSE OBVIOUS
      <4>1. CompareHeads(hx, hz) < 0 BY <2>9
      <4>2. CompareHeads(hx, hz) # 0 BY <4>1
      <4>. QED BY <2>3, <2>7, <4>1, <4>2
    <3>4. ~(hx = hz /\ CompareNames(rx, rz) < 0) BY <2>3, <2>7, <2>9
    <3>. QED BY <3>1, <3>2, <3>3, <3>4
  <2>12. CASE hx = hy /\ hy = hz BY <2>8, <2>10, <2>11, <2>12
  <2>13. CASE hx = hy /\ hy # hz BY <2>11, <2>13
  <2>14. CASE hx # hy /\ hy = hz BY <2>11, <2>14
  <2>15. CASE hx # hy /\ hy # hz BY <2>10, <2>11, <2>15
  <2>. QED BY <2>12, <2>13, <2>14, <2>15
<1>2. Len(a) \notin T /\ Len(a) \in Nat BY <1>0, <1>1
<1>3. Good(a, b, c) BY <1>2
<1>. QED BY <1>3

\* A list of hosts that is not empty has a first one.
LEMMA HeadsExist ==
    ASSUME NEW S, S \subseteq Names, IsFiniteSet(S), S # {}
    PROVE  Heads(S) # {}
<1>. DEFINE Bad(Q) == Q \subseteq Names /\ IsFiniteSet(Q) /\ Q # {} /\ Heads(Q) = {}
            T == {n \in Nat : \E Q : Bad(Q) /\ Cardinality(Q) = n}
<1>1. ASSUME T # {} PROVE FALSE
  <2>1. PICK n \in T : \A m \in T : n <= m
    <3>1. T \subseteq Nat OBVIOUS
    <3>. HIDE DEF T
    <3>. QED BY <1>1, <3>1, LeastNatural
  <2>2. PICK Q : Bad(Q) /\ Cardinality(Q) = n BY <2>1
  <2>3. PICK x \in Q : TRUE BY <2>2
  <2>. DEFINE R == Q \ {x}
  <2>4. IsFiniteSet(R) /\ Cardinality(R) = n - 1 /\ n \in Nat /\ Cardinality(R) \in Nat
    BY <2>1, <2>2, <2>3, FS_RemoveElement, FS_CardinalityType
  <2>5. x \in Names /\ R \subseteq Names /\ Q = R \cup {x} BY <2>2, <2>3
  <2>6. \A o \in Q : ~(CompareNames(o, x) >= 0) => o \in R
    <3>1. CompareNames(x, x) = 0 BY <2>5, NamesAreOrdered
    <3>. QED BY <3>1
  <2>7. CASE R = {}
    <3>1. x \in Heads(Q) BY <2>3, <2>6, <2>7 DEF Heads
    <3>. QED BY <2>2, <3>1
  <2>8. CASE R # {}
    <3>. HIDE DEF R
    <3>1. Heads(R) # {}
      <4>1. ~(n <= n - 1) BY <2>4
      <4>2. n - 1 \notin T BY <2>1, <4>1
      <4>. QED BY <2>4, <2>5, <2>8, <4>2
    <3>2. PICK h \in R : \A o \in R : CompareNames(o, h) >= 0 BY <3>1 DEF Heads
    <3>3. h \in Names /\ h \in Q BY <2>5, <3>2
    <3>4. CASE CompareNames(x, h) < 0
      <4>1. ASSUME NEW o \in R PROVE CompareNames(o, x) >= 0
        <5>. SUFFICES ASSUME ~(CompareNames(o, x) >= 0) PROVE FALSE OBVIOUS
        <5>1. o \in Names BY <2>5
        <5>2. CompareNames(o, x) \in Int /\ CompareNames(o, h) \in Int
          BY <2>5, <3>3, <5>1, NamesAreOrdered
        <5>3. CompareNames(o, x) < 0 BY <5>2
        <5>4. CompareNames(o, h) < 0 BY <2>5, <3>3, <3>4, <5>1, <5>3, NamesAreTransitive
        <5>. QED BY <3>2, <5>2, <5>4
      <4>2. x \in Heads(Q) BY <2>3, <2>6, <4>1 DEF Heads
      <4>. QED BY <2>2, <4>2
    <3>5. CASE ~(CompareNames(x, h) < 0)
      <4>1. CompareNames(x, h) \in Int BY <2>5, <3>3, NamesAreOrdered
      <4>2. CompareNames(x, h) >= 0 BY <3>5, <4>1
      <4>3. h \in Heads(Q) BY <2>5, <3>2, <3>3, <4>2 DEF Heads
      <4>. QED BY <2>2, <4>3
    <3>. QED BY <3>4, <3>5
  <2>. QED BY <2>7, <2>8
<1>2. Cardinality(S) \notin T /\ Cardinality(S) \in Nat BY <1>1, FS_CardinalityType
<1>. QED BY <1>2

\* The first host of a list comes before every other.
LEMMA HeadsAreFirst ==
    ASSUME NEW S, S \subseteq Names, NEW h \in Heads(S), NEW o \in S, o # h
    PROVE  CompareNames(h, o) < 0
<1>1. h \in Names /\ o \in Names /\ CompareNames(o, h) >= 0 BY DEF Heads
<1>2. CompareNames(o, h) \in Int /\ CompareNames(o, h) # 0 BY <1>1, NamesAreOrdered
<1>3. CompareNames(o, h) > 0 BY <1>1, <1>2
<1>. QED BY <1>1, <1>3, NamesAreOrdered

-----------------------------------------------------------------------------
(* The order of the names is the one of the reference.                     *)

\* The values of the first digits of a number.
Values(f, s) ==
    /\ f \in [0 .. Len(s) -> Nat] /\ f[0] = 0
    /\ \A k \in 1 .. Len(s) : f[k] = 10 * f[k - 1] + (s[k] - 48) /\ s[k] - 48 \in 0 .. 9

\* The values of the first digits exist.
LEMMA ValuesExist ==
    ASSUME NEW n \in Nat, NEW r \in [1 .. n -> Int]
    PROVE  \E f \in [0 .. n -> Int] : f[0] = 0 /\ \A i \in 1 .. n : f[i] = 10 * f[i - 1] + r[i]
<1>. DEFINE Count(k, f) == /\ f \in [0 .. k -> Int] /\ f[0] = 0
                           /\ \A i \in 1 .. k : f[i] = 10 * f[i - 1] + r[i]
            T == {k \in 0 .. n : ~\E f : Count(k, f)}
<1>1. ASSUME T # {} PROVE FALSE
  <2>1. T \subseteq Nat OBVIOUS
  <2>2. PICK k \in T : \A m \in T : k <= m
    <3>. HIDE DEF T
    <3>. QED BY <1>1, <2>1, LeastNatural
  <2>3. CASE k = 0
    <3>. DEFINE f == [i \in 0 .. 0 |-> 0]
    <3>1. Count(0, f) OBVIOUS
    <3>. QED BY <2>2, <2>3, <3>1
  <2>4. CASE k # 0
    <3>1. k - 1 \in 0 .. n /\ k \in 1 .. n /\ ~(k <= k - 1) BY <2>2, <2>4
    <3>2. k - 1 \notin T BY <2>2, <3>1
    <3>3. PICK f : Count(k - 1, f) BY <3>1, <3>2
    <3>. DEFINE new == 10 * f[k - 1] + r[k]
                g == [i \in 0 .. k |-> IF i = k THEN new ELSE f[i]]
    <3>4. Count(k, g)
      <4>1. f[k - 1] \in Int /\ r[k] \in Int BY <3>1, <3>3
      <4>2. new \in Int BY <4>1
      <4>3. g \in [0 .. k -> Int]
        <5>. HIDE DEF new
        <5>. QED BY <3>1, <3>3, <4>2
      <4>4. g[0] = 0 BY <2>4, <3>1, <3>3
      <4>5. ASSUME NEW i \in 1 .. k PROVE g[i] = 10 * g[i - 1] + r[i]
        <5>1. i \in 0 .. k /\ i - 1 \in 0 .. k /\ i - 1 # k BY <3>1
        <5>2. g[i - 1] = f[i - 1] BY <5>1
        <5>3. CASE i = k BY <5>1, <5>2, <5>3
        <5>4. CASE i # k
          <6>1. i \in 1 .. k - 1 /\ g[i] = f[i] BY <3>1, <5>1, <5>4
          <6>. QED BY <3>3, <5>2, <6>1
        <5>. QED BY <5>3, <5>4
      <4>. HIDE DEF g
      <4>. QED BY <4>3, <4>4, <4>5
    <3>. HIDE DEF g
    <3>. QED BY <2>2, <3>4
  <2>. QED BY <2>3, <2>4
<1>2. n \notin T BY <1>1
<1>3. \E f : Count(n, f) BY <1>2
<1>. QED BY <1>3

\* The value of a number is reached digit by digit.
LEMMA ValueUnfolds ==
    ASSUME NEW s \in Names, IsDigits(s)
    PROVE  \E f : Values(f, s) /\ Value(s) = f[Len(s)]
<1>. DEFINE n == Len(s)
            F(f) == [k \in 0 .. n |-> IF k = 0 THEN 0 ELSE 10 * f[k - 1] + (s[k] - 48)]
            v == CHOOSE f : f = F(f)
            r == [k \in 1 .. n |-> s[k] - 48]
<1>1. Value(s) = v[n] BY DEF Value
<1>2. n \in Nat /\ DOMAIN s = 1 .. n BY LenProperties DEF Names
<1>3. \A k \in 1 .. n : s[k] - 48 \in 0 .. 9 BY <1>2 DEF IsDigits, IsDigit
<1>. HIDE DEF n
<1>4. r \in [1 .. n -> Int] /\ \A k \in 1 .. n : r[k] = s[k] - 48
  <2>1. \A k \in 1 .. n : s[k] - 48 \in Int BY <1>3
  <2>. QED BY <2>1
<1>. HIDE DEF r
<1>5. PICK f \in [0 .. n -> Int] : f[0] = 0 /\ \A k \in 1 .. n : f[k] = 10 * f[k - 1] + r[k]
  BY <1>2, <1>4, ValuesExist
<1>6. f = F(f)
  <2>1. \A k \in 0 .. n : f[k] = IF k = 0 THEN 0 ELSE 10 * f[k - 1] + (s[k] - 48)
    <3>1. \A k \in 0 .. n : k = 0 \/ k \in 1 .. n BY <1>2
    <3>. QED BY <1>4, <1>5, <3>1, Zenon
  <2>. QED BY <1>5, <2>1
<1>7. v = F(v)
  <2>. HIDE DEF F
  <2>. QED BY <1>6
<1>. HIDE DEF v
<1>8. /\ v = [k \in 0 .. n |-> v[k]]
      /\ \A k \in 0 .. n : v[k] = IF k = 0 THEN 0 ELSE 10 * v[k - 1] + (s[k] - 48)
  BY <1>7
<1>. HIDE DEF F
<1>9. v[0] = 0 /\ \A k \in 1 .. n : v[k] = 10 * v[k - 1] + (s[k] - 48)
  <2>1. 0 \in 0 .. n /\ \A k \in 1 .. n : k \in 0 .. n /\ k # 0 BY <1>2
  <2>. QED BY <1>8, <2>1
<1>. DEFINE T == {k \in 0 .. n : v[k] \notin Nat}
<1>10. T = {}
  <2>. SUFFICES ASSUME T # {} PROVE FALSE OBVIOUS
  <2>1. T \subseteq Nat BY <1>2
  <2>2. PICK k \in T : \A m \in T : k <= m
    <3>. HIDE DEF T
    <3>. QED BY <2>1, LeastNatural
  <2>3. k # 0 BY <1>9, <2>2
  <2>4. k - 1 \in 0 .. n /\ k \in 1 .. n /\ ~(k <= k - 1) BY <1>2, <2>2, <2>3
  <2>5. v[k - 1] \in Nat BY <2>2, <2>4
  <2>6. s[k] - 48 \in 0 .. 9 BY <1>3, <2>4
  <2>7. v[k] = 10 * v[k - 1] + (s[k] - 48) BY <1>9, <2>4
  <2>8. v[k] \in Nat
    <3>. DEFINE u == v[k - 1]
                x == s[k] - 48
    <3>1. u \in Nat /\ x \in 0 .. 9 /\ v[k] = 10 * u + x BY <2>5, <2>6, <2>7
    <3>. HIDE DEF u, x
    <3>2. 10 * u + x \in Nat BY <3>1
    <3>. QED BY <3>1, <3>2
  <2>. QED BY <2>2, <2>8
<1>11. \A k \in 0 .. n : v[k] \in Nat BY <1>10
<1>12. v \in [0 .. n -> Nat] BY <1>8, <1>11
<1>13. Values(v, s) BY <1>3, <1>9, <1>12 DEF n, Values
<1>. QED BY <1>1, <1>13 DEF n

\* What is less is less with as many digits more.
LEMMA LessStaysLess ==
    ASSUME NEW a \in Names, NEW b \in Names, NEW f, NEW g, Values(f, a), Values(g, b),
           NEW i \in 0 .. Len(a), NEW j \in 0 .. Len(b), NEW r \in Nat,
           i + r <= Len(a), j + r <= Len(b), f[i] < g[j]
    PROVE  f[i + r] < g[j + r]
<1>. DEFINE T == {k \in 0 .. r : ~(f[i + k] < g[j + k])}
            m == Len(a)
            n == Len(b)
<1>0. /\ m \in Nat /\ n \in Nat /\ i \in 0 .. m /\ j \in 0 .. n /\ i + r <= m /\ j + r <= n
  BY LenProperties DEF Names
<1>1. /\ f \in [0 .. m -> Nat] /\ g \in [0 .. n -> Nat]
      /\ \A k \in 1 .. m : f[k] = 10 * f[k - 1] + (a[k] - 48) /\ a[k] - 48 \in 0 .. 9
      /\ \A k \in 1 .. n : g[k] = 10 * g[k - 1] + (b[k] - 48) /\ b[k] - 48 \in 0 .. 9
  BY DEF Values
<1>. HIDE DEF m, n
<1>2. T = {}
  <2>. SUFFICES ASSUME T # {} PROVE FALSE OBVIOUS
  <2>1. T \subseteq Nat OBVIOUS
  <2>2. PICK k \in T : \A x \in T : k <= x
    <3>. HIDE DEF T
    <3>. QED BY <2>1, LeastNatural
  <2>3. k \in 0 .. r /\ ~(f[i + k] < g[j + k]) BY <2>2
  <2>4. k # 0
    <3>1. i + 0 = i /\ j + 0 = j BY <1>0
    <3>. QED BY <2>3, <3>1
  <2>5. k - 1 \in 0 .. r /\ ~(k <= k - 1) BY <2>3, <2>4
  <2>6. f[i + (k - 1)] < g[j + (k - 1)] BY <2>2, <2>5
  <2>. DEFINE p == i + k
              q == j + k
  <2>7. /\ p \in 1 .. m /\ q \in 1 .. n /\ p - 1 \in 0 .. m /\ q - 1 \in 0 .. n
        /\ i + (k - 1) = p - 1 /\ j + (k - 1) = q - 1
    BY <1>0, <2>3, <2>4
  <2>8. f[p - 1] < g[q - 1] /\ ~(f[p] < g[q]) BY <2>3, <2>6, <2>7
  <2>. HIDE DEF p, q
  <2>9. /\ f[p - 1] \in Nat /\ g[q - 1] \in Nat
        /\ f[p] = 10 * f[p - 1] + (a[p] - 48) /\ a[p] - 48 \in 0 .. 9
        /\ g[q] = 10 * g[q - 1] + (b[q] - 48) /\ b[q] - 48 \in 0 .. 9
    BY <1>1, <2>7
  <2>. DEFINE u == f[p - 1]
              w == g[q - 1]
              x == a[p] - 48
              y == b[q] - 48
  <2>10. /\ u \in Nat /\ w \in Nat /\ x \in 0 .. 9 /\ y \in 0 .. 9 /\ u < w
         /\ ~(10 * u + x < 10 * w + y)
    BY <2>8, <2>9
  <2>. HIDE DEF u, w, x, y
  <2>. QED BY <2>10
<1>3. r \in 0 .. r OBVIOUS
<1>. QED BY <1>2, <1>3

\* Behind i digits of a and j digits of b that count the same, r digits are the same.
Aligned(f, a, i, g, b, j, r) ==
    /\ a \in Names /\ b \in Names /\ Values(f, a) /\ Values(g, b)
    /\ i \in 0 .. Len(a) /\ j \in 0 .. Len(b) /\ r \in Nat
    /\ i + r <= Len(a) /\ j + r <= Len(b) /\ f[i] = g[j]
    /\ \A k \in 1 .. r : a[i + k] = b[j + k]

\* Numbers with the same digits have the same value.
LEMMA SameDigits ==
    ASSUME NEW f, NEW a, NEW i, NEW g, NEW b, NEW j, NEW r, Aligned(f, a, i, g, b, j, r)
    PROVE  f[i + r] = g[j + r]
<1>. USE DEF Aligned
<1>. DEFINE T == {k \in 0 .. r : f[i + k] # g[j + k]}
            m == Len(a)
            n == Len(b)
<1>0. /\ m \in Nat /\ n \in Nat /\ i \in 0 .. m /\ j \in 0 .. n /\ i + r <= m /\ j + r <= n
  BY LenProperties DEF Names
<1>1. /\ \A k \in 1 .. m : f[k] = 10 * f[k - 1] + (a[k] - 48)
      /\ \A k \in 1 .. n : g[k] = 10 * g[k - 1] + (b[k] - 48)
  BY DEF Values
<1>. HIDE DEF m, n
<1>2. T = {}
  <2>. SUFFICES ASSUME T # {} PROVE FALSE OBVIOUS
  <2>1. T \subseteq Nat OBVIOUS
  <2>2. PICK k \in T : \A x \in T : k <= x
    <3>. HIDE DEF T
    <3>. QED BY <2>1, LeastNatural
  <2>3. k \in 0 .. r /\ f[i + k] # g[j + k] BY <2>2
  <2>4. k # 0
    <3>1. i + 0 = i /\ j + 0 = j BY <1>0
    <3>. QED BY <2>3, <3>1
  <2>5. k - 1 \in 0 .. r /\ ~(k <= k - 1) /\ k \in 1 .. r BY <2>3, <2>4
  <2>6. f[i + (k - 1)] = g[j + (k - 1)] BY <2>2, <2>5
  <2>. DEFINE p == i + k
              q == j + k
  <2>7. /\ p \in 1 .. m /\ q \in 1 .. n
        /\ i + (k - 1) = p - 1 /\ j + (k - 1) = q - 1
    BY <1>0, <2>3, <2>4
  <2>8. f[p - 1] = g[q - 1] /\ f[p] # g[q] /\ a[p] = b[q] BY <2>3, <2>5, <2>6, <2>7
  <2>. HIDE DEF p, q
  <2>9. f[p] = 10 * f[p - 1] + (a[p] - 48) /\ g[q] = 10 * g[q - 1] + (b[q] - 48) BY <1>1, <2>7
  <2>. QED BY <2>8, <2>9
<1>3. r \in 0 .. r OBVIOUS
<1>. QED BY <1>2, <1>3

\* TrimZeros drops the zeros on the left and nothing else.
LEMMA TrimShape ==
    ASSUME NEW s \in Names
    PROVE  \E z \in 0 .. Len(s) :
              /\ \A i \in 1 .. z : s[i] = 48
              /\ z < Len(s) => s[z + 1] # 48
              /\ Len(TrimZeros(s)) = Len(s) - z
              /\ \A k \in 1 .. Len(s) - z : TrimZeros(s)[k] = s[z + k]
<1>. DEFINE others == {i \in DOMAIN s : s[i] # 48}
            n == Len(s)
            d == Min(others)
            t == TrimZeros(s)
<1>1. n \in Nat /\ DOMAIN s = 1 .. n BY LenProperties DEF Names
<1>2. \A i \in 1 .. n : s[i] \in 0 .. 255 BY ElementOfSeq DEF Names
<1>3. CASE others = {}
  <2>1. t = <<>> BY <1>3 DEF TrimZeros
  <2>2. Len(t) = 0 BY <2>1
  <2>3. \A i \in 1 .. n : s[i] = 48 BY <1>1, <1>3
  <2>. HIDE DEF t, n
  <2>4. n \in 0 .. n /\ ~(n < n) /\ n - n = 0 /\ 1 .. 0 = {} BY <1>1
  <2>. QED BY <2>2, <2>3, <2>4 DEF t, n
<1>4. CASE others # {}
  <2>1. d \in others /\ \A i \in others : d <= i
    <3>1. others \subseteq Nat BY <1>1
    <3>. HIDE DEF others
    <3>. QED BY <1>4, <3>1, MinIsLeast
  <2>2. t = SubSeq(s, d, n) BY <1>4 DEF TrimZeros
  <2>3. d \in 1 .. n /\ s[d] # 48 BY <1>1, <2>1
  <2>. HIDE DEF t, d
  <2>4. \A i \in 1 .. d - 1 : s[i] = 48
    <3>1. \A i \in 1 .. d - 1 : i \in 1 .. n /\ ~(d <= i) BY <1>1, <2>3
    <3>. QED BY <1>1, <2>1, <3>1
  <2>. HIDE DEF n, others
  <2>5. d \in Int /\ n \in Int /\ \A i \in d .. n : s[i] \in 0 .. 255 BY <1>1, <1>2, <2>3
  <2>6. /\ Len(t) = IF d <= n THEN n - d + 1 ELSE 0
        /\ \A i \in 1 .. n - d + 1 : t[i] = s[d + i - 1]
    BY <2>2, <2>5, SubSeqProperties
  <2>. DEFINE z == d - 1
  <2>7. /\ z \in 0 .. n /\ z + 1 = d /\ n - z = n - d + 1 /\ d <= n
        /\ \A i \in 1 .. n - z : d + i - 1 = z + i
    BY <1>1, <2>3
  <2>8. \A i \in 1 .. z : s[i] = 48 BY <2>4
  <2>. HIDE DEF z
  <2>9. Len(t) = n - z /\ \A i \in 1 .. n - z : t[i] = s[z + i] BY <2>6, <2>7
  <2>. QED BY <2>3, <2>7, <2>8, <2>9 DEF t, n
<1>. QED BY <1>3, <1>4

\* The zeros on the left count nothing.
LEMMA ZerosCountNothing ==
    ASSUME NEW s \in Names, NEW f, Values(f, s), NEW z \in 0 .. Len(s),
           \A i \in 1 .. z : s[i] = 48
    PROVE  f[z] = 0
<1>. DEFINE n == Len(s)
            T == {k \in 0 .. z : f[k] # 0}
<1>1. n \in Nat /\ z \in 0 .. n BY LenProperties DEF Names
<1>2. f[0] = 0 /\ \A k \in 1 .. n : f[k] = 10 * f[k - 1] + (s[k] - 48) BY DEF Values
<1>. HIDE DEF n
<1>3. T = {}
  <2>. SUFFICES ASSUME T # {} PROVE FALSE OBVIOUS
  <2>1. T \subseteq Nat OBVIOUS
  <2>2. PICK k \in T : \A x \in T : k <= x
    <3>. HIDE DEF T
    <3>. QED BY <2>1, LeastNatural
  <2>3. k \in 0 .. z /\ f[k] # 0 /\ k # 0 BY <1>2, <2>2
  <2>4. k - 1 \in 0 .. z /\ ~(k <= k - 1) /\ k \in 1 .. z /\ k \in 1 .. n BY <1>1, <2>3
  <2>5. f[k - 1] = 0 BY <2>2, <2>4
  <2>6. f[k] = 10 * f[k - 1] + (s[k] - 48) /\ s[k] = 48 BY <1>2, <2>4
  <2>. QED BY <2>3, <2>5, <2>6
<1>4. z \in 0 .. z BY <1>1
<1>. QED BY <1>3, <1>4

\* A number that counts something counts something with more digits.
LEMMA CountsOn ==
    ASSUME NEW s \in Names, NEW f, Values(f, s), NEW i \in 0 .. Len(s), NEW j \in i .. Len(s),
           f[i] > 0
    PROVE  f[j] > 0
<1>. DEFINE n == Len(s)
            T == {k \in i .. j : ~(f[k] > 0)}
<1>1. n \in Nat /\ i \in 0 .. n /\ j \in i .. n BY LenProperties DEF Names
<1>2. /\ f \in [0 .. n -> Nat]
      /\ \A k \in 1 .. n : f[k] = 10 * f[k - 1] + (s[k] - 48) /\ s[k] - 48 \in 0 .. 9
  BY DEF Values
<1>. HIDE DEF n
<1>3. T = {}
  <2>. SUFFICES ASSUME T # {} PROVE FALSE OBVIOUS
  <2>1. T \subseteq Nat BY <1>1
  <2>2. PICK k \in T : \A x \in T : k <= x
    <3>. HIDE DEF T
    <3>. QED BY <2>1, LeastNatural
  <2>3. k \in i .. j /\ ~(f[k] > 0) /\ k # i BY <2>2
  <2>4. k - 1 \in i .. j /\ ~(k <= k - 1) /\ k \in 1 .. n /\ k - 1 \in 0 .. n BY <1>1, <2>3
  <2>5. f[k - 1] > 0 BY <2>2, <2>4
  <2>. DEFINE u == f[k - 1]
              x == s[k] - 48
  <2>6. u \in Nat /\ u > 0 /\ x \in 0 .. 9 /\ f[k] = 10 * u + x BY <1>2, <2>4, <2>5
  <2>. HIDE DEF u, x
  <2>7. 10 * u + x > 0 BY <2>6
  <2>. QED BY <2>3, <2>6, <2>7
<1>4. j \in i .. j BY <1>1
<1>. QED BY <1>3, <1>4

\* The order of bytes is the one of the reference.
LEMMA LexIsTextBefore ==
    ASSUME NEW a \in Names, NEW b \in Names, Lex(a, b)
    PROVE  TextBefore(a, b)
<1>. DEFINE m == Len(a)
            n == Len(b)
<1>1. PICK i \in Nat \ {0} : At(a, i) < At(b, i) /\ \A j \in 1 .. i - 1 : At(a, j) = At(b, j)
  BY DEF Lex
<1>2. m \in Nat /\ n \in Nat /\ DOMAIN a = 1 .. m /\ DOMAIN b = 1 .. n BY LenProperties DEF Names
<1>3. (\A k \in 1 .. m : a[k] \in 0 .. 255) /\ \A k \in 1 .. n : b[k] \in 0 .. 255
  BY ElementOfSeq DEF Names
<1>4. /\ \A k \in 1 .. m : At(a, k) = a[k]
      /\ \A k \in 1 .. n : At(b, k) = b[k]
      /\ i \notin 1 .. m => At(a, i) = -1
      /\ i \notin 1 .. n => At(b, i) = -1
  BY DEF At
<1>. HIDE DEF m, n
<1>5. At(a, i) >= -1
  <2>1. CASE i \in 1 .. m
    <3>1. a[i] \in 0 .. 255 /\ At(a, i) = a[i] BY <1>3, <1>4, <2>1
    <3>. QED BY <3>1
  <2>2. CASE i \notin 1 .. m BY <1>4, <2>2
  <2>. QED BY <2>1, <2>2
<1>6. i \in 1 .. n
  <2>. SUFFICES ASSUME i \notin 1 .. n PROVE FALSE OBVIOUS
  <2>1. At(b, i) = -1 /\ At(a, i) \in Int BY <1>4, AtIsNumber
  <2>. QED BY <1>1, <1>5, <2>1
<1>7. CASE i \in 1 .. m
  <2>1. a[i] < b[i] BY <1>1, <1>4, <1>6, <1>7
  <2>2. \A j \in 1 .. i - 1 : j \in 1 .. m /\ j \in 1 .. n BY <1>2, <1>6, <1>7
  <2>3. \A j \in 1 .. i - 1 : a[j] = b[j] BY <1>1, <1>4, <2>2
  <2>4. i \in DOMAIN a \cap DOMAIN b BY <1>2, <1>6, <1>7
  <2>. QED BY <2>1, <2>3, <2>4 DEF TextBefore
<1>8. CASE i \notin 1 .. m
  <2>1. m < n /\ \A j \in 1 .. m : j \in 1 .. i - 1 /\ j \in 1 .. n BY <1>2, <1>6, <1>8
  <2>2. \A j \in 1 .. m : a[j] = b[j] BY <1>1, <1>4, <2>1
  <2>. QED BY <1>2, <2>1, <2>2 DEF TextBefore, m, n
<1>. QED BY <1>7, <1>8

\* Comparing digits without converting them compares the values, and the text in a tie.
LEMMA NumbersByValue ==
    ASSUME NEW a \in Names, NEW b \in Names, IsDigits(a), IsDigits(b), NumberBefore(a, b)
    PROVE  /\ Value(a) \in Nat /\ Value(b) \in Nat
           /\ Value(a) < Value(b) \/ (Value(a) = Value(b) /\ Lex(a, b))
<1>. DEFINE m == Len(a)
            n == Len(b)
            na == TrimZeros(a)
            nb == TrimZeros(b)
<1>1. PICK f : Values(f, a) /\ Value(a) = f[m] BY ValueUnfolds
<1>2. PICK g : Values(g, b) /\ Value(b) = g[n] BY ValueUnfolds
<1>3. m \in Nat /\ n \in Nat BY LenProperties DEF Names
<1>4. /\ f \in [0 .. m -> Nat]
      /\ \A k \in 1 .. m : f[k] = 10 * f[k - 1] + (a[k] - 48) /\ a[k] - 48 \in 0 .. 9
  BY <1>1 DEF Values
<1>5. /\ g \in [0 .. n -> Nat]
      /\ \A k \in 1 .. n : g[k] = 10 * g[k - 1] + (b[k] - 48) /\ b[k] - 48 \in 0 .. 9
  BY <1>2 DEF Values
<1>6. PICK y \in 0 .. m : /\ \A i \in 1 .. y : a[i] = 48
                          /\ y < m => a[y + 1] # 48
                          /\ Len(na) = m - y
                          /\ \A k \in 1 .. m - y : na[k] = a[y + k]
  BY TrimShape
<1>7. PICK z \in 0 .. n : /\ \A i \in 1 .. z : b[i] = 48
                          /\ z < n => b[z + 1] # 48
                          /\ Len(nb) = n - z
                          /\ \A k \in 1 .. n - z : nb[k] = b[z + k]
  BY TrimShape
<1>8. f[y] = 0 /\ g[z] = 0
  <2>1. f[y] = 0 BY <1>1, <1>6, ZerosCountNothing
  <2>2. g[z] = 0 BY <1>2, <1>7, ZerosCountNothing
  <2>. QED BY <2>1, <2>2
<1>9. f[m] \in Nat /\ g[n] \in Nat
  <2>. HIDE DEF m, n
  <2>1. m \in 0 .. m /\ n \in 0 .. n BY <1>3
  <2>. QED BY <1>4, <1>5, <2>1
<1>10. Len(na) < Len(nb) \/ (Len(na) = Len(nb) /\ Lex(na, nb)) \/ (na = nb /\ Lex(a, b))
  BY DEF NumberBefore
<1>. HIDE DEF m, n, na, nb
<1>11. CASE Len(na) < Len(nb)
  <2>. DEFINE r == m - y
              j == n - r
  <2>1. /\ r \in Nat /\ j \in 0 .. n /\ j \in z + 1 .. n /\ z < n /\ z + 1 \in 1 .. n /\ z + 1 \in 0 .. n
        /\ (z + 1) - 1 = z /\ y + r = m /\ j + r = n /\ y + r <= m /\ j + r <= n
    BY <1>3, <1>6, <1>7, <1>11
  <2>. HIDE DEF r, j
  <2>2. g[z + 1] > 0
    <3>. DEFINE x == b[z + 1] - 48
    <3>1. g[z + 1] = 10 * g[z] + x /\ x \in 0 .. 9 BY <1>5, <2>1
    <3>2. x # 0 BY <1>7, <2>1, <3>1
    <3>. HIDE DEF x
    <3>. QED BY <1>8, <3>1, <3>2
  <2>3. g[j] > 0 BY <1>2, <2>1, <2>2, CountsOn DEF n
  <2>4. f[y] < g[j] /\ g[j] \in Nat BY <1>5, <1>8, <2>1, <2>3
  <2>5. f[y + r] < g[j + r] BY <1>1, <1>2, <2>1, <2>4, LessStaysLess DEF m, n
  <2>. QED BY <1>1, <1>2, <1>9, <2>1, <2>5
<1>12. CASE Len(na) = Len(nb) /\ Lex(na, nb)
  <2>. DEFINE l == m - y
  <2>1. l \in Nat /\ n - z = l /\ y + l = m /\ z + l = n /\ Len(na) = l /\ Len(nb) = l
    BY <1>3, <1>6, <1>7, <1>12
  <2>2. PICK i \in Nat \ {0} : At(na, i) < At(nb, i) /\ \A k \in 1 .. i - 1 : At(na, k) = At(nb, k)
    BY <1>12 DEF Lex
  <2>3. /\ \A k \in 1 .. l : At(na, k) = a[y + k]
        /\ \A k \in 1 .. l : At(nb, k) = b[z + k]
    BY <1>6, <1>7, <2>1 DEF At
  <2>4. i \in 1 .. l
    <3>. SUFFICES ASSUME i \notin 1 .. l PROVE FALSE OBVIOUS
    <3>1. At(na, i) = -1 /\ At(nb, i) = -1 BY <2>1 DEF At
    <3>. QED BY <2>2, <3>1
  <2>. HIDE DEF l
  <2>. DEFINE p == y + i
              q == z + i
              r == i - 1
              t == l - i
  <2>5. /\ p \in 1 .. m /\ q \in 1 .. n /\ p \in 0 .. m /\ q \in 0 .. n /\ r \in Nat /\ t \in Nat
        /\ y + r <= m /\ z + r <= n /\ y + r = p - 1 /\ z + r = q - 1 /\ p - 1 \in 0 .. m
        /\ p + t = m /\ q + t = n /\ p + t <= m /\ q + t <= n
        /\ \A k \in 1 .. r : k \in 1 .. l
    BY <1>3, <1>6, <1>7, <2>1, <2>4
  <2>6. a[p] < b[q] BY <2>2, <2>3, <2>4
  <2>7. \A k \in 1 .. r : a[y + k] = b[z + k] BY <2>2, <2>3, <2>5
  <2>. HIDE DEF p, q, r, t
  <2>8. f[y + r] = g[z + r]
    <3>1. y \in 0 .. Len(a) /\ z \in 0 .. Len(b) /\ y + r <= Len(a) /\ z + r <= Len(b)
      BY <2>5 DEF m, n
    <3>2. r \in Nat /\ f[y] = g[z] BY <1>8, <2>5
    <3>3. Aligned(f, a, y, g, b, z, r) BY <1>1, <1>2, <2>7, <3>1, <3>2 DEF Aligned
    <3>. QED BY <3>3, SameDigits
  <2>9. f[p] < g[q]
    <3>. DEFINE u == f[p - 1]
                v == a[p] - 48
                w == b[q] - 48
    <3>1. u \in Nat /\ v \in 0 .. 9 /\ w \in 0 .. 9 /\ f[p] = 10 * u + v /\ g[q] = 10 * u + w
      BY <1>4, <1>5, <2>5, <2>8
    <3>2. a[p] \in 0 .. 255 /\ b[q] \in 0 .. 255 BY <2>5, ElementOfSeq DEF Names, m, n
    <3>3. a[p] \in Int /\ b[q] \in Int BY <3>2
    <3>4. v < w BY <2>6, <3>3
    <3>. HIDE DEF u, v, w
    <3>5. 10 * u + v < 10 * u + w BY <3>1, <3>4
    <3>. QED BY <3>1, <3>5
  <2>10. f[p + t] < g[q + t] BY <1>1, <1>2, <2>5, <2>9, LessStaysLess DEF m, n
  <2>. QED BY <1>1, <1>2, <1>9, <2>5, <2>10
<1>13. CASE na = nb /\ Lex(a, b)
  <2>. DEFINE l == m - y
  <2>1. /\ l \in Nat /\ n - z = l /\ y + l = m /\ z + l = n /\ y + l <= m /\ z + l <= n
    BY <1>3, <1>6, <1>7, <1>13
  <2>2. \A k \in 1 .. l : a[y + k] = b[z + k] BY <1>6, <1>7, <1>13, <2>1
  <2>. HIDE DEF l
  <2>3. f[y + l] = g[z + l]
    <3>1. y \in 0 .. Len(a) /\ z \in 0 .. Len(b) /\ y + l <= Len(a) /\ z + l <= Len(b)
      BY <2>1 DEF m, n
    <3>2. l \in Nat /\ f[y] = g[z] BY <1>8, <2>1
    <3>3. Aligned(f, a, y, g, b, z, l) BY <1>1, <1>2, <2>2, <3>1, <3>2 DEF Aligned
    <3>. QED BY <3>3, SameDigits
  <2>. QED BY <1>1, <1>2, <1>9, <1>13, <2>1, <2>3
<1>. QED BY <1>10, <1>11, <1>12, <1>13

\* The order of heads is the one of the reference.
LEMMA HeadsByValue ==
    ASSUME NEW a, NEW b, IsHead(a), IsHead(b), HeadBefore(a, b)
    PROVE  PartBefore(a, b)
<1>1. a \in Names /\ b \in Names BY KindOfHead
<1>2. CASE IsDigits(a) /\ IsDigits(b)
  <2>1. NumberBefore(a, b) BY <1>2 DEF HeadBefore
  <2>2. /\ Value(a) \in Nat /\ Value(b) \in Nat
        /\ Value(a) < Value(b) \/ (Value(a) = Value(b) /\ Lex(a, b))
    BY <1>1, <1>2, <2>1, NumbersByValue
  <2>3. CASE Value(a) < Value(b)
    <3>1. Value(a) # Value(b) BY <2>2, <2>3
    <3>. QED BY <1>2, <2>3, <3>1 DEF PartBefore
  <2>4. CASE Value(a) = Value(b) /\ Lex(a, b)
    <3>1. TextBefore(a, b) BY <1>1, <2>4, LexIsTextBefore
    <3>. QED BY <2>4, <3>1 DEF PartBefore
  <2>. QED BY <2>2, <2>3, <2>4
<1>3. CASE ~(IsDigits(a) /\ IsDigits(b))
  <2>1. Lex(a, b) BY <1>3 DEF HeadBefore
  <2>2. TextBefore(a, b) BY <1>1, <2>1, LexIsTextBefore
  <2>. QED BY <1>3, <2>2 DEF PartBefore
<1>. QED BY <1>2, <1>3

\* A head ends where the bytes change their kind, and not before.
LEMMA HeadEnds ==
    ASSUME NEW s \in Names, s # <<>>
    PROVE  Boundary(s, HeadLength(s)) /\ \A e \in 1 .. HeadLength(s) - 1 : ~Boundary(s, e)
<1>. DEFINE n == Len(s)
            D(i) == IsDigit(s[i])
            T == {k \in 1 .. n : \A i \in 1 .. k : D(i) = D(1)}
            h == HeadLength(s)
<1>1. /\ n \in Nat /\ h \in 1 .. n /\ \A i \in 1 .. h : D(i) = D(1) BY Chunk
<1>2. \A k \in T : h >= k
  <2>1. h = Max(T) BY DEF HeadLength
  <2>2. 1 \in T BY <1>1
  <2>3. T \subseteq 0 .. n BY <1>1
  <2>. HIDE DEF T, h
  <2>. QED BY <1>1, <2>1, <2>2, <2>3, MaxIsGreatest
<1>3. \A i : D(i) \in BOOLEAN BY DEF IsDigit
<1>4. Boundary(s, h) <=> h = 0 \/ h = n \/ D(h) # D(h + 1) BY DEF Boundary
<1>5. \A e \in 1 .. h - 1 : Boundary(s, e) <=> e = 0 \/ e = n \/ D(e) # D(e + 1) BY DEF Boundary
<1>. HIDE DEF h, n, D
<1>6. Boundary(s, h)
  <2>. SUFFICES ASSUME h # n, D(h) = D(h + 1) PROVE FALSE BY <1>4
  <2>1. h + 1 \in 1 .. n /\ h \in 1 .. h /\ ~(h >= h + 1) BY <1>1
  <2>2. D(h + 1) = D(1) BY <1>1, <2>1
  <2>3. \A i \in 1 .. h + 1 : i \in 1 .. h \/ i = h + 1 BY <1>1
  <2>4. \A i \in 1 .. h + 1 : D(i) = D(1) BY <1>1, <2>2, <2>3
  <2>5. h + 1 \in T BY <2>1, <2>4
  <2>. HIDE DEF T
  <2>. QED BY <1>2, <2>1, <2>5
<1>7. ASSUME NEW e \in 1 .. h - 1 PROVE ~Boundary(s, e)
  <2>1. e \in 1 .. h /\ e + 1 \in 1 .. h /\ e # 0 /\ e # n BY <1>1
  <2>2. D(e) = D(e + 1) BY <1>1, <2>1
  <2>. QED BY <1>5, <2>1, <2>2
<1>. QED BY <1>6, <1>7 DEF h

\* The first word or number of a name is its head.
LEMMA FirstPart ==
    ASSUME NEW s \in Names, s # <<>>
    PROVE  PartAt(s, 0) = HeadOf(s)
<1>. DEFINE n == Len(s)
            h == HeadLength(s)
            E == {e \in 0 + 1 .. n : Boundary(s, e)}
<1>1. n \in Nat /\ h \in 1 .. n BY Chunk
<1>2. Boundary(s, h) /\ \A e \in 1 .. h - 1 : ~Boundary(s, e) BY HeadEnds
<1>3. PartAt(s, 0) = SubSeq(s, 0 + 1, Min(E)) /\ HeadOf(s) = SubSeq(s, 1, h) BY DEF PartAt, HeadOf
<1>. HIDE DEF n, h
<1>4. E \subseteq Nat /\ h \in E BY <1>1, <1>2
<1>5. \A e \in E : ~(e < h)
  <2>1. \A e \in E : e < h => e \in 1 .. h - 1 BY <1>1
  <2>. QED BY <1>2, <2>1
<1>. HIDE DEF E
<1>6. Min(E) \in E /\ Min(E) <= h BY <1>4, MinIsLeast
<1>7. Min(E) = h
  <2>1. ~(Min(E) < h) /\ Min(E) \in Nat BY <1>4, <1>5, <1>6
  <2>. QED BY <1>1, <1>6, <2>1
<1>8. 0 + 1 = 1 OBVIOUS
<1>. QED BY <1>3, <1>7, <1>8

\* Behind the head, words and numbers end where they end in the rest.
LEMMA BoundaryInRest ==
    ASSUME NEW s \in Names, s # <<>>, NEW k \in 0 .. Len(RestOf(s))
    PROVE  Boundary(s, HeadLength(s) + k) <=> Boundary(RestOf(s), k)
<1>. DEFINE n == Len(s)
            h == HeadLength(s)
            r == RestOf(s)
            m == Len(r)
<1>1. /\ n \in Nat /\ h \in 1 .. n /\ m = n - h /\ k \in 0 .. m
  BY Chunk
<1>2. \A i \in 1 .. m : r[i] = s[h + i] BY Chunk
<1>3. Boundary(s, h) BY HeadEnds
<1>4. /\ Boundary(s, h + k) <=> h + k = 0 \/ h + k = n \/ IsDigit(s[h + k]) # IsDigit(s[(h + k) + 1])
      /\ Boundary(r, k) <=> k = 0 \/ k = m \/ IsDigit(r[k]) # IsDigit(r[k + 1])
  BY DEF Boundary
<1>. HIDE DEF n, h, r, m
<1>5. CASE k = 0
  <2>1. h + k = h BY <1>1, <1>5
  <2>. QED BY <1>3, <1>4, <1>5, <2>1 DEF h, r
<1>6. CASE k = m
  <2>1. h + k = n BY <1>1, <1>6
  <2>. QED BY <1>4, <1>6, <2>1 DEF h, r
<1>7. CASE k # 0 /\ k # m
  <2>1. /\ k \in 1 .. m /\ k + 1 \in 1 .. m /\ h + k # 0 /\ h + k # n /\ h + (k + 1) = (h + k) + 1
    BY <1>1, <1>7
  <2>2. r[k] = s[h + k] /\ r[k + 1] = s[(h + k) + 1] BY <1>2, <2>1
  <2>. QED BY <1>4, <1>7, <2>1, <2>2 DEF h, r
<1>. QED BY <1>5, <1>6, <1>7

\* A piece of a name.
LEMMA Piece ==
    ASSUME NEW s \in Names, NEW i \in 1 .. Len(s), NEW j \in i .. Len(s)
    PROVE  /\ SubSeq(s, i, j) \in Seq(0 .. 255) /\ Len(SubSeq(s, i, j)) = j - i + 1
           /\ \A x \in 1 .. j - i + 1 : SubSeq(s, i, j)[x] = s[i + x - 1]
<1>1. Len(s) \in Nat BY LenProperties DEF Names
<1>2. i \in Int /\ j \in Int /\ i <= j /\ \A x \in i .. j : x \in 1 .. Len(s) BY <1>1
<1>3. \A x \in i .. j : s[x] \in 0 .. 255 BY <1>2, ElementOfSeq DEF Names
<1>. QED BY <1>2, <1>3, SubSeqProperties

\* The words and numbers behind the head are those of the rest.
LEMMA PartInRest ==
    ASSUME NEW s \in Names, s # <<>>, NEW k \in 0 .. Len(RestOf(s)), k < Len(RestOf(s))
    PROVE  PartAt(s, HeadLength(s) + k) = PartAt(RestOf(s), k)
<1>. DEFINE n == Len(s)
            h == HeadLength(s)
            r == RestOf(s)
            m == Len(r)
            E == {e \in (h + k) + 1 .. n : Boundary(s, e)}
            F == {e \in k + 1 .. m : Boundary(r, e)}
<1>1. /\ n \in Nat /\ h \in 1 .. n /\ m = n - h /\ k \in 0 .. m /\ k < m /\ r \in Names
  BY Chunk
<1>2. \A i \in 1 .. m : r[i] = s[h + i] BY Chunk
<1>3. \A e \in 0 .. m : Boundary(s, h + e) <=> Boundary(r, e) BY BoundaryInRest
<1>4. PartAt(s, h + k) = SubSeq(s, (h + k) + 1, Min(E)) /\ PartAt(r, k) = SubSeq(r, k + 1, Min(F))
  BY DEF PartAt
<1>5. Boundary(r, m) BY DEF Boundary
<1>. HIDE DEF n, h, r, m
<1>7. E \subseteq Nat /\ F \subseteq Nat /\ m \in F BY <1>1, <1>5
<1>8. \A e \in F : h + e \in E
  <2>. SUFFICES ASSUME NEW e \in F PROVE h + e \in E OBVIOUS
  <2>1. e \in k + 1 .. m /\ Boundary(r, e) OBVIOUS
  <2>2. e \in 0 .. m /\ h + e \in (h + k) + 1 .. n BY <1>1, <2>1
  <2>. QED BY <1>3, <2>1, <2>2
<1>9. \A e \in E : e - h \in F
  <2>. SUFFICES ASSUME NEW e \in E PROVE e - h \in F OBVIOUS
  <2>1. e \in (h + k) + 1 .. n /\ Boundary(s, e) OBVIOUS
  <2>2. e - h \in 0 .. m /\ e - h \in k + 1 .. m /\ h + (e - h) = e BY <1>1, <2>1
  <2>. QED BY <1>3, <2>1, <2>2
<1>. DEFINE e == Min(F)
<1>10. e \in F /\ e \in k + 1 .. m
  <2>1. e \in F
    <3>. HIDE DEF F
    <3>. QED BY <1>7, MinIsLeast
  <2>. HIDE DEF e
  <2>. QED BY <2>1
<1>11. Min(E) = h + e
  <2>. HIDE DEF E, F
  <2>1. h + e \in E BY <1>8, <1>10
  <2>2. Min(E) \in E /\ Min(E) <= h + e BY <1>7, <2>1, MinIsLeast
  <2>3. Min(E) - h \in F BY <1>9, <2>2
  <2>4. e <= Min(E) - h BY <1>7, <2>3, MinIsLeast
  <2>. DEFINE x == Min(E)
  <2>5. x \in Nat /\ x <= h + e /\ e <= x - h BY <1>7, <2>2, <2>4
  <2>. HIDE DEF x, e
  <2>6. x = h + e BY <1>1, <1>10, <2>5
  <2>. QED BY <2>6 DEF x
<1>. HIDE DEF e, E, F
<1>. DEFINE p == SubSeq(s, (h + k) + 1, h + e)
            q == SubSeq(r, k + 1, e)
            l == e - k
<1>12. p \in Seq(0 .. 255) /\ Len(p) = l /\ \A i \in 1 .. l : p[i] = s[(h + k) + i]
  <2>. DEFINE lo == (h + k) + 1
              hi == h + e
  <2>1. /\ lo \in 1 .. n /\ hi \in lo .. n /\ hi - lo + 1 = l
        /\ \A i \in 1 .. l : lo + i - 1 = (h + k) + i
    BY <1>1, <1>10
  <2>. HIDE DEF lo, hi, l
  <2>2. /\ SubSeq(s, lo, hi) \in Seq(0 .. 255) /\ Len(SubSeq(s, lo, hi)) = hi - lo + 1
        /\ \A i \in 1 .. hi - lo + 1 : SubSeq(s, lo, hi)[i] = s[lo + i - 1]
    BY <2>1, Piece DEF n
  <2>3. p = SubSeq(s, lo, hi) BY DEF lo, hi
  <2>. HIDE DEF p
  <2>. QED BY <2>1, <2>2, <2>3
<1>13. q \in Seq(0 .. 255) /\ Len(q) = l /\ \A i \in 1 .. l : q[i] = r[k + i]
  <2>. DEFINE lo == k + 1
  <2>1. /\ lo \in 1 .. m /\ e \in lo .. m /\ e - lo + 1 = l
        /\ \A i \in 1 .. l : lo + i - 1 = k + i
    BY <1>1, <1>10
  <2>. HIDE DEF lo, l
  <2>2. /\ SubSeq(r, lo, e) \in Seq(0 .. 255) /\ Len(SubSeq(r, lo, e)) = e - lo + 1
        /\ \A i \in 1 .. e - lo + 1 : SubSeq(r, lo, e)[i] = r[lo + i - 1]
    BY <1>1, <2>1, Piece DEF m
  <2>3. q = SubSeq(r, lo, e) BY DEF lo
  <2>. HIDE DEF q
  <2>. QED BY <2>1, <2>2, <2>3
<1>14. \A i \in 1 .. l : k + i \in 1 .. m /\ h + (k + i) = (h + k) + i BY <1>1, <1>10
<1>. HIDE DEF p, q, l
<1>15. \A i \in 1 .. l : p[i] = q[i] BY <1>2, <1>12, <1>13, <1>14
<1>16. p = q BY <1>12, <1>13, <1>15, SeqEqual
<1>. QED BY <1>4, <1>11, <1>16 DEF p, q, e, h, r

\* CompareNames puts names in the order of the reference.
LEMMA CompareIsBefore ==
    ASSUME NEW a \in Names, NEW b \in Names, CompareNames(a, b) < 0
    PROVE  Before(a, b)
<1>. DEFINE Good(x, y) == CompareNames(x, y) < 0 => Before(x, y)
            T == {n \in Nat : \E x \in Names, y \in Names : Len(x) = n /\ ~Good(x, y)}
<1>0. \A x \in Names : Len(x) \in Nat BY LenProperties DEF Names
<1>1. ASSUME T # {} PROVE FALSE
  <2>1. PICK n \in T : \A m \in T : n <= m
    <3>1. T \subseteq Nat OBVIOUS
    <3>. HIDE DEF T
    <3>. QED BY <1>1, <3>1, LeastNatural
  <2>2. PICK x \in Names, y \in Names : Len(x) = n /\ ~Good(x, y) BY <2>1
  <2>3. CompareNames(x, y) < 0 /\ ~Before(x, y) BY <2>2
  <2>4. y # <<>> BY <2>3, EmptyIsFirst
  <2>5. Len(x) \in Nat /\ Len(y) \in Nat /\ Len(y) # 0 BY <1>0, <2>4, EmptySeq DEF Names
  <2>6. 0 \in 0 .. Len(x) /\ 0 < Len(y) /\ 1 .. 0 = {} BY <2>5
  <2>7. Boundary(x, 0) /\ Boundary(y, 0) BY DEF Boundary
  <2>8. CASE x = <<>>
    <3>1. 0 = Len(x) BY <2>8
    <3>. QED BY <2>3, <2>6, <2>7, <3>1 DEF Before
  <2>9. CASE x # <<>>
    <3>. DEFINE hx == HeadOf(x)
                hy == HeadOf(y)
                rx == RestOf(x)
                ry == RestOf(y)
    <3>1. IsHead(hx) /\ IsHead(hy) BY <2>4, <2>9, HeadIsHead
    <3>2. CompareNames(x, y) = IF CompareHeads(hx, hy) # 0 THEN CompareHeads(hx, hy)
                                                          ELSE CompareNames(rx, ry)
      BY <2>4, <2>9, CompareUnfolds
    <3>3. /\ CompareHeads(hx, hy) < 0 <=> HeadBefore(hx, hy)
          /\ CompareHeads(hx, hy) = 0 <=> hx = hy
      <4>. HIDE DEF hx, hy
      <4>. QED BY <3>1, HeadsAreOrdered
    <3>4. CASE CompareHeads(hx, hy) # 0
      <4>1. HeadBefore(hx, hy) BY <2>3, <3>2, <3>3, <3>4
      <4>2. PartBefore(hx, hy) BY <3>1, <4>1, HeadsByValue
      <4>3. PartBefore(PartAt(x, 0), PartAt(y, 0)) BY <2>4, <2>9, <4>2, FirstPart
      <4>. HIDE DEF hx, hy, rx, ry
      <4>. QED BY <2>3, <2>6, <2>7, <4>3 DEF Before
    <3>5. CASE CompareHeads(hx, hy) = 0
      <4>. DEFINE h == HeadLength(x)
      <4>1. hx = hy /\ CompareNames(rx, ry) < 0 BY <2>3, <3>2, <3>3, <3>5
      <4>2. /\ h \in 1 .. Len(x) /\ Len(hx) = h /\ rx \in Names /\ Len(rx) = Len(x) - h
            /\ \A i \in 1 .. h : hx[i] = x[i]
            /\ \A i \in 1 .. Len(x) - h : rx[i] = x[h + i]
        BY <2>9, Chunk
      <4>3. /\ HeadLength(y) \in 1 .. Len(y) /\ Len(hy) = HeadLength(y) /\ ry \in Names
            /\ Len(ry) = Len(y) - HeadLength(y)
            /\ \A i \in 1 .. HeadLength(y) : hy[i] = y[i]
            /\ \A i \in 1 .. Len(y) - HeadLength(y) : ry[i] = y[HeadLength(y) + i]
        BY <2>4, Chunk
      <4>4. HeadLength(y) = h BY <4>1, <4>2, <4>3
      <4>5. /\ \A e \in 0 .. Len(rx) : Boundary(x, h + e) <=> Boundary(rx, e)
            /\ \A e \in 0 .. Len(ry) : Boundary(y, h + e) <=> Boundary(ry, e)
        BY <2>4, <2>9, <4>4, BoundaryInRest
      <4>6. /\ \A e \in 0 .. Len(rx) : e < Len(rx) => PartAt(x, h + e) = PartAt(rx, e)
            /\ \A e \in 0 .. Len(ry) : e < Len(ry) => PartAt(y, h + e) = PartAt(ry, e)
        BY <2>4, <2>9, <4>4, PartInRest
      <4>. HIDE DEF h, hx, hy, rx, ry
      <4>7. Before(rx, ry)
        <5>1. Len(rx) < n /\ Len(rx) \in Nat BY <1>0, <2>2, <2>5, <4>2
        <5>2. Len(rx) \notin T BY <2>1, <5>1
        <5>. QED BY <4>1, <4>2, <4>3, <5>1, <5>2
      <4>8. PICK k \in 0 .. Len(rx) :
               /\ k < Len(ry) /\ Boundary(rx, k) /\ Boundary(ry, k)
               /\ \A j \in 1 .. k : rx[j] = ry[j]
               /\ k = Len(rx) \/ PartBefore(PartAt(rx, k), PartAt(ry, k))
        BY <4>7 DEF Before
      <4>. DEFINE i == h + k
                  u == Len(x)
                  v == Len(y)
      <4>9. u \in Nat /\ v \in Nat /\ h \in 1 .. u /\ h \in 1 .. v /\ Len(rx) = u - h /\ Len(ry) = v - h
        BY <2>5, <4>2, <4>3, <4>4
      <4>. HIDE DEF u, v
      <4>10. /\ i \in 0 .. u /\ i < v /\ k \in 0 .. Len(ry) /\ (k = Len(rx) <=> i = u)
             /\ k < Len(rx) \/ k = Len(rx)
        BY <4>8, <4>9
      <4>11. Boundary(x, i) /\ Boundary(y, i) BY <4>5, <4>8, <4>10
      <4>12. ASSUME NEW j \in 1 .. i PROVE x[j] = y[j]
        <5>1. CASE j <= h
          <6>1. j \in 1 .. h BY <4>9, <5>1
          <6>2. hx[j] = x[j] /\ hy[j] = y[j] BY <4>2, <4>3, <4>4, <6>1
          <6>. QED BY <4>1, <6>2
        <5>2. CASE ~(j <= h)
          <6>. DEFINE o == j - h
          <6>1. o \in 1 .. k /\ h + o = j /\ o \in 1 .. u - h /\ o \in 1 .. v - h
            BY <4>8, <4>9, <4>10, <5>2
          <6>. HIDE DEF o
          <6>2. rx[o] = x[h + o] /\ ry[o] = y[h + o] BY <4>2, <4>3, <4>4, <6>1 DEF u, v
          <6>. QED BY <4>8, <6>1, <6>2
        <5>. QED BY <5>1, <5>2
      <4>13. i = u \/ PartBefore(PartAt(x, i), PartAt(y, i))
        <5>1. CASE k = Len(rx) BY <4>10, <5>1
        <5>2. CASE k < Len(rx) /\ k # Len(rx)
          <6>1. PartAt(x, i) = PartAt(rx, k) BY <4>6, <4>8, <5>2
          <6>2. PartAt(y, i) = PartAt(ry, k) BY <4>6, <4>8, <4>10
          <6>. QED BY <4>8, <5>2, <6>1, <6>2
        <5>. QED BY <4>10, <5>1, <5>2
      <4>. HIDE DEF i
      <4>14. Before(x, y) BY <4>10, <4>11, <4>12, <4>13 DEF Before, u, v
      <4>. QED BY <2>3, <4>14
    <3>. QED BY <3>4, <3>5
  <2>. QED BY <2>8, <2>9
<1>2. Len(a) \notin T /\ Len(a) \in Nat BY <1>0, <1>1
<1>3. Good(a, b) BY <1>2
<1>. QED BY <1>3

-----------------------------------------------------------------------------
(* The host that is claimed.                                               *)

\* The names of the Host objects are finitely many.
LEMMA PoolIsFinite == Inv => DOMAIN pool \subseteq Names /\ IsFiniteSet(DOMAIN pool)
<1>. SUFFICES ASSUME Inv PROVE DOMAIN pool \subseteq Names /\ IsFiniteSet(DOMAIN pool) OBVIOUS
<1>. DEFINE H == {cfg.hosts[i].name : i \in DOMAIN cfg.hosts}
<1>1. cfg.hosts \in Seq(HostConfigs) BY DEF Inv, ConfigInv, ConfigTypes
<1>2. DOMAIN cfg.hosts = 1 .. Len(cfg.hosts) /\ Len(cfg.hosts) \in Nat BY <1>1, LenProperties
<1>3. IsFiniteSet(H)
  <2>1. IsFiniteSet(DOMAIN cfg.hosts) BY <1>2, FS_Interval
  <2>. DEFINE D == DOMAIN cfg.hosts
              f == [i \in D |-> cfg.hosts[i].name]
  <2>2. f \in Surjection(D, H) BY DEF Surjection
  <2>. HIDE DEF D, f, H
  <2>. QED BY <2>1, <2>2, FS_Surjection DEF D
<1>4. \A i \in DOMAIN cfg.hosts : cfg.hosts[i].name \in Names
  <2>1. \A i \in DOMAIN cfg.hosts : cfg.hosts[i] \in HostConfigs BY <1>1, <1>2, ElementOfSeq
  <2>. QED BY <2>1 DEF HostConfigs
<1>5. DOMAIN pool \subseteq H BY DEF Inv, ObjectsInv, PoolInv
<1>6. H \subseteq Names BY <1>4
<1>. HIDE DEF H
<1>. QED BY <1>3, <1>5, <1>6, FS_Subset

\* Where a host matches, one of them comes first and can be claimed.
LEMMA Claimable ==
    ASSUME Inv, NEW m, Matching(m) # {}
    PROVE  Heads(Matching(m)) # {}
<1>1. Matching(m) \subseteq DOMAIN pool BY DEF Matching
<1>2. Matching(m) \subseteq Names /\ IsFiniteSet(Matching(m)) BY <1>1, PoolIsFinite, FS_Subset
<1>. QED BY <1>2, HeadsExist

-----------------------------------------------------------------------------
(* The theorems.                                                           *)

\* A Host that was probed is there: create never takes one away.
LEMMA ProbedExist == Spec => [](probed \subseteq DOMAIN pool)
<1>. DEFINE P == probed \subseteq DOMAIN pool
<1>1. Init => P BY DEF Init
<1>2. P /\ [Next]_vars => P'
  <2>. SUFFICES ASSUME P, [Next]_vars PROVE P' OBVIOUS
  <2>1. CASE Load \/ Recreate \/ MakeMachine \/ Claim \/ UNCHANGED vars
    BY <2>1 DEF Load, Recreate, MakeMachine, Claim, objects, vars
  <2>2. CASE Apply
    <3>1. DOMAIN pool \subseteq DOMAIN pool' /\ UNCHANGED probed BY <2>2 DEF Apply, Set
    <3>. QED BY <3>1
  <2>3. CASE Probe
    <3>1. PICK m, h : h \in Matching(m) /\ probed' = probed \cup {h} BY <2>3 DEF Probe
    <3>. QED BY <2>3, <3>1 DEF Probe, objects, Matching
  <2>4. CASE SyncHost BY <2>4 DEF SyncHost, objects
  <2>. QED BY <2>1, <2>2, <2>3, <2>4 DEF Next
<1>. QED BY <1>1, <1>2, PTL DEF Spec

\* The objects exist in the order they refer to each other in, for any configuration: no
\* group without its template, no machine without its group, and hosts only of the inventory.
THEOREM TypeCorrect == Spec => []TypeOK
<1>1. Inv /\ probed \subseteq DOMAIN pool => TypeOK
  <2>. SUFFICES ASSUME Inv, probed \subseteq DOMAIN pool PROVE TypeOK OBVIOUS
  <2>1. applied \in 0 .. Len(Render(ApplyDefaults(cfg)))
    <3>1. CASE stage = "file"
      <4>1. applied = 0 /\ cfg \in ConfigTypes /\ Len(cfg.hosts) <= MaxCount BY <3>1 DEF Inv, ConfigInv
      <4>2. ApplyDefaults(cfg) \in ConfigTypes BY <4>1, DefaultsTyped
      <4>3. Len(Render(ApplyDefaults(cfg))) \in Nat BY <4>2, RenderShape
      <4>. QED BY <4>1, <4>3
    <3>2. CASE stage # "file"
      BY <3>2 DEF Inv, ConfigInv, ObjectsInv
    <3>. QED BY <3>1, <3>2
  <2>2. DOMAIN pool \subseteq {h.name : h \in Range(cfg.hosts)}
    BY DEF Inv, ObjectsInv, PoolInv, Range
  <2>3. \A g \in DOMAIN groups : groups[g].template \in DOMAIN templates
    BY DEF Inv, ObjectsInv, GroupsInv
  <2>4. \A m \in Range(machines) : m.group \in DOMAIN groups /\ m.host \in DOMAIN pool \cup {<<>>}
    BY DEF Inv, MachinesInv, Range
  <2>. QED BY <2>1, <2>2, <2>3, <2>4 DEF TypeOK, Inv, ConfigInv
<1>. QED BY <1>1, Invariance, ProbedExist, PTL

\* Loading fills in the defaults once and for all, for any configuration.
THEOREM DefaultsStayStable == Spec => []DefaultsAreStable
<1>1. Inv => DefaultsAreStable BY DEF Inv, ConfigInv, DefaultsAreStable
<1>. QED BY <1>1, Invariance, PTL

\* In a fleet of any size that places by role, a control plane machine is never without a
\* host to claim, at any point of create and whatever else was claimed before.
THEOREM ControlPlaneIsPlaced == Spec => []ControlPlaneFindsHosts
<1>1. Inv => ControlPlaneFindsHosts
  <2>. SUFFICES ASSUME Inv, PlacedByRole, NEW k \in DOMAIN machines, machines[k].host = <<>>,
                       machines[k].group = ControlPlaneName
               PROVE  Heads(Matching(machines[k])) # {}
    BY DEF ControlPlaneFindsHosts, Waiting, Range
  <2>1. Matching(machines[k]) # {} BY ControlPlanePlaced
  <2>. QED BY <2>1, Claimable
<1>. QED BY <1>1, Invariance, PTL

\* What Validate compares is enough for all machines of a fleet of any size, as long as the
\* sum of the counts that were asked for fits into one word.
THEOREM MachinesArePlaced == Spec => [](Fits => MachinesFindHosts)
<1>1. Inv => (Fits => MachinesFindHosts)
  <2>. SUFFICES ASSUME Inv, Fits, PlacedByRole,
                       cfg.replicas = Cardinality(HostsWithRole(cfg, RoleControlPlane)),
                       \A w \in Range(cfg.workers) : w.selector = RoleIs(RoleWorker),
                       NEW k \in DOMAIN machines, machines[k].host = <<>>
               PROVE  Heads(Matching(machines[k])) # {}
    BY DEF MachinesFindHosts, Waiting, Range
  <2>1. \A j \in DOMAIN cfg.workers : cfg.workers[j].selector = RoleIs(RoleWorker) BY DEF Range
  <2>2. Matching(machines[k]) # {} BY <2>1, ControlPlanePlaced, WorkerPlaced
  <2>. QED BY <2>2, Claimable
<1>. QED BY <1>1, Invariance, PTL

\* The host a machine takes comes before all others it could take that no probe has patched
\* since they were listed, in the order that reads the digits of a name as a number, for
\* names of any bytes and any length: CompareNames, which never converts a number, never
\* leaves the choice to the order of the cache.
THEOREM HostsInOrder == Spec => HostsTakenInOrder
<1>. DEFINE Taken(i) == machines'[i].host # machines[i].host =>
                           \A h \in Matching(machines[i]) \ (probed \cup {machines'[i].host}) :
                               Before(machines'[i].host, h)
<1>1. Inv /\ [Next]_vars => [\A i \in DOMAIN machines : Taken(i)]_vars
  <2>. SUFFICES ASSUME Inv, Next, NEW i \in DOMAIN machines,
                       machines'[i].host # machines[i].host,
                       NEW o \in Matching(machines[i]) \ (probed \cup {machines'[i].host})
               PROVE  Before(machines'[i].host, o)
    OBVIOUS
  <2>1. machines \in Seq(MachineTypes) BY DEF Inv, MachinesInv
  <2>2. ~Load /\ ~Apply /\ ~Recreate /\ ~Probe /\ ~SyncHost
    BY DEF Load, Apply, Recreate, Probe, SyncHost
  <2>3. ~MakeMachine
    <3>. SUFFICES ASSUME NEW m, machines' = Append(machines, m) PROVE FALSE BY DEF MakeMachine
    <3>1. machines'[i] = machines[i] BY <2>1
    <3>. QED BY <3>1
  <2>4. PICK k, h :
           /\ k \in DOMAIN machines
           /\ h \in Heads(Matching(machines[k]) \ probed) /\ machines' = [machines EXCEPT ![k].host = h]
    BY <2>2, <2>3 DEF Next, Claim
  <2>5. i = k
    <3>. SUFFICES ASSUME i # k PROVE FALSE OBVIOUS
    <3>1. machines'[i] = machines[i] BY <2>4
    <3>. QED BY <3>1
  <2>6. machines'[i].host = h
    <3>1. machines[i] \in MachineTypes BY <2>1
    <3>2. machines'[i] = [machines[i] EXCEPT !.host = h] BY <2>4, <2>5
    <3>. QED BY <3>1, <3>2 DEF MachineTypes
  <2>. DEFINE S == Matching(machines[i]) \ probed
  <2>7. S \subseteq Names BY PoolIsFinite DEF Matching
  <2>8. h \in Heads(S) /\ o \in S /\ o # h BY <2>4, <2>5, <2>6
  <2>. HIDE DEF S
  <2>9. h \in Names /\ o \in Names BY <2>7, <2>8 DEF Heads
  <2>10. CompareNames(h, o) < 0 BY <2>7, <2>8, HeadsAreFirst
  <2>11. Before(h, o) BY <2>9, <2>10, CompareIsBefore
  <2>. QED BY <2>6, <2>11
<1>. QED BY <1>1, Invariance, PTL DEF Spec, HostsTakenInOrder
==============================================================================
