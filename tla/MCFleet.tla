------------------------------- MODULE MCFleet -------------------------------
(* Configurations of up to four hosts and two worker pools.                *)
EXTENDS Fleet

\* The letter h and the number n, of one or two digits.
N(n) == IF n < 10 THEN <<104, 48 + n>> ELSE <<104, 48 + (n \div 10), 48 + (n % 10)>>

H(name, address, role) ==
    [name |-> name, address |-> address, role |-> role, labels |-> {}, user |-> "",
     key |-> "", password |-> FALSE, policy |-> "", publicKey |-> FALSE]
W(name, replicas, selector) == [name |-> name, replicas |-> replicas, selector |-> selector]
SSH == [user |-> "", key |-> "key", password |-> FALSE, policy |-> ""]

Conf(ssh, hosts, replicas, workers) ==
    [header |-> TRUE, ssh |-> ssh, hosts |-> hosts, replicas |-> replicas, workers |-> workers]

Roles     == {RoleControlPlane, RoleWorker}
HostNames == <<N(10), N(9), N(1), N(11)>>
Addresses == <<"a1", "a2", "a3", "a4">>

\* Every division of up to three hosts into roles, and of four with three for the
\* control plane.
Inventories ==
    LET Divisions(n) ==
            {r \in [1 .. n -> Roles] :
                n = 4 => Cardinality({i \in 1 .. n : r[i] = RoleControlPlane}) = 3}
    IN  UNION {{[i \in 1 .. n |-> H(HostNames[i], Addresses[i], r[i])] : r \in Divisions(n)} :
                  n \in 0 .. 4}

\* Pools that draw from the worker hosts.
Pools == {<<>>} \cup {<<W(p, n, {})>> : p \in {"blue", ""}, n \in -1 .. 3}
         \cup {<<W("blue", 1, {}), W(p, n, RoleIs(RoleWorker))>> : p \in {"blue", "green"}, n \in 0 .. 2}

Sized == {Conf(SSH, hosts, n, workers) : hosts \in Inventories, n \in 0 .. 3, workers \in Pools}

\* One thing about a host or the ssh block is different.
Varied ==
    LET base == <<H(N(1), "a1", RoleControlPlane), H(N(2), "a2", RoleWorker)>>
        hosts == {[base EXCEPT ![1] = h] :
                    h \in [name: {N(1), N(2), <<>>}, address: {"a1", "a2", ""}, role: Roles \cup {""},
                           labels: {{}}, user: {"", "ops"}, key: {"", "own", "unreadable"},
                           password: BOOLEAN, policy: {"", "Strict", "other"}, publicKey: BOOLEAN]}
    IN  {Conf(ssh, h, 0, <<>>) : h \in hosts,
            ssh \in {SSH, [SSH EXCEPT !.key = ""], [SSH EXCEPT !.key = "", !.password = TRUE], [SSH EXCEPT !.user = "ops", !.policy = "Insecure"]}}

\* A pool that selects the worker hosts with a label among others.
Labelled ==
    LET gpu == {<<"accelerator", "gpu">>}
    IN  {Conf(SSH, [i \in DOMAIN hosts |-> [hosts[i] EXCEPT !.labels = IF i \in S THEN gpu ELSE {}]],
              1, <<W("gpu", 1, RoleIs(RoleWorker) \cup gpu), W("blue", 1, {})>>) :
            hosts \in {i \in Inventories : Len(i) = 3}, S \in SUBSET (1 .. 3)}

\* Three hosts where a label overrides a role, or a pool asks for control plane
\* hosts or has the name of their template.
Crossed ==
    {Conf(SSH, [hosts EXCEPT ![1].labels = l], 1, <<W(p, 1, RoleIs(role))>>) :
        hosts \in {i \in Inventories : Len(i) = 3}, l \in {{}, RoleIs(RoleWorker)},
        p \in {"blue", "control-plane"}, role \in Roles}

\* Names of the letter a, the dash, and the digits 0, 1 and 9: up to three
\* bytes, and some longer ones around leading zeros.  DNS labels start and end
\* with a letter or a digit.
Bytes     == {45, 48, 49, 57, 97}   \* - 0 1 9 a
DNSLabels(n) == {s \in [1 .. n -> Bytes] : s[1] # 45 /\ s[n] # 45}
SomeNames ==
    DNSLabels(1) \cup DNSLabels(2) \cup {s \in DNSLabels(3) : s[1] = 97 /\ s[3] # 97}
    \cup {<<97, 45, 48, 49>>, <<97, 45, 49, 48>>, <<97, 48, 49, 97>>, <<97, 48, 48, 49>>,
          <<97, 48, 57, 97>>, <<97, 49, 45, 49>>}

\* One machine and two hosts to choose from, of any two names.
Paired ==
    LET Pair(names) == [i \in 1 .. 2 |-> H(SetToSeq(names)[i], Addresses[i], RoleControlPlane)]
    IN  {Conf(SSH, Pair({a, b}), 1, <<>>) : <<a, b>> \in {p \in SomeNames \X SomeNames : p[1] # p[2]}}

SmallConfigs ==
    Sized \cup Varied \cup Labelled \cup Crossed \cup Paired
    \cup {[c EXCEPT !.header = FALSE] : c \in Labelled}
==============================================================================
