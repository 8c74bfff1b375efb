---------------------------- MODULE MCCloudInit ----------------------------
(* Cloud-configs of the shapes the bootstrap provider emits, and the ways  *)
(* they can be out of order.                                               *)
EXTENDS CloudInit

Arg(name) == [name |-> name, value |-> "theirs"]
OtherDoc  == [kind |-> "Other", apiVersion |-> "v1beta4", shape |-> "nil", args |-> <<>>,
              controlPlane |-> FALSE, endpoint |-> "unset"]

\* The shapes of kubeletExtraArgs; a map holds no name twice.
ArgShapes ==
    {[shape |-> "nil", args |-> <<>>], [shape |-> "scalar", args |-> <<>>]} \cup
    [shape: {"list", "map"},
     args: {<<>>, <<Arg("node-labels")>>, <<Arg("provider-id")>>,
            <<Arg("node-labels"), Arg("provider-id")>>, <<Arg("node-ip"), Arg("node-labels")>>}]

KubeadmDocs ==
    {[kind |-> k, apiVersion |-> v, shape |-> a.shape, args |-> a.args,
      controlPlane |-> cp, endpoint |-> e] :
        k \in {"InitConfiguration", "JoinConfiguration"}, v \in {"v1beta3", "v1beta4"},
        a \in ArgShapes, cp \in BOOLEAN, e \in {"unset", "theirs", "scalar"}}

PlainDoc == [kind |-> "JoinConfiguration", apiVersion |-> "v1beta4", shape |-> "list",
             args |-> <<Arg("node-labels")>>, controlPlane |-> FALSE, endpoint |-> "unset"]

FileOf(docs) == [path |-> KubeadmPath, docs |-> docs, append |-> FALSE, decodes |-> TRUE]
Extra        == [path |-> KubeadmPath, docs |-> <<OtherDoc>>, append |-> TRUE, decodes |-> TRUE]
User         == [path |-> "/etc/motd", docs |-> <<OtherDoc>>, append |-> TRUE, decodes |-> TRUE]

Shell(lines) == [form |-> "string", lines |-> lines]
Join  == Shell(<< <<"kubeadm", "sentinel">> >>)
Agent == Shell(<< <<"user", "user">> >>)
Argv  == [form |-> "argv", lines |-> << <<"user">> >>]
Multi == Shell(<< <<"user">>, <<"user", "user">> >>)

Config(directives, files, bootcmd, runcmd) ==
    [directives |-> directives, files |-> files, bootcmd |-> bootcmd, runcmd |-> runcmd]

\* Every document the patch can meet, alone or among others.
PatchConfigs ==
    {Config({"write_files", "runcmd"}, files, <<>>, <<Join>>) :
        files \in UNION {{<<FileOf(<<OtherDoc, d>>)>>, <<FileOf(<<d, PlainDoc>>), Extra>>} : d \in KubeadmDocs}}
    \cup {Config({"write_files", "runcmd"}, <<f>>, <<>>, <<Join>>) : f \in
            {FileOf(<<OtherDoc>>), [FileOf(<<PlainDoc>>) EXCEPT !.path = ""],
             [FileOf(<<PlainDoc>>) EXCEPT !.decodes = FALSE]}}

\* Every arrangement of commands around the join.
RunConfigs ==
    {Config(ds, <<FileOf(<<PlainDoc>>), User>>, boot, pre \o <<Join>> \o post) :
        ds \in {Supported, Supported \cup {"users"}},
        boot \in {<<>>, <<Argv>>, <<[Argv EXCEPT !.form = "other"]>>},
        pre  \in {<<>>, <<Agent>>, <<Multi>>, <<Shell(<<>>)>>},
        post \in {<<>>, <<Agent>>, <<Agent, Argv>>}}

\* A kubeletExtraArgs list that may name one flag twice.
RepeatedConfigs ==
    {Config({"write_files", "runcmd"}, <<FileOf(<<[PlainDoc EXCEPT !.args = a]>>)>>, <<>>, <<Join>>) :
        a \in [1 .. 2 -> {Arg("node-ip"), Arg("node-labels")}]}

AllConfigs == PatchConfigs \cup RunConfigs \cup RepeatedConfigs
AllOptions == [ProviderID: BOOLEAN, HostAddress: BOOLEAN]
Both       == {[ProviderID |-> TRUE, HostAddress |-> TRUE]}
============================================================================
