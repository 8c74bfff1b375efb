------------------------------ MODULE CloudInit ------------------------------
(***************************************************************************)
(* How the cloud-config Cluster API generates becomes one bash script, and *)
(* what the script does on the host.  Render refuses what it cannot carry  *)
(* out, pins the provider ID and the host's address in every kubeadm       *)
(* configuration document, and puts each command into a guarded group;     *)
(* bash then runs the result, any command of which may fail.  Contents are *)
(* reduced to the documents of a file, the kubelet flags of a document and *)
(* the simple commands of a shell line.                                    *)
(***************************************************************************)
EXTENDS Integers, Sequences, FiniteSets, SequencesExt

CONSTANTS
    CloudConfigs,   \* the cloud-configs the bootstrap provider may hand over
    Options,        \* which of ProviderID and HostAddress the caller gives
    MaxRuns         \* bound: how often the script is started on the host

ASSUME RunsAssumption    == MaxRuns \in Nat \ {0}
ASSUME OptionsAssumption == Options \subseteq [ProviderID: BOOLEAN, HostAddress: BOOLEAN]

VARIABLES
    config, opts,   \* what Render was called with
    at,             \* the step of the script that is next
    exit,           \* "running", "zero" or "nonzero"; "refused": Render failed
    disk,           \* disk[p]: the documents in the file at p
    failed,         \* the simple commands of this run that failed: <<step, line, place>>
    joined,         \* the documents kubeadm succeeded with, NotJoined before
    sentinel,       \* the file the bootstrap provider writes on success
    runs            \* how often the script was started

vars == <<config, opts, at, exit, disk, failed, joined, sentinel, runs>>

-----------------------------------------------------------------------------
(* Cloud-configs.  A document is reduced to what the patch looks at: its   *)
(* kind, which stands for every other document when it is "Other", the     *)
(* kubelet flags under nodeRegistration, and the API endpoint.  A value is *)
(* "theirs" when the bootstrap data brought it and "pinned" when kg wrote  *)
(* it.  A command is a list of lines, a line a list joined by &&.          *)

Supported   == {"write_files", "bootcmd", "runcmd"}
KubeadmPath == "/run/kubeadm/kubeadm.yaml"
NotJoined   == <<>>   \* kubeadm never succeeds without a document

Flags == {"provider-id", "node-ip", "node-labels"}

Documents ==
    [kind: {"InitConfiguration", "JoinConfiguration", "Other"},
     apiVersion: {"v1beta3", "v1beta4"},
     shape: {"nil", "list", "map", "scalar"},            \* of kubeletExtraArgs
     args: Seq([name: Flags, value: {"theirs", "pinned"}]),
     controlPlane: BOOLEAN,                              \* a JoinConfiguration's section
     endpoint: {"unset", "theirs", "scalar", "pinned"}]  \* localAPIEndpoint

WellFormed(doc) == doc \in Documents /\ (doc.shape \in {"nil", "scalar"} => doc.args = <<>>)

IsKubeadmConfig(doc) == doc.kind \in {"InitConfiguration", "JoinConfiguration"}

\* A write_files entry, and a command of bootcmd or runcmd.
Files    == [path: STRING, docs: Seq(Documents), append: BOOLEAN, decodes: BOOLEAN]
Commands == [form: STRING, lines: Seq(Seq(STRING))]

DocumentsOf(c) == UNION {Range(f.docs) : f \in Range(c.files)}

ASSUME ConfigsAssumption ==
    \A c \in CloudConfigs :
        /\ c.files \in Seq(Files) /\ c.bootcmd \in Seq(Commands) /\ c.runcmd \in Seq(Commands)
        /\ \A doc \in DocumentsOf(c) : WellFormed(doc)

Paths == {KubeadmPath} \cup {f.path : f \in UNION {Range(c.files) : c \in CloudConfigs}}

-----------------------------------------------------------------------------
(* The kubeadm patch.                                                      *)

UsesArgList(apiVersion) == apiVersion \notin {"v1beta1", "v1beta2", "v1beta3"}

\* upsertArgList, and the assignment to a map: the first entry of that name.
UpsertArg(args, name) ==
    LET at_ == {i \in DOMAIN args : args[i].name = name}
    IN  IF at_ = {} THEN Append(args, [name |-> name, value |-> "pinned"])
        ELSE [args EXCEPT ![CHOOSE i \in at_ : \A j \in at_ : i <= j].value = "pinned"]

\* Mutant: the section is built anew for the flag.
ReplaceKubeletExtraArgs(doc, name) ==
    [doc EXCEPT !.shape = IF UsesArgList(doc.apiVersion) THEN "list" ELSE "map",
                !.args  = UpsertArg(<<>>, name)]

\* Mutant: a section that was absent is filled without taking a shape.
KeepShape(doc, name) == [doc EXCEPT !.args = UpsertArg(@, name)]

SetKubeletExtraArg(doc, name) ==
    IF doc.shape = "nil"
    THEN [doc EXCEPT !.shape = IF UsesArgList(doc.apiVersion) THEN "list" ELSE "map",
                     !.args  = UpsertArg(<<>>, name)]
    ELSE [doc EXCEPT !.args = UpsertArg(@, name)]

\* An InitConfiguration and a control plane's JoinConfiguration name an endpoint.
Advertises(doc) ==
    \/ doc.kind = "InitConfiguration"
    \/ doc.kind = "JoinConfiguration" /\ doc.controlPlane

SetAdvertiseAddress(doc) == IF Advertises(doc) THEN [doc EXCEPT !.endpoint = "pinned"] ELSE doc

KubeletArgs(o) ==
    (IF o.ProviderID THEN <<"provider-id">> ELSE <<>>) \o
    (IF o.HostAddress THEN <<"node-ip">> ELSE <<>>)

\* The flags in their order, then the endpoint.
PatchDocument(doc, o) ==
    LET named == IF o.ProviderID THEN SetKubeletExtraArg(doc, "provider-id") ELSE doc
    IN  IF o.HostAddress THEN SetAdvertiseAddress(SetKubeletExtraArg(named, "node-ip")) ELSE named

PatchKubeadmConfig(docs, o) ==
    [i \in DOMAIN docs |-> IF IsKubeadmConfig(docs[i]) THEN PatchDocument(docs[i], o) ELSE docs[i]]

\* setKubeletExtraArg and setNested give up on a value of the wrong type.
CannotPatch(doc, o) ==
    /\ IsKubeadmConfig(doc)
    /\ \/ doc.shape = "scalar" /\ KubeletArgs(o) # <<>>
       \/ doc.endpoint = "scalar" /\ Advertises(doc) /\ o.HostAddress

\* Mutant: finding nothing to patch is not an error.
PatchErrors(c, o) == \E doc \in DocumentsOf(c) : CannotPatch(doc, o)

PatchFails(c, o) ==
    /\ KubeletArgs(o) # <<>>
    /\ \/ \E doc \in DocumentsOf(c) : CannotPatch(doc, o)
       \/ \A doc \in DocumentsOf(c) : ~IsKubeadmConfig(doc)

-----------------------------------------------------------------------------
(* Render.                                                                 *)

CheckUnsupported(c) == ~(c.directives \subseteq Supported)

\* A file without a path or with contents that do not decode; a command that
\* is neither a string nor a list of strings.
FileFails(f)    == f.path = "" \/ ~f.decodes
CommandFails(m) == m.form \notin {"string", "argv"}

Refused(c, o) ==
    \/ CheckUnsupported(c)
    \/ \E f \in Range(c.files) : FileFails(f)
    \/ PatchFails(c, o)
    \/ \E m \in Range(c.bootcmd) \cup Range(c.runcmd) : CommandFails(m)

\* The rendered script: the files, then bootcmd, then runcmd.
Script ==
    [i \in DOMAIN config.files |->
        [do |-> "file", file |-> [config.files[i] EXCEPT !.docs = PatchKubeadmConfig(@, opts)]]]
    \o [i \in DOMAIN config.bootcmd |-> [do |-> "command", lines |-> config.bootcmd[i].lines]]
    \o [i \in DOMAIN config.runcmd  |-> [do |-> "command", lines |-> config.runcmd[i].lines]]

-----------------------------------------------------------------------------
(* What bash makes of it.  bad is the set of places <<line, place>> whose  *)
(* simple command fails when it is reached.                                *)

Places(lines) == UNION {{<<i, j>> : j \in DOMAIN lines[i]} : i \in DOMAIN lines}

\* && stops at the first command that fails.
Reached(lines, bad) == {p \in Places(lines) : \A k \in 1 .. p[2] - 1 : <<p[1], k>> \notin bad}
LineFails(i, lines, bad) == \E j \in DOMAIN lines[i] : <<i, j>> \in bad

\* Mutant: set -e alone.  It ends the script at a command that fails as the last
\* of its list, and lets a list that failed earlier pass.
ErrexitCommand(lines, bad) ==
    LET ends == {i \in DOMAIN lines : LineFails(i, lines, bad)
                     /\ <<i, Len(lines[i])>> \in Reached(lines, bad)}
    IN  [ran   |-> {p \in Reached(lines, bad) : \A i \in ends : p[1] <= i},
         stops |-> ends # {}]

\* guardCommand: { lines } || exit $?.  On the left of || errexit is off, so
\* every line runs and the group has the status of the last; an empty group is
\* a syntax error.
GuardCommand(lines, bad) ==
    [ran   |-> Reached(lines, bad),
     stops |-> lines = <<>> \/ LineFails(Len(lines), lines, bad)]

-----------------------------------------------------------------------------

TypeOK ==
    /\ config \in CloudConfigs /\ opts \in Options
    /\ at \in 1 .. Len(Script) + 1
    /\ exit \in {"running", "zero", "nonzero", "refused"}
    /\ DOMAIN disk = Paths
    /\ \A p \in Paths : \A doc \in Range(disk[p]) \cup Range(joined) : WellFormed(doc)
    /\ \A x \in failed : Script[x[1]].do = "command"
    /\ sentinel \in BOOLEAN
    /\ runs \in 0 .. MaxRuns

Init ==
    /\ config \in CloudConfigs /\ opts \in Options
    /\ at = 1
    /\ exit = IF Refused(config, opts) THEN "refused" ELSE "running"
    /\ disk = [p \in Paths |-> <<>>]
    /\ failed = {}
    /\ joined = NotJoined
    /\ sentinel = FALSE
    /\ runs = IF Refused(config, opts) THEN 0 ELSE 1

Running == exit = "running" /\ at <= Len(Script)

RenderFile(f) == IF f.append THEN disk[f.path] \o f.docs ELSE f.docs

\* install -d, the redirection, chown and chmod.  One that fails ends the
\* script, before or after the file has its contents.
WriteFile ==
    /\ Running /\ Script[at].do = "file"
    /\ LET f == Script[at].file
           written == [disk EXCEPT ![f.path] = RenderFile(f)]
       IN  \/ disk' = written /\ at' = at + 1 /\ UNCHANGED exit
           \/ disk' \in {disk, written} /\ exit' = "nonzero" /\ UNCHANGED at
    /\ UNCHANGED <<config, opts, failed, joined, sentinel, runs>>

\* kubeadm fails without its configuration, and on a host that has joined already.
MayRun(simple) == simple = "kubeadm" => joined = NotJoined /\ disk[KubeadmPath] # <<>>

\* One entry of bootcmd or runcmd.  What the commands do to kubeadm's file is left
\* out: an operator's command may append a document to it behind the patch.
RunCommand ==
    /\ Running /\ Script[at].do = "command"
    /\ LET lines == Script[at].lines
       IN  \E bad \in SUBSET Places(lines) :
             LET result    == GuardCommand(lines, bad)
                 succeeded == {lines[p[1]][p[2]] : p \in result.ran \ bad}
             IN  /\ bad \subseteq result.ran
                 /\ \A simple \in succeeded : MayRun(simple)
                 /\ failed' = failed \cup {<<at, p[1], p[2]>> : p \in bad}
                 /\ joined' = IF "kubeadm" \in succeeded THEN disk[KubeadmPath] ELSE joined
                 /\ sentinel' = (sentinel \/ "sentinel" \in succeeded)
                 /\ IF result.stops THEN exit' = "nonzero" /\ UNCHANGED at
                                    ELSE at' = at + 1 /\ UNCHANGED exit
    /\ UNCHANGED <<config, opts, disk, runs>>

Finish ==
    /\ exit = "running" /\ at > Len(Script)
    /\ exit' = "zero"
    /\ UNCHANGED <<config, opts, at, disk, failed, joined, sentinel, runs>>

\* An operator re-runs the artifact by hand.
Rerun ==
    /\ exit \in {"zero", "nonzero"} /\ runs < MaxRuns
    /\ at' = 1 /\ exit' = "running" /\ failed' = {} /\ runs' = runs + 1
    /\ UNCHANGED <<config, opts, disk, joined, sentinel>>

Next == WriteFile \/ RunCommand \/ Finish \/ Rerun

Spec == Init /\ [][Next]_vars

-----------------------------------------------------------------------------
(* Properties.                                                             *)

\* A script that exits 0 skipped no directive, every entry of bootcmd and runcmd
\* ended with status 0, so that an entry of one line had no command that failed,
\* and a cloud-config that calls kubeadm has a node and its sentinel to show for
\* it.  Exit 0 is what makes the controller report the machine provisioned.  It
\* does not mean that every command succeeded: guardCommand looks at the last
\* line of an entry only, and a line before it may fail unnoticed although the
\* operator's commands "run under `set -e`" (internal/config/types.go:61), since
\* bash turns errexit off on the left of ||.
ZeroMeansEntriesSucceeded ==
    exit = "zero" =>
        /\ config.directives \subseteq Supported
        /\ \A x \in failed : x[2] < Len(Script[x[1]].lines)
        /\ (\E m \in Range(config.runcmd) : "kubeadm" \in Range(Last(m.lines)))
               => joined # NotJoined /\ sentinel

\* What a path holds after a write_files entry, as the bootstrap data has it.
Lands(docs, f, path) ==
    IF f.path # path THEN docs ELSE IF f.append THEN docs \o f.docs ELSE f.docs

\* The documents the first k files have for a path, before any patch, and those all have.
GivenBy(path) ==
    LET given[k \in 0 .. Len(config.files)] ==
            IF k = 0 THEN <<>> ELSE Lands(given[k - 1], config.files[k], path)
    IN  given

Given(path) == GivenBy(path)[Len(config.files)]

ListsFlagsOnce(doc) ==
    \A i, j \in DOMAIN doc.args : doc.args[i].name = doc.args[j].name => i = j

PinnedFlag(doc, name) ==
    /\ \E a \in Range(doc.args) : a.name = name
    /\ \A a \in Range(doc.args) : a.name = name => a.value = "pinned"

\* A node never joins without the provider ID and the address kg was given for
\* its host, whatever the bootstrap data said, as long as that lists no kubelet
\* flag twice: kubeadm read at least one configuration for this machine, each of
\* which carries every pinned flag, and no other value for one, and the pinned
\* endpoint where it has an endpoint.
JoinedIsPinned ==
    /\ joined # NotJoined /\ KubeletArgs(opts) # <<>>
    /\ \A doc \in Range(Given(KubeadmPath)) : ListsFlagsOnce(doc)
    => /\ \E doc \in Range(joined) : IsKubeadmConfig(doc)
       /\ \A doc \in Range(joined) : IsKubeadmConfig(doc) =>
              /\ opts.ProviderID => PinnedFlag(doc, "provider-id")
              /\ opts.HostAddress => PinnedFlag(doc, "node-ip")
              /\ opts.HostAddress /\ Advertises(doc) => doc.endpoint = "pinned"

\* Every flag keeps its place, one that kg does not pin its value too, and what is
\* added behind them is pinned.
KeepsFlags(doc, given) ==
    /\ Len(given.args) <= Len(doc.args)
    /\ \A i \in DOMAIN given.args :
          /\ doc.args[i].name = given.args[i].name
          /\ given.args[i].name \notin Range(KubeletArgs(opts)) => doc.args[i] = given.args[i]
    /\ \A i \in DOMAIN doc.args \ DOMAIN given.args :
          doc.args[i].name \in Range(KubeletArgs(opts))

\* Pinning loses nothing, also when the script is run a second time: kubeadm
\* reads the documents of the bootstrap data, in their order, each keeps the
\* flags kg does not pin and an endpoint kg was given no address for, and a
\* section that was there keeps its shape.
NothingElseChanges ==
    joined # NotJoined =>
        /\ Len(joined) = Len(Given(KubeadmPath))
        /\ \A i \in DOMAIN joined :
               LET given == Given(KubeadmPath)[i]
               IN  IF IsKubeadmConfig(given)
                   THEN /\ joined[i].kind = given.kind /\ KeepsFlags(joined[i], given)
                        /\ joined[i].controlPlane = given.controlPlane
                        /\ given.shape # "nil" => joined[i].shape = given.shape
                        /\ joined[i].endpoint # given.endpoint => opts.HostAddress /\ Advertises(given)
                   ELSE joined[i] = given
=============================================================================
