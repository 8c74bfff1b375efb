--------------------------- MODULE CloudInitProofs ---------------------------
(***************************************************************************)
(* What a rendered script that exits 0 has done, and what a node joins     *)
(* with, for all bootstrap data of the shape the bootstrap provider emits. *)
(***************************************************************************)
EXTENDS CloudInit, SequenceTheorems, WellFoundedInduction, TLAPS

\* The file that is written for the i-th write_files entry.
Written(i) == [config.files[i] EXCEPT !.docs = PatchKubeadmConfig(config.files[i].docs, opts)]

FileStep(i)    == [do |-> "file", file |-> Written(i)]
CommandStep(m) == [do |-> "command", lines |-> m.lines]

\* The cloud-config is a list of files and two lists of commands.
LEMMA ConfigShape ==
    ASSUME config \in CloudConfigs
    PROVE  /\ config.files \in Seq(Files) /\ config.bootcmd \in Seq(Commands)
           /\ config.runcmd \in Seq(Commands) /\ Len(config.files) \in Nat
           /\ \A i \in 1 .. Len(config.files) : config.files[i] \in Files
           /\ \A m \in Range(config.bootcmd) \cup Range(config.runcmd) : m \in Commands
BY ConfigsAssumption DEF Range

\* A set of natural numbers that is not empty has a least element.
LEMMA LeastNatural ==
    ASSUME NEW T, T \subseteq Nat, T # {}
    PROVE  \E n \in T : \A m \in T : n <= m
<1>1. PICK n \in T : \A m \in T : ~(<<m, n>> \in OpToRel(<, Nat))
  BY NatLessThanWellFounded, WFMin
<1>2. \A m \in T : ~(m < n) BY <1>1 DEF OpToRel
<1>. QED BY <1>2

\* A function on the first k numbers is a list of length k.
LEMMA ListTyped ==
    ASSUME NEW S, NEW k \in Nat, NEW f \in [1 .. k -> S]
    PROVE  f \in Seq(S) /\ Len(f) = k
<1>1. f \in Seq(S) BY SeqDef
<1>. QED BY <1>1, LenProperties

\* Two lists with the same places have the same length.
LEMMA SameLength ==
    ASSUME NEW m \in Nat, NEW n \in Nat, 1 .. m = 1 .. n
    PROVE  m = n
<1>1. m # 0 => m \in 1 .. n OBVIOUS
<1>2. n # 0 => n \in 1 .. m OBVIOUS
<1>. QED BY <1>1, <1>2

\* Three lists in a row.
LEMMA ThreeLists ==
    ASSUME NEW S, NEW a \in Seq(S), NEW b \in Seq(S), NEW c \in Seq(S)
    PROVE  /\ (a \o b) \o c \in Seq(S)
           /\ Len((a \o b) \o c) = Len(a) + Len(b) + Len(c)
           /\ \A i \in 1 .. Len(a) : ((a \o b) \o c)[i] = a[i]
           /\ \A i \in 1 .. Len(b) : ((a \o b) \o c)[Len(a) + i] = b[i]
           /\ \A i \in 1 .. Len(c) : ((a \o b) \o c)[Len(a) + Len(b) + i] = c[i]
<1>. DEFINE ab == a \o b
            t  == ab \o c
<1>0. Len(a) \in Nat /\ Len(b) \in Nat /\ Len(c) \in Nat BY LenProperties
<1>1. /\ ab \in Seq(S) /\ Len(ab) = Len(a) + Len(b)
      /\ \A i \in 1 .. Len(a) + Len(b) : ab[i] = IF i <= Len(a) THEN a[i] ELSE b[i - Len(a)]
  BY ConcatProperties, Zenon
<1>. HIDE DEF ab
<1>2. /\ t \in Seq(S) /\ Len(t) = Len(ab) + Len(c)
      /\ \A i \in 1 .. Len(ab) + Len(c) : t[i] = IF i <= Len(ab) THEN ab[i] ELSE c[i - Len(ab)]
  <2>1. ab \in Seq(S) BY <1>1
  <2>. QED BY <2>1, ConcatProperties, Zenon
<1>. HIDE DEF t
<1>3. ASSUME NEW i \in 1 .. Len(a) PROVE t[i] = a[i]
  <2>1. i \in 1 .. Len(a) + Len(b) /\ i \in 1 .. Len(ab) + Len(c) BY <1>0, <1>1
  <2>. QED BY <1>0, <1>1, <1>2, <2>1
<1>4. ASSUME NEW i \in 1 .. Len(b) PROVE t[Len(a) + i] = b[i]
  <2>. DEFINE j == Len(a) + i
  <2>1. /\ j \in 1 .. Len(a) + Len(b) /\ j \in 1 .. Len(ab) + Len(c)
        /\ ~(j <= Len(a)) /\ j - Len(a) = i /\ j <= Len(ab)
    BY <1>0, <1>1
  <2>. HIDE DEF j
  <2>2. t[j] = ab[j] /\ ab[j] = b[j - Len(a)] BY <1>1, <1>2, <2>1
  <2>. QED BY <2>1, <2>2 DEF j
<1>5. ASSUME NEW i \in 1 .. Len(c) PROVE t[Len(a) + Len(b) + i] = c[i]
  <2>. DEFINE j == Len(a) + Len(b) + i
  <2>1. j \in 1 .. Len(ab) + Len(c) /\ ~(j <= Len(ab)) /\ j - Len(ab) = i BY <1>0, <1>1
  <2>. HIDE DEF j
  <2>2. t[j] = c[j - Len(ab)] BY <1>2, <2>1
  <2>. QED BY <2>1, <2>2 DEF j
<1>6. Len(t) = Len(a) + Len(b) + Len(c) BY <1>0, <1>1, <1>2
<1>. QED BY <1>2, <1>3, <1>4, <1>5, <1>6, Zenon DEF t, ab

\* The script writes the files, and then runs every command.
LEMMA ScriptShape ==
    ASSUME config \in CloudConfigs
    PROVE  /\ Len(Script) \in Nat /\ DOMAIN Script = 1 .. Len(Script)
           /\ \A s \in 1 .. Len(Script) :
                 IF s <= Len(config.files) THEN Script[s] = FileStep(s)
                 ELSE \E m \in Range(config.bootcmd) \cup Range(config.runcmd) :
                         Script[s] = CommandStep(m)
           /\ \A m \in Range(config.runcmd) :
                 \E s \in 1 .. Len(Script) : Script[s] = CommandStep(m)
<1>. DEFINE F == config.files
            B == config.bootcmd
            R == config.runcmd
            f == [i \in DOMAIN F |-> FileStep(i)]
            b == [i \in DOMAIN B |-> CommandStep(B[i])]
            r == [i \in DOMAIN R |-> CommandStep(R[i])]
            S == {FileStep(i) : i \in DOMAIN F} \cup {CommandStep(B[i]) : i \in DOMAIN B}
                    \cup {CommandStep(R[i]) : i \in DOMAIN R}
<1>1. /\ F \in Seq(Files) /\ B \in Seq(Commands) /\ R \in Seq(Commands) BY ConfigShape
<1>2. /\ Len(F) \in Nat /\ Len(B) \in Nat /\ Len(R) \in Nat
      /\ DOMAIN F = 1 .. Len(F) /\ DOMAIN B = 1 .. Len(B) /\ DOMAIN R = 1 .. Len(R)
  BY <1>1, LenProperties
<1>3. Script = (f \o b) \o r BY DEF Script, FileStep, CommandStep, Written
<1>. HIDE DEF F, B, R
<1>4. /\ f \in Seq(S) /\ b \in Seq(S) /\ r \in Seq(S)
      /\ Len(f) = Len(F) /\ Len(b) = Len(B) /\ Len(r) = Len(R)
  BY <1>2
<1>5. /\ \A i \in 1 .. Len(F) : f[i] = FileStep(i)
      /\ \A i \in 1 .. Len(B) : b[i] = CommandStep(B[i])
      /\ \A i \in 1 .. Len(R) : r[i] = CommandStep(R[i])
  BY <1>2
<1>. HIDE DEF f, b, r, S
<1>7. /\ Script \in Seq(S) /\ Len(Script) = Len(F) + Len(B) + Len(R)
      /\ \A i \in 1 .. Len(F) : Script[i] = f[i]
      /\ \A i \in 1 .. Len(B) : Script[Len(F) + i] = b[i]
      /\ \A i \in 1 .. Len(R) : Script[Len(F) + Len(B) + i] = r[i]
  <2>. DEFINE t == (f \o b) \o r
  <2>1. f \in Seq(S) /\ b \in Seq(S) /\ r \in Seq(S) BY <1>4
  <2>2. /\ t \in Seq(S) /\ Len(t) = Len(f) + Len(b) + Len(r)
        /\ \A i \in 1 .. Len(f) : t[i] = f[i]
        /\ \A i \in 1 .. Len(b) : t[Len(f) + i] = b[i]
        /\ \A i \in 1 .. Len(r) : t[Len(f) + Len(b) + i] = r[i]
    BY <2>1, ThreeLists
  <2>3. Script = t BY <1>3, Zenon
  <2>. HIDE DEF t
  <2>. QED BY <1>4, <2>2, <2>3
<1>8. Len(Script) \in Nat /\ DOMAIN Script = 1 .. Len(Script) BY <1>7, LenProperties
<1>9. ASSUME NEW s \in 1 .. Len(Script)
      PROVE  IF s <= Len(F) THEN Script[s] = FileStep(s)
             ELSE \E m \in Range(B) \cup Range(R) : Script[s] = CommandStep(m)
  <2>1. CASE s <= Len(F)
    <3>1. s \in 1 .. Len(F) BY <1>2, <1>7, <2>1
    <3>. QED BY <1>5, <1>7, <2>1, <3>1
  <2>2. CASE s > Len(F) /\ s <= Len(F) + Len(B)
    <3>0. s - Len(F) \in 1 .. Len(B) /\ s = Len(F) + (s - Len(F)) BY <1>2, <1>7, <2>2
    <3>1. PICK i \in 1 .. Len(B) : s = Len(F) + i BY <3>0
    <3>2. Script[s] = CommandStep(B[i]) BY <1>5, <1>7, <3>1
    <3>. QED BY <1>2, <2>2, <3>2 DEF Range
  <2>3. CASE s > Len(F) + Len(B)
    <3>0. /\ s - (Len(F) + Len(B)) \in 1 .. Len(R)
          /\ s = Len(F) + Len(B) + (s - (Len(F) + Len(B)))
      BY <1>2, <1>7, <2>3
    <3>1. PICK i \in 1 .. Len(R) : s = Len(F) + Len(B) + i BY <3>0
    <3>2. Script[s] = CommandStep(R[i]) BY <1>5, <1>7, <3>1
    <3>. QED BY <1>2, <2>3, <3>2 DEF Range
  <2>. QED BY <1>2, <1>7, <2>1, <2>2, <2>3
<1>10. ASSUME NEW m \in Range(R) PROVE \E s \in 1 .. Len(Script) : Script[s] = CommandStep(m)
  <2>1. PICK i \in 1 .. Len(R) : m = R[i] BY <1>2 DEF Range
  <2>2. Len(F) + Len(B) + i \in 1 .. Len(Script) BY <1>2, <1>7
  <2>3. Script[Len(F) + Len(B) + i] = CommandStep(m) BY <1>2, <1>5, <1>7, <2>1, <2>2
  <2>. QED BY <2>2, <2>3
<1>. QED BY <1>8, <1>9, <1>10 DEF F, B, R

-----------------------------------------------------------------------------
(* The kubeadm patch.                                                      *)

Args == [name: Flags, value: {"theirs", "pinned"}]

Once(args)        == \A i, j \in DOMAIN args : args[i].name = args[j].name => i = j
Pinned(args, n)   == /\ \E i \in DOMAIN args : args[i].name = n
                     /\ \A i \in DOMAIN args : args[i].name = n => args[i].value = "pinned"

\* upsertArgList leaves a list of flags, in which no flag is pinned less than before;
\* if none was there twice, none is now, and the flag that is set is pinned.
LEMMA UpsertPins ==
    ASSUME NEW args \in Seq(Args), NEW n \in Flags
    PROVE  /\ UpsertArg(args, n) \in Seq(Args)
           /\ Once(args) => Once(UpsertArg(args, n)) /\ Pinned(UpsertArg(args, n), n)
           /\ \A k \in Flags : Pinned(args, k) => Pinned(UpsertArg(args, n), k)
<1>. DEFINE H == {i \in DOMAIN args : args[i].name = n}
            new == [name |-> n, value |-> "pinned"]
<1>0. /\ Len(args) \in Nat /\ DOMAIN args = 1 .. Len(args) /\ new \in Args
      /\ \A i \in DOMAIN args : args[i] \in Args
  <2>1. Len(args) \in Nat /\ DOMAIN args = 1 .. Len(args) BY LenProperties
  <2>2. \A i \in 1 .. Len(args) : args[i] \in Args BY ElementOfSeq
  <2>. QED BY <2>1, <2>2 DEF Args
<1>1. CASE H = {}
  <2>. DEFINE r == Append(args, new)
  <2>1. UpsertArg(args, n) = r BY <1>1 DEF UpsertArg
  <2>2. /\ r \in Seq(Args) /\ Len(r) = Len(args) + 1 /\ r[Len(args) + 1] = new
        /\ \A i \in 1 .. Len(args) : r[i] = args[i]
    BY <1>0
  <2>3. DOMAIN r = 1 .. Len(args) + 1 BY <2>2
  <2>. HIDE DEF r
  <2>4. \A i \in DOMAIN r : \/ i = Len(args) + 1 /\ r[i].name = n /\ r[i].value = "pinned"
                            \/ i \in DOMAIN args /\ r[i] = args[i] /\ r[i].name # n
    BY <1>0, <1>1, <2>2, <2>3
  <2>5. Len(args) + 1 \in DOMAIN r BY <1>0, <2>3
  <2>6. Once(args) => Once(r) BY <2>4 DEF Once
  <2>7. Pinned(r, n) BY <2>4, <2>5, <1>0 DEF Pinned
  <2>8. ASSUME NEW k \in Flags, Pinned(args, k) PROVE Pinned(r, k)
    <3>1. \A i \in DOMAIN args : i \in DOMAIN r /\ r[i] = args[i] BY <1>0, <2>2, <2>3
    <3>. QED BY <2>4, <2>8, <3>1 DEF Pinned
  <2>. QED BY <2>1, <2>2, <2>6, <2>7, <2>8
<1>2. CASE H # {}
  <2>. DEFINE c == CHOOSE i \in H : \A j \in H : i <= j
              a == [args[c] EXCEPT !.value = "pinned"]
              r == [args EXCEPT ![c] = a]
  <2>1. UpsertArg(args, n) = r BY <1>2 DEF UpsertArg
  <2>. HIDE DEF c
  <2>2. c \in DOMAIN args => a \in Args /\ a.name = args[c].name /\ a.value = "pinned"
    BY <1>0 DEF Args
  <2>. HIDE DEF a
  <2>3. /\ r \in Seq(Args) /\ DOMAIN r = DOMAIN args
        /\ \A i \in DOMAIN args : r[i] = IF i = c THEN a ELSE args[i]
    <3>1. DOMAIN r = DOMAIN args /\ \A i \in DOMAIN args : r[i] = IF i = c THEN a ELSE args[i]
      OBVIOUS
    <3>2. r \in [1 .. Len(args) -> Args] BY <1>0, <2>2, <3>1
    <3>3. r \in Seq(Args) BY <1>0, <3>2, SeqDef
    <3>. QED BY <3>1, <3>3
  <2>. HIDE DEF r
  <2>4. \A i \in DOMAIN args : /\ r[i].name = args[i].name
                               /\ r[i].value = "pinned" \/ r[i] = args[i]
    BY <2>2, <2>3
  <2>5. Once(args) => Once(r) BY <2>3, <2>4 DEF Once
  <2>6. Once(args) => Pinned(r, n)
    <3>. SUFFICES ASSUME Once(args) PROVE Pinned(r, n) OBVIOUS
    <3>1. PICK i \in H : TRUE BY <1>2
    <3>2. H = {i} BY <3>1 DEF Once
    <3>3. c = i
      <4>1. i <= i BY <1>0
      <4>. QED BY <3>2, <4>1 DEF c
    <3>4. r[i].value = "pinned" /\ r[i].name = n BY <2>2, <2>3, <3>1, <3>3
    <3>5. \A j \in DOMAIN r : r[j].name = n => j = i BY <2>3, <2>4, <3>2
    <3>. QED BY <2>3, <3>1, <3>4, <3>5 DEF Pinned
  <2>7. \A k \in Flags : Pinned(args, k) => Pinned(r, k) BY <2>3, <2>4 DEF Pinned
  <2>. QED BY <2>1, <2>3, <2>5, <2>6, <2>7
<1>. QED BY <1>1, <1>2

\* The flags of old keep their places in new, those that are not in N their values too, and
\* what is added is in N.
Keeps(new, old, N) ==
    /\ Len(old) <= Len(new)
    /\ \A i \in DOMAIN old :
          /\ new[i].name = old[i].name
          /\ old[i].name \notin N => new[i] = old[i]
    /\ \A i \in DOMAIN new \ DOMAIN old : new[i].name \in N

\* upsertArgList touches no other flag.
LEMMA UpsertKeeps ==
    ASSUME NEW args \in Seq(Args), NEW n \in Flags
    PROVE  Keeps(UpsertArg(args, n), args, {n})
<1>. DEFINE H == {i \in DOMAIN args : args[i].name = n}
            new == [name |-> n, value |-> "pinned"]
            m == Len(args)
<1>0. /\ m \in Nat /\ DOMAIN args = 1 .. m /\ new.name = n
      /\ \A i \in DOMAIN args : args[i] \in Args
  <2>1. m \in Nat /\ DOMAIN args = 1 .. m BY LenProperties
  <2>2. \A i \in 1 .. m : args[i] \in Args BY ElementOfSeq
  <2>. QED BY <2>1, <2>2
<1>1. CASE H = {}
  <2>. DEFINE r == Append(args, new)
  <2>1. UpsertArg(args, n) = r BY <1>1 DEF UpsertArg
  <2>2. DOMAIN r = 1 .. m + 1 /\ Len(r) = m + 1 /\ r[m + 1] = new /\ \A i \in 1 .. m : r[i] = args[i]
    OBVIOUS
  <2>. HIDE DEF r, m, new
  <2>3. m <= Len(r) BY <1>0, <2>2
  <2>4. \A i \in DOMAIN r \ DOMAIN args : i = m + 1 BY <1>0, <2>2
  <2>. QED BY <1>0, <2>1, <2>2, <2>3, <2>4 DEF Keeps, m
<1>2. CASE H # {}
  <2>. DEFINE c == CHOOSE i \in H : \A j \in H : i <= j
              a == [args[c] EXCEPT !.value = "pinned"]
              r == [args EXCEPT ![c] = a]
  <2>1. UpsertArg(args, n) = r BY <1>2 DEF UpsertArg
  <2>2. c \in H
    <3>1. H \subseteq Nat BY <1>0
    <3>2. PICK i \in H : \A j \in H : i <= j
      <4>. HIDE DEF H
      <4>. QED BY <1>2, <3>1, LeastNatural
    <3>. QED BY <3>2
  <2>. HIDE DEF c
  <2>3. a.name = n BY <1>0, <2>2 DEF Args
  <2>. HIDE DEF a
  <2>4. DOMAIN r = DOMAIN args /\ \A i \in DOMAIN args : r[i] = IF i = c THEN a ELSE args[i]
    OBVIOUS
  <2>5. Len(r) = m
    <3>1. r \in [1 .. m -> {r[i] : i \in 1 .. m}] BY <1>0, <2>4
    <3>. HIDE DEF r, m
    <3>2. r \in Seq({r[i] : i \in 1 .. m}) BY <1>0, <3>1, SeqDef
    <3>3. DOMAIN r = 1 .. Len(r) /\ Len(r) \in Nat BY <3>2, LenProperties
    <3>. QED BY <1>0, <2>4, <3>3
  <2>. HIDE DEF r
  <2>6. m <= Len(r) BY <1>0, <2>5
  <2>7. \A i \in DOMAIN args : r[i].name = args[i].name /\ (args[i].name # n => r[i] = args[i])
    BY <2>2, <2>3, <2>4
  <2>. QED BY <2>1, <2>4, <2>6, <2>7 DEF Keeps
<1>. QED BY <1>1, <1>2

\* Keeping flags twice is keeping them.
LEMMA KeepsTwice ==
    ASSUME NEW a \in Seq(Args), NEW b \in Seq(Args), NEW c \in Seq(Args), NEW N, NEW M,
           Keeps(b, a, N), Keeps(c, b, M)
    PROVE  Keeps(c, a, N \cup M)
<1>1. /\ Len(a) \in Nat /\ Len(b) \in Nat /\ Len(c) \in Nat
      /\ DOMAIN a = 1 .. Len(a) /\ DOMAIN b = 1 .. Len(b) /\ DOMAIN c = 1 .. Len(c)
  BY LenProperties
<1>2. Len(a) <= Len(b) /\ Len(b) <= Len(c) BY DEF Keeps
<1>3. Len(a) <= Len(c) /\ DOMAIN a \subseteq DOMAIN b /\ DOMAIN b \subseteq DOMAIN c BY <1>1, <1>2
<1>4. ASSUME NEW i \in DOMAIN a
      PROVE  c[i].name = a[i].name /\ (a[i].name \notin N \cup M => c[i] = a[i])
  <2>1. i \in DOMAIN b BY <1>3
  <2>2. b[i].name = a[i].name /\ (a[i].name \notin N => b[i] = a[i]) BY Zenon DEF Keeps
  <2>3. c[i].name = b[i].name /\ (b[i].name \notin M => c[i] = b[i]) BY <2>1, Zenon DEF Keeps
  <2>. QED BY <2>2, <2>3, Zenon
<1>5. ASSUME NEW i \in DOMAIN c \ DOMAIN a PROVE c[i].name \in N \cup M
  <2>1. CASE i \in DOMAIN b
    <3>1. b[i].name \in N BY <2>1, Zenon DEF Keeps
    <3>2. c[i].name = b[i].name BY <2>1, Zenon DEF Keeps
    <3>. QED BY <3>1, <3>2, Zenon
  <2>2. CASE i \notin DOMAIN b
    <3>1. c[i].name \in M BY <2>2, Zenon DEF Keeps
    <3>. QED BY <3>1, Zenon
  <2>. QED BY <2>1, <2>2
<1>. QED BY <1>3, <1>4, <1>5, Zenon DEF Keeps

\* What setKubeletExtraArg makes of a document whose section has a shape.
LEMMA FlagIsSet ==
    ASSUME NEW doc, WellFormed(doc), doc.shape # "scalar", NEW n \in Flags
    PROVE  LET d == SetKubeletExtraArg(doc, n)
           IN  /\ WellFormed(d) /\ d.shape # "scalar"
               /\ d.kind = doc.kind /\ d.controlPlane = doc.controlPlane
               /\ d.endpoint = doc.endpoint /\ (doc.shape # "nil" => d.shape = doc.shape)
               /\ d.args \in Seq(Args) /\ Keeps(d.args, doc.args, {n})
               /\ Once(doc.args) => Once(d.args) /\ Pinned(d.args, n)
               /\ \A k \in Flags : Pinned(doc.args, k) => Pinned(d.args, k)
<1>0. doc \in Documents /\ doc.args \in Seq(Args) BY DEF WellFormed, Documents, Args
<1>1. CASE doc.shape = "nil"
  <2>. DEFINE u == UpsertArg(<<>>, n)
              s == IF UsesArgList(doc.apiVersion) THEN "list" ELSE "map"
              d == [doc EXCEPT !.shape = s, !.args = u]
  <2>1. /\ <<>> \in Seq(Args) /\ Once(<<>>) BY DEF Once
  <2>2. u \in Seq(Args) /\ Once(u) /\ Pinned(u, n) /\ Keeps(u, <<>>, {n})
    BY <2>1, UpsertPins, UpsertKeeps
  <2>3. s \in {"list", "map"} OBVIOUS
  <2>. HIDE DEF u, s
  <2>4. /\ d \in Documents /\ d.shape = s /\ d.args = u /\ d.kind = doc.kind
        /\ d.controlPlane = doc.controlPlane /\ d.endpoint = doc.endpoint
    BY <1>0, <2>2, <2>3 DEF Documents, Args
  <2>5. SetKubeletExtraArg(doc, n) = d BY <1>1 DEF SetKubeletExtraArg, u, s
  <2>6. doc.args = <<>> /\ \A k \in Flags : ~Pinned(doc.args, k)
    BY <1>1 DEF WellFormed, Pinned
  <2>. HIDE DEF d
  <2>. QED BY <1>1, <2>2, <2>3, <2>4, <2>5, <2>6 DEF WellFormed
<1>2. CASE doc.shape # "nil"
  <2>. DEFINE u == UpsertArg(doc.args, n)
              d == [doc EXCEPT !.args = u]
  <2>1. /\ u \in Seq(Args) /\ (Once(doc.args) => Once(u) /\ Pinned(u, n))
        /\ \A k \in Flags : Pinned(doc.args, k) => Pinned(u, k)
        /\ Keeps(u, doc.args, {n})
    BY <1>0, UpsertPins, UpsertKeeps
  <2>. HIDE DEF u
  <2>2. /\ d \in Documents /\ d.shape = doc.shape /\ d.args = u /\ d.kind = doc.kind
        /\ d.controlPlane = doc.controlPlane /\ d.endpoint = doc.endpoint
    BY <1>0, <2>1 DEF Documents, Args
  <2>3. SetKubeletExtraArg(doc, n) = d BY <1>2 DEF SetKubeletExtraArg, u
  <2>. HIDE DEF d
  <2>. QED BY <1>2, <2>1, <2>2, <2>3 DEF WellFormed
<1>. QED BY <1>1, <1>2

\* There is something to pin if the caller gave a provider ID or an address.
LEMMA NothingToPin ==
    ASSUME NEW o \in Options
    PROVE  KubeletArgs(o) = <<>> <=> ~o.ProviderID /\ ~o.HostAddress
<1>1. o.ProviderID \in BOOLEAN /\ o.HostAddress \in BOOLEAN BY OptionsAssumption
<1>2. <<>> \o <<>> = <<>> OBVIOUS
<1>3. /\ Len(<<"provider-id">> \o <<>>) = 1 /\ Len(<<>> \o <<"node-ip">>) = 1
      /\ Len(<<"provider-id">> \o <<"node-ip">>) = 2 /\ Len(<<>>) = 0
  OBVIOUS
<1>. QED BY <1>1, <1>2, <1>3 DEF KubeletArgs

\* The flags and the endpoint kg was given for the host.
PinnedDoc(doc, o) ==
    IsKubeadmConfig(doc) =>
        /\ o.ProviderID => Pinned(doc.args, "provider-id")
        /\ o.HostAddress => Pinned(doc.args, "node-ip")
        /\ o.HostAddress /\ Advertises(doc) => doc.endpoint = "pinned"

\* The flags that are set are the ones that were given.
LEMMA GivenFlags ==
    ASSUME NEW o \in Options
    PROVE  /\ o.ProviderID => "provider-id" \in Range(KubeletArgs(o))
           /\ o.HostAddress => "node-ip" \in Range(KubeletArgs(o))
<1>. DEFINE p == IF o.ProviderID THEN <<"provider-id">> ELSE <<>>
            a == IF o.HostAddress THEN <<"node-ip">> ELSE <<>>
            S == {"provider-id", "node-ip"}
<1>1. p \in Seq(S) /\ a \in Seq(S)
  <2>1. <<"provider-id">> \in Seq(S) /\ <<"node-ip">> \in Seq(S) /\ <<>> \in Seq(S) OBVIOUS
  <2>. QED BY <2>1, Zenon
<1>2. (o.ProviderID => "provider-id" \in Range(p)) /\ (o.HostAddress => "node-ip" \in Range(a))
  <2>1. 1 \in DOMAIN <<"provider-id">> /\ <<"provider-id">>[1] = "provider-id" OBVIOUS
  <2>2. 1 \in DOMAIN <<"node-ip">> /\ <<"node-ip">>[1] = "node-ip" OBVIOUS
  <2>. QED BY <2>1, <2>2 DEF Range
<1>3. KubeletArgs(o) = p \o a BY DEF KubeletArgs
<1>. HIDE DEF p, a, S
<1>4. Range(p \o a) = Range(p) \cup Range(a) BY <1>1, RangeConcatenation
<1>. QED BY <1>2, <1>3, <1>4

\* What is pinned is all that changes in a configuration.
OnlyPinned(d, doc, o) ==
    /\ d.kind = doc.kind /\ d.controlPlane = doc.controlPlane
    /\ Keeps(d.args, doc.args, Range(KubeletArgs(o)))
    /\ doc.shape # "nil" => d.shape = doc.shape
    /\ d.endpoint # doc.endpoint => o.HostAddress /\ Advertises(doc)

\* A configuration that can be patched is, and carries every value that was given, if it
\* named no flag twice; nothing else of it changes.
LEMMA DocumentIsPatched ==
    ASSUME NEW o \in Options, NEW doc, WellFormed(doc), IsKubeadmConfig(doc), ~CannotPatch(doc, o)
    PROVE  /\ WellFormed(PatchDocument(doc, o)) /\ IsKubeadmConfig(PatchDocument(doc, o))
           /\ Once(doc.args) => PinnedDoc(PatchDocument(doc, o), o)
           /\ OnlyPinned(PatchDocument(doc, o), doc, o)
<1>. DEFINE named == IF o.ProviderID THEN SetKubeletExtraArg(doc, "provider-id") ELSE doc
            both  == SetKubeletExtraArg(named, "node-ip")
            d     == SetAdvertiseAddress(both)
            A     == Range(KubeletArgs(o))
<1>0. /\ o.ProviderID \in BOOLEAN /\ o.HostAddress \in BOOLEAN
      /\ "provider-id" \in Flags /\ "node-ip" \in Flags
  BY OptionsAssumption DEF Flags
<1>1. o.ProviderID \/ o.HostAddress => doc.shape # "scalar"
  BY <1>0, NothingToPin DEF CannotPatch
<1>2. PatchDocument(doc, o) = IF o.HostAddress THEN d ELSE named BY DEF PatchDocument
<1>3. /\ WellFormed(named) /\ named.kind = doc.kind /\ named.controlPlane = doc.controlPlane
      /\ (o.HostAddress => named.shape # "scalar") /\ (Once(doc.args) => Once(named.args))
      /\ Once(doc.args) /\ o.ProviderID => Pinned(named.args, "provider-id")
      /\ named.endpoint = doc.endpoint /\ (doc.shape # "nil" => named.shape = doc.shape)
      /\ named.args \in Seq(Args) /\ Keeps(named.args, doc.args, A)
  <2>1. CASE o.ProviderID
    <3>1. Keeps(named.args, doc.args, {"provider-id"}) /\ named.args \in Seq(Args)
      BY <1>0, <1>1, <2>1, FlagIsSet
    <3>2. "provider-id" \in A BY <2>1, GivenFlags
    <3>. HIDE DEF A
    <3>3. Keeps(named.args, doc.args, A) BY <3>1, <3>2, Zenon DEF Keeps
    <3>. QED BY <1>0, <1>1, <2>1, <3>1, <3>3, FlagIsSet
  <2>2. CASE ~o.ProviderID
    <3>1. named = doc BY <2>2
    <3>2. doc.args \in Seq(Args) BY DEF WellFormed, Documents, Args
    <3>3. Keeps(doc.args, doc.args, A)
      <4>1. Len(doc.args) <= Len(doc.args) BY <3>2, LenProperties
      <4>. QED BY <4>1, Zenon DEF Keeps
    <3>. QED BY <1>1, <2>2, <3>1, <3>2, <3>3
  <2>. QED BY <1>0, <2>1, <2>2
<1>. HIDE DEF named
<1>4. CASE ~o.HostAddress
  BY <1>2, <1>3, <1>4 DEF IsKubeadmConfig, PinnedDoc, OnlyPinned
<1>5. CASE o.HostAddress
  <2>1. /\ WellFormed(both) /\ both.kind = doc.kind /\ both.controlPlane = doc.controlPlane
        /\ Once(doc.args) => Pinned(both.args, "node-ip")
        /\ Once(doc.args) /\ o.ProviderID => Pinned(both.args, "provider-id")
        /\ both.endpoint = named.endpoint /\ (named.shape # "nil" => both.shape = named.shape)
        /\ both.args \in Seq(Args) /\ Keeps(both.args, named.args, {"node-ip"})
    BY <1>0, <1>3, <1>5, FlagIsSet
  <2>. HIDE DEF both
  <2>2. /\ WellFormed(d) /\ d.kind = both.kind /\ d.args = both.args /\ d.shape = both.shape
        /\ d.controlPlane = both.controlPlane /\ (Advertises(d) => d.endpoint = "pinned")
        /\ d.endpoint # both.endpoint => Advertises(both)
    BY <2>1 DEF SetAdvertiseAddress, WellFormed, Documents, Advertises
  <2>. HIDE DEF d
  <2>3. Keeps(d.args, doc.args, A)
    <3>1. doc.args \in Seq(Args) BY DEF WellFormed, Documents, Args
    <3>2. A \cup {"node-ip"} = A BY <1>5, GivenFlags
    <3>. HIDE DEF A
    <3>3. Keeps(both.args, doc.args, A \cup {"node-ip"}) BY <1>3, <2>1, <3>1, KeepsTwice, Zenon
    <3>. QED BY <2>2, <3>2, <3>3, Zenon
  <2>4. OnlyPinned(d, doc, o)
    <3>. HIDE DEF A
    <3>1. doc.shape # "nil" => d.shape = doc.shape BY <1>3, <2>1, <2>2
    <3>2. d.endpoint # doc.endpoint => Advertises(doc)
      BY <1>3, <2>1, <2>2 DEF Advertises
    <3>. QED BY <1>3, <1>5, <2>1, <2>2, <2>3, <3>1, <3>2 DEF OnlyPinned, A
  <2>. QED BY <1>2, <1>5, <2>1, <2>2, <2>4 DEF IsKubeadmConfig, PinnedDoc
<1>. QED BY <1>0, <1>4, <1>5

\* Render accepts a cloud-config only if every document of it can be patched.
LEMMA DocumentsAccepted ==
    ASSUME config \in CloudConfigs, opts \in Options, ~Refused(config, opts),
           NEW doc \in DocumentsOf(config)
    PROVE  WellFormed(doc) /\ ~CannotPatch(doc, opts)
<1>1. CASE KubeletArgs(opts) = <<>>
  <2>1. ~opts.HostAddress BY <1>1, NothingToPin
  <2>. QED BY <1>1, <2>1, ConfigsAssumption DEF CannotPatch
<1>2. CASE KubeletArgs(opts) # <<>>
  BY <1>2, ConfigsAssumption DEF Refused, PatchFails
<1>. QED BY <1>1, <1>2

\* A file of bootstrap data that Render accepts is written with its configurations patched.
LEMMA FileIsPatched ==
    ASSUME config \in CloudConfigs, opts \in Options, ~Refused(config, opts),
           NEW i \in 1 .. Len(config.files)
    PROVE  /\ Written(i).path = config.files[i].path /\ Written(i).append = config.files[i].append
           /\ Written(i).docs \in Seq(Documents) /\ config.files[i].path \in Paths
           /\ Written(i).docs = PatchKubeadmConfig(config.files[i].docs, opts)
           /\ \A doc \in Range(Written(i).docs) : WellFormed(doc)
           /\ (\E doc \in Range(config.files[i].docs) : IsKubeadmConfig(doc))
                 => \E doc \in Range(Written(i).docs) : IsKubeadmConfig(doc)
<1>. DEFINE f == config.files[i]
            p == PatchKubeadmConfig(f.docs, opts)
<1>0. /\ f \in Files /\ i \in DOMAIN config.files /\ f \in Range(config.files)
      /\ f.docs \in Seq(Documents) /\ Len(f.docs) \in Nat /\ DOMAIN f.docs = 1 .. Len(f.docs)
  <2>1. f \in Files /\ config.files \in Seq(Files) BY ConfigShape
  <2>2. i \in DOMAIN config.files BY <2>1, LenProperties
  <2>3. f.docs \in Seq(Documents) BY <2>1 DEF Files
  <2>. QED BY <2>1, <2>2, <2>3, LenProperties DEF Range
<1>1. /\ Written(i).path = f.path /\ Written(i).append = f.append /\ Written(i).docs = p
  BY <1>0 DEF Written, Files
<1>2. f.path \in Paths BY <1>0 DEF Paths
<1>3. ASSUME NEW k \in DOMAIN f.docs
      PROVE  WellFormed(f.docs[k]) /\ ~CannotPatch(f.docs[k], opts)
  <2>1. f.docs[k] \in DocumentsOf(config) BY <1>0 DEF DocumentsOf, Range
  <2>. QED BY <2>1, DocumentsAccepted
<1>4. DOMAIN p = DOMAIN f.docs BY DEF PatchKubeadmConfig
<1>5. ASSUME NEW k \in DOMAIN f.docs
      PROVE  WellFormed(p[k]) /\ (IsKubeadmConfig(f.docs[k]) => IsKubeadmConfig(p[k]))
  <2>. DEFINE g == f.docs[k]
  <2>1. p[k] = IF IsKubeadmConfig(g) THEN PatchDocument(g, opts) ELSE g
    BY DEF PatchKubeadmConfig
  <2>2. WellFormed(g) /\ ~CannotPatch(g, opts) BY <1>3
  <2>. HIDE DEF g, p
  <2>3. CASE IsKubeadmConfig(g) BY <2>1, <2>2, <2>3, DocumentIsPatched DEF g
  <2>4. CASE ~IsKubeadmConfig(g) BY <2>1, <2>2, <2>4 DEF g
  <2>. QED BY <2>3, <2>4
<1>. HIDE DEF p
<1>6. p \in Seq(Documents)
  <2>1. p \in [1 .. Len(f.docs) -> Documents]
    <3>1. \A k \in 1 .. Len(f.docs) : p[k] \in Documents BY <1>0, <1>5 DEF WellFormed
    <3>2. p = [k \in 1 .. Len(f.docs) |-> p[k]] BY <1>0, <1>4 DEF p, PatchKubeadmConfig
    <3>. QED BY <3>1, <3>2
  <2>. QED BY <1>0, <2>1, SeqDef
<1>7. \A doc \in Range(p) : WellFormed(doc) BY <1>4, <1>5 DEF Range
<1>8. (\E doc \in Range(f.docs) : IsKubeadmConfig(doc)) => \E doc \in Range(p) : IsKubeadmConfig(doc)
  BY <1>4, <1>5 DEF Range
<1>. QED BY <1>1, <1>2, <1>6, <1>7, <1>8 DEF p

-----------------------------------------------------------------------------
(* The documents the bootstrap data has for a path.                        *)

\* g lists what the first of n files leave at a path.
IsGiven(g, n, files, path) ==
    /\ g = [i \in 0 .. n |-> g[i]] /\ g[0] = <<>>
    /\ \A i \in 1 .. n : g[i] = Lands(g[i - 1], files[i], path)

\* A list of files leaves documents at a path, one file after the other.
LEMMA GivenExists ==
    ASSUME NEW n \in Nat, NEW files, NEW path
    PROVE  \E g : IsGiven(g, n, files, path)
<1>. DEFINE Leaves(k, g) == /\ g = [i \in 0 .. k |-> g[i]] /\ g[0] = <<>>
                            /\ \A i \in 1 .. k : g[i] = Lands(g[i - 1], files[i], path)
            T == {k \in 0 .. n : ~\E g : Leaves(k, g)}
<1>1. ASSUME T # {} PROVE FALSE
  <2>1. T \subseteq Nat OBVIOUS
  <2>2. PICK k \in T : \A m \in T : k <= m
    <3>. HIDE DEF T
    <3>. QED BY <1>1, <2>1, LeastNatural
  <2>3. CASE k = 0
    <3>. DEFINE g == [i \in 0 .. 0 |-> <<>>]
    <3>1. g = [i \in 0 .. 0 |-> g[i]] /\ g[0] = <<>> /\ 1 .. 0 = {} OBVIOUS
    <3>2. Leaves(0, g) BY <3>1
    <3>. QED BY <2>2, <2>3, <3>2
  <2>4. CASE k # 0
    <3>1. k - 1 \in 0 .. n /\ k \in 1 .. n /\ ~(k <= k - 1) BY <2>2, <2>4
    <3>2. k - 1 \notin T BY <2>2, <3>1
    <3>3. PICK g : Leaves(k - 1, g) BY <3>1, <3>2
    <3>. DEFINE new == Lands(g[k - 1], files[k], path)
                h == [i \in 0 .. k |-> IF i = k THEN new ELSE g[i]]
    <3>4. Leaves(k, h)
      <4>. HIDE DEF new
      <4>1. h = [i \in 0 .. k |-> h[i]] OBVIOUS
      <4>2. h[0] = <<>> BY <2>4, <3>1, <3>3
      <4>3. ASSUME NEW i \in 1 .. k PROVE h[i] = Lands(h[i - 1], files[i], path)
        <5>1. i \in 0 .. k /\ i - 1 \in 0 .. k /\ i - 1 # k BY <3>1
        <5>2. h[i - 1] = g[i - 1] BY <5>1
        <5>3. CASE i = k
          <6>1. h[i] = new BY <5>1, <5>3
          <6>. QED BY <5>2, <5>3, <6>1 DEF new
        <5>4. CASE i # k
          <6>1. h[i] = g[i] /\ i \in 1 .. k - 1 BY <3>1, <5>1, <5>4
          <6>. QED BY <3>3, <5>2, <6>1
        <5>. QED BY <5>3, <5>4
      <4>. HIDE DEF h
      <4>. QED BY <4>1, <4>2, <4>3
    <3>. HIDE DEF h
    <3>. QED BY <2>2, <3>4
  <2>. QED BY <2>3, <2>4
<1>2. n \notin T BY <1>1
<1>3. PICK g : Leaves(n, g) BY <1>2
<1>4. IsGiven(g, n, files, path) BY <1>3, Zenon DEF IsGiven
<1>. QED BY <1>4

\* What is given is computed file by file.
LEMMA GivenUnfolds ==
    ASSUME config \in CloudConfigs, NEW path
    PROVE  /\ GivenBy(path)[0] = <<>>
           /\ \A i \in 1 .. Len(config.files) :
                 GivenBy(path)[i] = Lands(GivenBy(path)[i - 1], config.files[i], path)
<1>. DEFINE n == Len(config.files)
            files == config.files
            F(g) == [i \in 0 .. n |-> IF i = 0 THEN <<>> ELSE Lands(g[i - 1], files[i], path)]
            s == CHOOSE g : g = F(g)
<1>1. n \in Nat BY ConfigShape
<1>2. GivenBy(path) = s BY DEF GivenBy
<1>. HIDE DEF n, files
<1>3. PICK g : IsGiven(g, n, files, path) BY <1>1, GivenExists
<1>4. g = F(g)
  <2>1. \A i \in 0 .. n : g[i] = IF i = 0 THEN <<>> ELSE Lands(g[i - 1], files[i], path)
    <3>1. \A i \in 0 .. n : i = 0 \/ i \in 1 .. n BY <1>1
    <3>. QED BY <1>3, <3>1, Zenon DEF IsGiven
  <2>. QED BY <1>3, <2>1 DEF IsGiven
<1>5. s = F(s)
  <2>. HIDE DEF F
  <2>. QED BY <1>4
<1>. HIDE DEF s
<1>6. \A i \in 0 .. n : s[i] = IF i = 0 THEN <<>> ELSE Lands(s[i - 1], files[i], path)
  BY <1>5
<1>7. 0 \in 0 .. n /\ \A i \in 1 .. n : i \in 0 .. n /\ i # 0 BY <1>1
<1>8. s[0] = <<>> /\ \A i \in 1 .. n : s[i] = Lands(s[i - 1], files[i], path) BY <1>6, <1>7
<1>. QED BY <1>2, <1>8 DEF n, files

\* What a file leaves is made of what was there and what the file has.
LEMMA LandsTyped ==
    ASSUME NEW f \in Files, NEW docs \in Seq(Documents), NEW path
    PROVE  /\ Lands(docs, f, path) \in Seq(Documents)
           /\ Range(Lands(docs, f, path)) \subseteq Range(docs) \cup Range(f.docs)
<1>1. f.docs \in Seq(Documents) BY DEF Files
<1>2. docs \o f.docs \in Seq(Documents) BY <1>1, ConcatProperties
<1>3. Range(docs \o f.docs) = Range(docs) \cup Range(f.docs) BY <1>1, RangeConcatenation
<1>. QED BY <1>1, <1>2, <1>3, Zenon DEF Lands

\* What is given for a path are documents of the bootstrap data.
LEMMA GivenTyped ==
    ASSUME config \in CloudConfigs, NEW path
    PROVE  \A k \in 0 .. Len(config.files) : /\ GivenBy(path)[k] \in Seq(Documents)
                                             /\ Range(GivenBy(path)[k]) \subseteq DocumentsOf(config)
<1>. DEFINE n == Len(config.files)
            g == GivenBy(path)
            Good(k) == g[k] \in Seq(Documents) /\ Range(g[k]) \subseteq DocumentsOf(config)
            T == {k \in 0 .. n : ~Good(k)}
<1>1. /\ n \in Nat /\ g[0] = <<>>
      /\ \A i \in 1 .. n : g[i] = Lands(g[i - 1], config.files[i], path)
  BY ConfigShape, GivenUnfolds
<1>2. ASSUME NEW i \in 1 .. n
      PROVE  config.files[i] \in Files /\ Range(config.files[i].docs) \subseteq DocumentsOf(config)
  <2>1. config.files[i] \in Files /\ config.files \in Seq(Files) BY ConfigShape
  <2>2. config.files[i] \in Range(config.files) BY <2>1, LenProperties DEF Range
  <2>. QED BY <2>1, <2>2 DEF DocumentsOf
<1>. HIDE DEF n, g
<1>3. T = {}
  <2>. SUFFICES ASSUME T # {} PROVE FALSE OBVIOUS
  <2>1. T \subseteq Nat BY <1>1
  <2>2. PICK k \in T : \A m \in T : k <= m
    <3>. HIDE DEF T
    <3>. QED BY <2>1, LeastNatural
  <2>3. k # 0
    <3>1. <<>> \in Seq(Documents) /\ Range(<<>>) = {} BY DEF Range
    <3>. QED BY <1>1, <2>2, <3>1
  <2>4. k - 1 \in 0 .. n /\ k \in 1 .. n /\ ~(k <= k - 1) BY <1>1, <2>2, <2>3
  <2>5. Good(k - 1) BY <2>2, <2>4
  <2>6. g[k] = Lands(g[k - 1], config.files[k], path) BY <1>1, <2>4
  <2>7. Good(k) BY <1>2, <2>4, <2>5, <2>6, LandsTyped
  <2>. QED BY <2>2, <2>7
<1>4. \A k \in 0 .. n : Good(k) BY <1>3
<1>. QED BY <1>4 DEF n, g

\* Patching documents one after the other is patching them together.
LEMMA PatchInParts ==
    ASSUME NEW a \in Seq(Documents), NEW b \in Seq(Documents), NEW o
    PROVE  PatchKubeadmConfig(a, o) \o PatchKubeadmConfig(b, o) = PatchKubeadmConfig(a \o b, o)
<1>. DEFINE P(doc) == IF IsKubeadmConfig(doc) THEN PatchDocument(doc, o) ELSE doc
            pa == PatchKubeadmConfig(a, o)
            pb == PatchKubeadmConfig(b, o)
            ab == a \o b
            pab == PatchKubeadmConfig(ab, o)
            n == Len(a)
            m == Len(b)
            S == {P(a[i]) : i \in 1 .. n} \cup {P(b[i]) : i \in 1 .. m}
<1>1. n \in Nat /\ m \in Nat /\ DOMAIN a = 1 .. n /\ DOMAIN b = 1 .. m BY LenProperties
<1>2. /\ ab \in Seq(Documents) /\ Len(ab) = n + m
      /\ \A i \in 1 .. n + m : ab[i] = IF i <= n THEN a[i] ELSE b[i - n]
  BY ConcatProperties
<1>3. DOMAIN ab = 1 .. n + m BY <1>2, LenProperties
<1>4. /\ pa = [i \in 1 .. n |-> P(a[i])] /\ pb = [i \in 1 .. m |-> P(b[i])]
      /\ pab = [i \in 1 .. n + m |-> P(ab[i])]
  BY <1>1, <1>3 DEF PatchKubeadmConfig
<1>. HIDE DEF pa, pb, pab, ab, n, m, P
<1>5. pa \in [1 .. n -> S] /\ pb \in [1 .. m -> S] BY <1>4
<1>6. /\ \A i \in 1 .. n : pa[i] = P(a[i])
      /\ \A i \in 1 .. m : pb[i] = P(b[i])
      /\ \A i \in 1 .. n + m : pab[i] = P(ab[i])
  BY <1>4
<1>7. DOMAIN pab = 1 .. n + m BY <1>4
<1>. HIDE DEF S
<1>8. /\ pa \in Seq(S) /\ Len(pa) = n BY <1>1, <1>5, ListTyped
<1>9. /\ pb \in Seq(S) /\ Len(pb) = m BY <1>1, <1>5, ListTyped
<1>. DEFINE r == pa \o pb
<1>10. /\ r \in Seq(S) /\ Len(r) = n + m
       /\ \A i \in 1 .. n + m : r[i] = IF i <= n THEN pa[i] ELSE pb[i - n]
  BY <1>8, <1>9, ConcatProperties
<1>11. DOMAIN r = 1 .. n + m BY <1>10, LenProperties
<1>. HIDE DEF r
<1>12. ASSUME NEW i \in 1 .. n + m PROVE r[i] = pab[i]
  <2>1. CASE i <= n
    <3>1. i \in 1 .. n BY <1>1, <2>1
    <3>. QED BY <1>2, <1>6, <1>10, <2>1, <3>1
  <2>2. CASE ~(i <= n)
    <3>1. i - n \in 1 .. m BY <1>1, <2>2
    <3>. QED BY <1>2, <1>6, <1>10, <2>2, <3>1
  <2>. QED BY <2>1, <2>2
<1>13. r = [i \in DOMAIN r |-> r[i]] BY <1>10
<1>14. pab = [i \in DOMAIN pab |-> pab[i]] BY <1>4
<1>. QED BY <1>7, <1>11, <1>12, <1>13, <1>14 DEF r, pa, pb, pab, ab

-----------------------------------------------------------------------------
(* The inductive invariant.  ProgressInv says what the steps behind the    *)
(* script have left; DiskInv, that every document kg wrote and kubeadm     *)
(* read is well formed; KubeadmInv, that kubeadm's file holds a            *)
(* configuration for this machine from the first time it is there; and     *)
(* GivenInv, that what is in the file while the script runs, and what      *)
(* kubeadm has read, is what the bootstrap data has for it, patched.       *)

\* A command that is behind the script had a last line that succeeded as a whole.
Done(s) ==
    Script[s].do = "command" =>
        /\ Script[s].lines # <<>>
        /\ \A x \in failed : x[1] = s => x[2] < Len(Script[s].lines)
        /\ "kubeadm" \in Range(Last(Script[s].lines)) => joined # NotJoined
        /\ "sentinel" \in Range(Last(Script[s].lines)) => sentinel

ProgressInv ==
    /\ config \in CloudConfigs /\ opts \in Options
    /\ at \in 1 .. Len(Script) + 1
    /\ exit \in {"running", "zero", "nonzero", "refused"}
    /\ exit # "refused" => ~Refused(config, opts)
    /\ exit = "zero" => at = Len(Script) + 1
    /\ \A x \in failed : /\ x[1] \in 1 .. Len(Script) /\ Script[x[1]].do = "command"
                         /\ exit = "running" => x[1] < at
    /\ \A s \in 1 .. at - 1 : Done(s)
    /\ sentinel \in BOOLEAN /\ runs \in 0 .. MaxRuns

DiskInv ==
    /\ disk \in [Paths -> Seq(Documents)] /\ joined \in Seq(Documents)
    /\ \A p \in Paths : \A doc \in Range(disk[p]) : WellFormed(doc)
    /\ \A doc \in Range(joined) : WellFormed(doc)

HasKubeadm(docs) == \E doc \in Range(docs) : IsKubeadmConfig(doc)

\* What is written to kubeadm's file first is a configuration, and what is appended to it
\* comes after it.
InPlace(c) ==
    \A i \in 1 .. Len(c.files) : c.files[i].path = KubeadmPath =>
        IF c.files[i].append
        THEN \E k \in 1 .. i - 1 : c.files[k].path = KubeadmPath /\ ~c.files[k].append
        ELSE HasKubeadm(c.files[i].docs)

KubeadmInv ==
    InPlace(config) =>
        /\ disk[KubeadmPath] # <<>> => HasKubeadm(disk[KubeadmPath])
        /\ \A s \in 1 .. at - 1 : s <= Len(config.files) /\ config.files[s].path = KubeadmPath
               => HasKubeadm(disk[KubeadmPath])
        /\ joined # NotJoined => HasKubeadm(joined)

\* How many files are behind the script.
Behind == IF at <= Len(config.files) THEN at - 1 ELSE Len(config.files)

GivenInv ==
    /\ joined # NotJoined => ~Refused(config, opts)
    /\ InPlace(config) =>
          /\ disk[KubeadmPath] # <<>> =>
                \E s \in 1 .. Len(config.files) : config.files[s].path = KubeadmPath
          /\ exit = "running" /\ (\E s \in 1 .. Behind : config.files[s].path = KubeadmPath) =>
                disk[KubeadmPath] = PatchKubeadmConfig(GivenBy(KubeadmPath)[Behind], opts)
          /\ joined # NotJoined => joined = PatchKubeadmConfig(Given(KubeadmPath), opts)

Inv == ProgressInv /\ DiskInv /\ KubeadmInv /\ GivenInv

\* The script depends on what Render was called with, and on nothing the script changes.
LEMMA ScriptStays ==
    ASSUME UNCHANGED <<config, opts>>
    PROVE  Script' = Script
BY DEF Script

\* So do the documents that are given.
LEMMA GivenStays ==
    ASSUME UNCHANGED <<config, opts>>
    PROVE  /\ GivenBy(KubeadmPath)' = GivenBy(KubeadmPath)
           /\ Given(KubeadmPath)' = Given(KubeadmPath)
BY DEF GivenBy, Given, Lands

\* Nothing has been written, and nothing has run.
LEMMA InvInit == Init => Inv
<1>. SUFFICES ASSUME Init PROVE Inv OBVIOUS
<1>0. config \in CloudConfigs /\ opts \in Options BY DEF Init
<1>1. Len(Script) \in Nat BY <1>0, ScriptShape
<1>2. ProgressInv
  <2>1. at \in 1 .. Len(Script) + 1 /\ 1 .. at - 1 = {} BY <1>1 DEF Init
  <2>2. runs \in 0 .. MaxRuns BY RunsAssumption DEF Init
  <2>. QED BY <1>0, <2>1, <2>2 DEF Init, ProgressInv
<1>3. <<>> \in Seq(Documents) /\ Range(<<>>) = {} BY DEF Range
<1>4. DiskInv BY <1>3 DEF Init, DiskInv, NotJoined
<1>5. KubeadmInv
  <2>1. 1 .. at - 1 = {} BY DEF Init
  <2>2. KubeadmPath \in Paths BY DEF Paths
  <2>. QED BY <2>1, <2>2 DEF Init, KubeadmInv, NotJoined
<1>6. GivenInv
  <2>1. Len(config.files) \in Nat BY <1>0, ConfigShape
  <2>2. 1 .. Behind = {} BY <2>1 DEF Init, Behind
  <2>3. KubeadmPath \in Paths BY DEF Paths
  <2>. QED BY <2>2, <2>3 DEF Init, GivenInv, NotJoined
<1>. QED BY <1>2, <1>4, <1>5, <1>6 DEF Inv

\* A file: what is on disk is what was there and what the file has.
LEMMA FileWritten ==
    ASSUME Inv, WriteFile
    PROVE  /\ at \in 1 .. Len(config.files) /\ at <= Len(Script) /\ Script[at].do = "file"
           /\ Script[at].file = Written(at)
           /\ RenderFile(Written(at)) \in Seq(Documents)
           /\ \A doc \in Range(RenderFile(Written(at))) : WellFormed(doc)
           /\ InPlace(config) /\ config.files[at].path = KubeadmPath
                 => HasKubeadm(RenderFile(Written(at)))
<1>0. /\ config \in CloudConfigs /\ opts \in Options /\ ~Refused(config, opts)
      /\ at \in 1 .. Len(Script) + 1 /\ at <= Len(Script) /\ Script[at].do = "file"
  BY DEF Inv, ProgressInv, WriteFile, Running
<1>1. Len(Script) \in Nat /\ Len(config.files) \in Nat BY <1>0, ScriptShape, ConfigShape
<1>2. at \in 1 .. Len(Script) BY <1>0, <1>1
<1>3. at <= Len(config.files) /\ Script[at] = FileStep(at)
  <2>1. \A m : CommandStep(m).do # "file" BY DEF CommandStep
  <2>. QED BY <1>0, <1>2, <2>1, ScriptShape
<1>4. at \in 1 .. Len(config.files) BY <1>1, <1>2, <1>3
<1>5. Script[at].file = Written(at) BY <1>3 DEF FileStep
<1>. DEFINE f == Written(at)
<1>6. /\ f.path = config.files[at].path /\ f.append = config.files[at].append
      /\ f.docs \in Seq(Documents) /\ f.path \in Paths
      /\ \A doc \in Range(f.docs) : WellFormed(doc)
      /\ HasKubeadm(config.files[at].docs) => HasKubeadm(f.docs)
  BY <1>0, <1>4, FileIsPatched DEF HasKubeadm
<1>. HIDE DEF f
<1>. DEFINE old == disk[f.path]
            both == old \o f.docs
<1>7. old \in Seq(Documents) /\ \A doc \in Range(old) : WellFormed(doc)
  BY <1>6 DEF Inv, DiskInv
<1>. HIDE DEF old
<1>8. both \in Seq(Documents) /\ Range(both) = Range(old) \cup Range(f.docs)
  <2>1. both \in Seq(Documents) BY <1>6, <1>7, ConcatProperties
  <2>2. Range(both) = Range(old) \cup Range(f.docs) BY <1>6, <1>7, RangeConcatenation
  <2>. QED BY <2>1, <2>2
<1>. HIDE DEF both
<1>9. RenderFile(f) = IF f.append THEN both ELSE f.docs BY DEF RenderFile, both, old
<1>10. ASSUME InPlace(config), config.files[at].path = KubeadmPath
       PROVE  HasKubeadm(RenderFile(f))
  <2>1. CASE f.append
    <3>1. PICK k \in 1 .. at - 1 : config.files[k].path = KubeadmPath
      BY <1>4, <1>6, <1>10, <2>1 DEF InPlace
    <3>2. k <= Len(config.files) BY <1>1, <1>4
    <3>3. HasKubeadm(disk[KubeadmPath]) BY <1>10, <3>1, <3>2 DEF Inv, KubeadmInv
    <3>4. old = disk[KubeadmPath] BY <1>6, <1>10 DEF old
    <3>. QED BY <1>8, <1>9, <2>1, <3>3, <3>4 DEF HasKubeadm
  <2>2. CASE ~f.append BY <1>4, <1>6, <1>9, <1>10, <2>2 DEF InPlace
  <2>. QED BY <2>1, <2>2
<1>11. /\ RenderFile(f) \in Seq(Documents)
       /\ \A doc \in Range(RenderFile(f)) : WellFormed(doc)
  BY <1>6, <1>7, <1>8, <1>9
<1>. QED BY <1>0, <1>4, <1>5, <1>10, <1>11 DEF f

\* A file that is written leaves in kubeadm's file what the files so far have for it.
LEMMA WriteGiven == Inv /\ WriteFile => GivenInv'
<1>. SUFFICES ASSUME Inv, WriteFile PROVE GivenInv' OBVIOUS
<1>. DEFINE L == Len(config.files)
            c == config.files[at]
            f == Written(at)
            written == [disk EXCEPT ![f.path] = RenderFile(f)]
            g == GivenBy(KubeadmPath)
            P(docs) == PatchKubeadmConfig(docs, opts)
<1>0. /\ config \in CloudConfigs /\ opts \in Options /\ ~Refused(config, opts)
      /\ at \in 1 .. L /\ Script[at].file = f /\ L \in Nat
  BY FileWritten, ConfigShape DEF Inv, ProgressInv, WriteFile, Running
<1>1. /\ f.path = c.path /\ f.append = c.append /\ f.docs = P(c.docs)
      /\ f.path \in Paths /\ KubeadmPath \in Paths /\ c \in Files
  BY <1>0, FileIsPatched, ConfigShape DEF Paths
<1>2. /\ disk' \in {disk, written} /\ exit = "running"
      /\ \/ disk' = written /\ at' = at + 1
         \/ exit' = "nonzero"
  BY <1>0 DEF WriteFile, Running
<1>3. config' = config /\ opts' = opts /\ joined' = joined BY DEF WriteFile
<1>4. GivenBy(KubeadmPath)' = g /\ Given(KubeadmPath)' = Given(KubeadmPath) BY <1>3, GivenStays
<1>5. Behind = at - 1 /\ (at' = at + 1 => Behind' = at) BY <1>0, <1>3 DEF Behind
<1>6. g[at] = Lands(g[at - 1], c, KubeadmPath) /\ g[at - 1] \in Seq(Documents)
  <2>1. at - 1 \in 0 .. L BY <1>0
  <2>. QED BY <1>0, <2>1, GivenUnfolds, GivenTyped
<1>. HIDE DEF f, c, g, P
<1>7. \A p \in Paths : written[p] = IF p = f.path THEN RenderFile(f) ELSE disk[p]
  BY DEF Inv, DiskInv
<1>. HIDE DEF written
<1>8. ASSUME InPlace(config)
      PROVE  disk'[KubeadmPath] # <<>> => \E s \in 1 .. L : config.files[s].path = KubeadmPath
  <2>1. CASE c.path = KubeadmPath BY <1>0, <2>1 DEF c
  <2>2. CASE c.path # KubeadmPath
    <3>1. disk'[KubeadmPath] = disk[KubeadmPath] BY <1>1, <1>2, <1>7, <2>2
    <3>. QED BY <1>8, <3>1 DEF Inv, GivenInv
  <2>. QED BY <2>1, <2>2
<1>9. ASSUME InPlace(config), exit' = "running",
             NEW s \in 1 .. Behind', config.files[s].path = KubeadmPath
      PROVE  disk'[KubeadmPath] = P(g[Behind'])
  <2>1. disk' = written /\ Behind' = at BY <1>2, <1>5, <1>9
  <2>2. \A k \in 1 .. at - 1 : config.files[k].path = KubeadmPath => disk[KubeadmPath] = P(g[at - 1])
    BY <1>2, <1>5, <1>9 DEF Inv, GivenInv, g, P
  <2>3. CASE c.path # KubeadmPath
    <3>1. g[at] = g[at - 1] BY <1>6, <2>3 DEF Lands
    <3>2. s # at BY <1>9, <2>3 DEF c
    <3>3. s \in 1 .. at - 1 BY <1>0, <1>9, <2>1, <3>2
    <3>4. disk[KubeadmPath] = P(g[at - 1]) BY <1>9, <2>2, <3>3
    <3>5. disk'[KubeadmPath] = disk[KubeadmPath] BY <1>1, <1>7, <2>1, <2>3
    <3>. QED BY <2>1, <3>1, <3>4, <3>5
  <2>4. CASE c.path = KubeadmPath /\ ~c.append
    <3>1. g[at] = c.docs BY <1>6, <2>4 DEF Lands
    <3>2. disk'[KubeadmPath] = f.docs BY <1>1, <1>7, <2>1, <2>4 DEF RenderFile
    <3>. QED BY <1>1, <2>1, <3>1, <3>2
  <2>5. CASE c.path = KubeadmPath /\ c.append
    <3>1. g[at] = g[at - 1] \o c.docs BY <1>6, <2>5 DEF Lands
    <3>2. PICK k \in 1 .. at - 1 : config.files[k].path = KubeadmPath
      BY <1>0, <1>9, <2>5 DEF InPlace, c
    <3>3. disk[KubeadmPath] = P(g[at - 1]) BY <2>2, <3>2
    <3>4. disk'[KubeadmPath] = disk[KubeadmPath] \o f.docs
      BY <1>1, <1>7, <2>1, <2>5 DEF RenderFile
    <3>5. c.docs \in Seq(Documents) BY <1>1 DEF Files
    <3>6. P(g[at - 1]) \o P(c.docs) = P(g[at - 1] \o c.docs) BY <1>6, <3>5, PatchInParts DEF P
    <3>. QED BY <1>1, <2>1, <3>1, <3>3, <3>4, <3>6
  <2>. QED BY <2>3, <2>4, <2>5
<1>10. joined # NotJoined => ~Refused(config, opts) BY <1>0
<1>11. InPlace(config) /\ joined # NotJoined => joined = P(Given(KubeadmPath))
  BY DEF Inv, GivenInv, P
<1>. QED BY <1>3, <1>4, <1>8, <1>9, <1>10, <1>11 DEF GivenInv, g, P

\* Writing a file.
LEMMA WriteStep == Inv /\ WriteFile => Inv'
<1>. SUFFICES ASSUME Inv, WriteFile PROVE Inv' OBVIOUS
<1>. DEFINE f == Written(at)
            new == RenderFile(f)
            written == [disk EXCEPT ![f.path] = new]
<1>0. /\ config \in CloudConfigs /\ opts \in Options /\ ~Refused(config, opts)
      /\ at \in 1 .. Len(config.files) /\ at <= Len(Script) /\ Script[at].do = "file"
      /\ Script[at].file = f /\ Len(Script) \in Nat /\ Len(config.files) \in Nat
      /\ new \in Seq(Documents) /\ \A doc \in Range(new) : WellFormed(doc)
      /\ InPlace(config) /\ config.files[at].path = KubeadmPath => HasKubeadm(new)
  BY FileWritten, ScriptShape, ConfigShape DEF Inv, ProgressInv, WriteFile, Running
<1>1. f.path = config.files[at].path /\ f.path \in Paths /\ KubeadmPath \in Paths
  BY <1>0, FileIsPatched DEF Paths
<1>2. /\ disk' \in {disk, written} /\ exit = "running"
      /\ \/ disk' = written /\ at' = at + 1 /\ exit' = exit
         \/ exit' = "nonzero" /\ at' = at
  BY <1>0 DEF WriteFile, Running
<1>3. config' = config /\ opts' = opts /\ failed' = failed /\ joined' = joined
      /\ sentinel' = sentinel /\ runs' = runs
  BY DEF WriteFile
<1>4. Script' = Script BY <1>3, ScriptStays
<1>. HIDE DEF new, f
<1>5. /\ DOMAIN written = Paths
      /\ \A p \in Paths : written[p] = IF p = f.path THEN new ELSE disk[p]
  BY DEF Inv, DiskInv
<1>6. \A s \in 1 .. at - 1 : Done(s)'
  BY <1>3, <1>4 DEF Inv, ProgressInv, Done
<1>7. ProgressInv'
  <2>1. \A s \in 1 .. at' - 1 : Done(s)'
    <3>1. ASSUME NEW s, s = at PROVE Done(s)' BY <1>0, <1>4, <3>1 DEF Done
    <3>2. \A s \in 1 .. at' - 1 : s \in 1 .. at - 1 \/ s = at BY <1>0, <1>2
    <3>. QED BY <1>6, <3>1, <3>2
  <2>2. at' \in 1 .. Len(Script) + 1 BY <1>0, <1>2
  <2>3. \A x \in failed : exit' = "running" => x[1] < at'
    BY <1>0, <1>2 DEF Inv, ProgressInv
  <2>. QED BY <1>0, <1>2, <1>3, <1>4, <2>1, <2>2, <2>3 DEF Inv, ProgressInv
<1>8. DiskInv'
  <2>1. disk' \in [Paths -> Seq(Documents)] BY <1>0, <1>2, <1>5 DEF Inv, DiskInv
  <2>2. \A p \in Paths : \A doc \in Range(disk'[p]) : WellFormed(doc)
    BY <1>0, <1>2, <1>5 DEF Inv, DiskInv
  <2>. QED BY <1>3, <2>1, <2>2 DEF Inv, DiskInv
<1>9. KubeadmInv'
  <2>. SUFFICES ASSUME InPlace(config)
               PROVE  /\ disk'[KubeadmPath] # <<>> => HasKubeadm(disk'[KubeadmPath])
                      /\ \A s \in 1 .. at' - 1 :
                             s <= Len(config.files) /\ config.files[s].path = KubeadmPath
                                 => HasKubeadm(disk'[KubeadmPath])
                      /\ joined # NotJoined => HasKubeadm(joined)
    BY <1>3 DEF KubeadmInv
  <2>1. CASE f.path # KubeadmPath
    <3>1. disk'[KubeadmPath] = disk[KubeadmPath] BY <1>1, <1>2, <1>5, <2>1
    <3>2. \A s \in 1 .. at' - 1 : s \in 1 .. at - 1 \/ s = at BY <1>0, <1>2
    <3>. QED BY <1>1, <2>1, <3>1, <3>2 DEF Inv, KubeadmInv
  <2>2. CASE f.path = KubeadmPath
    <3>1. disk' # disk => HasKubeadm(disk'[KubeadmPath]) BY <1>0, <1>1, <1>2, <1>5, <2>2
    <3>2. disk' = written => HasKubeadm(disk'[KubeadmPath]) BY <1>0, <1>1, <1>5, <2>2
    <3>3. at' # at => disk' = written BY <1>0, <1>2
    <3>. QED BY <3>1, <3>2, <3>3 DEF Inv, KubeadmInv
  <2>. QED BY <2>1, <2>2
<1>. QED BY <1>7, <1>8, <1>9, WriteGiven DEF Inv

\* A guarded group that does not end the script has run every command of its last line, and
\* none of them failed.
LEMMA LastLineSucceeds ==
    ASSUME NEW lines \in Seq(Seq(STRING)), NEW bad \in SUBSET Places(lines),
           ~GuardCommand(lines, bad).stops
    PROVE  /\ lines # <<>> /\ Len(lines) \in Nat
           /\ \A p \in bad : p[1] < Len(lines)
           /\ Range(Last(lines))
                 \subseteq {lines[p[1]][p[2]] : p \in GuardCommand(lines, bad).ran \ bad}
<1>. DEFINE n == Len(lines)
<1>1. /\ lines # <<>> /\ ~LineFails(n, lines, bad)
      /\ GuardCommand(lines, bad).ran = Reached(lines, bad)
  BY DEF GuardCommand
<1>2. n \in Nat \ {0} /\ DOMAIN lines = 1 .. n /\ n \in DOMAIN lines
  BY <1>1, LenProperties, EmptySeq
<1>3. lines[n] \in Seq(STRING) /\ Last(lines) = lines[n]
  BY <1>2, ElementOfSeq DEF Last
<1>4. \A j \in DOMAIN lines[n] : <<n, j>> \notin bad BY <1>1 DEF LineFails
<1>. HIDE DEF n
<1>5. ASSUME NEW p \in bad PROVE p[1] < n
  <2>1. PICK i \in DOMAIN lines : p \in {<<i, j>> : j \in DOMAIN lines[i]} BY DEF Places
  <2>2. PICK j \in DOMAIN lines[i] : p = <<i, j>> BY <2>1
  <2>3. i # n BY <1>4, <2>2
  <2>4. p[1] = i BY <2>2
  <2>. QED BY <1>2, <2>3, <2>4
<1>6. ASSUME NEW j \in DOMAIN lines[n]
      PROVE  <<n, j>> \in Reached(lines, bad) \ bad
  <2>1. <<n, j>> \in Places(lines) BY <1>2 DEF Places
  <2>2. DOMAIN lines[n] = 1 .. Len(lines[n]) /\ Len(lines[n]) \in Nat BY <1>3, LenProperties
  <2>3. \A k \in 1 .. j - 1 : k \in DOMAIN lines[n] BY <2>2
  <2>4. \A k \in 1 .. j - 1 : <<n, k>> \notin bad BY <1>4, <2>3
  <2>5. <<n, j>>[1] = n /\ <<n, j>>[2] = j OBVIOUS
  <2>. QED BY <1>4, <2>1, <2>4, <2>5 DEF Reached
<1>7. ASSUME NEW c \in Range(lines[n])
      PROVE  c \in {lines[p[1]][p[2]] : p \in Reached(lines, bad) \ bad}
  <2>1. PICK j \in DOMAIN lines[n] : c = lines[n][j] BY DEF Range
  <2>2. <<n, j>>[1] = n /\ <<n, j>>[2] = j OBVIOUS
  <2>. QED BY <1>6, <2>1, <2>2
<1>. QED BY <1>1, <1>2, <1>3, <1>5, <1>7 DEF n

\* When a command runs every file is behind the script, and kubeadm reads what all of them
\* have for its file.
LEMMA RunGiven == Inv /\ RunCommand => GivenInv'
<1>. SUFFICES ASSUME Inv, RunCommand PROVE GivenInv' OBVIOUS
<1>. DEFINE L == Len(config.files)
            now == disk[KubeadmPath]
            g == GivenBy(KubeadmPath)
            P(docs) == PatchKubeadmConfig(docs, opts)
<1>0. /\ config \in CloudConfigs /\ opts \in Options /\ ~Refused(config, opts)
      /\ at \in 1 .. Len(Script) + 1 /\ at <= Len(Script) /\ Script[at].do = "command"
      /\ exit = "running" /\ L \in Nat
  BY ConfigShape DEF Inv, ProgressInv, RunCommand, Running
<1>1. ~(at <= L) /\ at \in Nat
  <2>1. at \in 1 .. Len(Script) BY <1>0, ScriptShape
  <2>2. FileStep(at).do # "command" BY DEF FileStep
  <2>. QED BY <1>0, <2>1, <2>2, ScriptShape
<1>2. config' = config /\ opts' = opts /\ disk' = disk BY DEF RunCommand
<1>3. at' = at \/ at' = at + 1 BY DEF RunCommand
<1>4. joined' = joined \/ joined' = now BY DEF RunCommand
<1>5. Behind = L /\ Behind' = L BY <1>0, <1>1, <1>2, <1>3 DEF Behind
<1>6. GivenBy(KubeadmPath)' = g /\ Given(KubeadmPath)' = g[L] /\ Given(KubeadmPath) = g[L]
  BY <1>2, GivenStays DEF Given
<1>. HIDE DEF g, P, L, now
<1>7. ASSUME InPlace(config)
      PROVE  /\ now # <<>> => \E s \in 1 .. L : config.files[s].path = KubeadmPath
             /\ (\E s \in 1 .. L : config.files[s].path = KubeadmPath) => now = P(g[L])
             /\ joined # NotJoined => joined = P(g[L])
  BY <1>0, <1>5, <1>6, <1>7 DEF Inv, GivenInv, g, P, L, now
<1>8. InPlace(config) /\ joined' # NotJoined => joined' = P(g[L]) BY <1>4, <1>7 DEF NotJoined
<1>. QED BY <1>0, <1>2, <1>5, <1>6, <1>7, <1>8 DEF GivenInv, g, P, L, now

\* Running a command.
LEMMA RunStep == Inv /\ RunCommand => Inv'
<1>. SUFFICES ASSUME Inv, RunCommand PROVE Inv' OBVIOUS
<1>. DEFINE lines == Script[at].lines
<1>0. /\ config \in CloudConfigs /\ opts \in Options /\ ~Refused(config, opts)
      /\ at \in 1 .. Len(Script) + 1 /\ at <= Len(Script) /\ Script[at].do = "command"
      /\ exit = "running"
  BY DEF Inv, ProgressInv, RunCommand, Running
<1>1. Len(Script) \in Nat /\ at \in 1 .. Len(Script) BY <1>0, ScriptShape
<1>2. lines \in Seq(Seq(STRING))
  <2>1. PICK m \in Range(config.bootcmd) \cup Range(config.runcmd) : Script[at] = CommandStep(m)
    <3>1. FileStep(at).do # "command" BY DEF FileStep
    <3>. QED BY <1>0, <1>1, <3>1, ScriptShape
  <2>2. m \in Commands BY <1>0, ConfigShape
  <2>. QED BY <2>1, <2>2 DEF CommandStep, Commands
<1>3. config' = config /\ opts' = opts /\ disk' = disk /\ runs' = runs BY DEF RunCommand
<1>4. Script' = Script BY <1>3, ScriptStays
<1>5. PICK bad \in SUBSET Places(lines) :
        LET result    == GuardCommand(lines, bad)
            succeeded == {lines[p[1]][p[2]] : p \in result.ran \ bad}
        IN  /\ bad \subseteq result.ran
            /\ \A simple \in succeeded : MayRun(simple)
            /\ failed' = failed \cup {<<at, p[1], p[2]>> : p \in bad}
            /\ joined' = IF "kubeadm" \in succeeded THEN disk[KubeadmPath] ELSE joined
            /\ sentinel' = (sentinel \/ "sentinel" \in succeeded)
            /\ IF result.stops THEN exit' = "nonzero" /\ UNCHANGED at
                               ELSE at' = at + 1 /\ UNCHANGED exit
  BY DEF RunCommand
<1>. DEFINE stops == GuardCommand(lines, bad).stops
            succeeded == {lines[p[1]][p[2]] : p \in GuardCommand(lines, bad).ran \ bad}
<1>6. /\ \A simple \in succeeded : MayRun(simple)
      /\ failed' = failed \cup {<<at, p[1], p[2]>> : p \in bad}
      /\ joined' = IF "kubeadm" \in succeeded THEN disk[KubeadmPath] ELSE joined
      /\ sentinel' = (sentinel \/ "sentinel" \in succeeded)
      /\ IF stops THEN exit' = "nonzero" /\ at' = at ELSE at' = at + 1 /\ exit' = exit
  BY <1>5
<1>7. ~stops => /\ lines # <<>> /\ Len(lines) \in Nat
                /\ \A p \in bad : p[1] < Len(lines)
                /\ Range(Last(lines)) \subseteq succeeded
  BY <1>2, LastLineSucceeds
<1>. HIDE DEF lines, stops, succeeded
<1>8. joined # NotJoined => joined' # NotJoined BY <1>6 DEF MayRun, NotJoined
<1>9. "kubeadm" \in succeeded => joined' # NotJoined BY <1>6 DEF MayRun, NotJoined
<1>10. /\ sentinel' \in BOOLEAN /\ (sentinel => sentinel')
       /\ "sentinel" \in succeeded => sentinel'
  BY <1>6 DEF Inv, ProgressInv
<1>11. \A x \in failed' : x \in failed \/ \E p \in bad : x[1] = at /\ x[2] = p[1]
  BY <1>6
<1>12. \A x \in failed : /\ x[1] \in 1 .. Len(Script) /\ Script[x[1]].do = "command"
                         /\ x[1] < at
  BY <1>0 DEF Inv, ProgressInv
<1>13. ASSUME NEW s \in 1 .. at - 1 PROVE Done(s)'
  <2>1. Done(s) BY DEF Inv, ProgressInv
  <2>2. s # at BY <1>1
  <2>3. \A x \in failed' : x[1] = s => x \in failed BY <1>11, <2>2
  <2>. QED BY <1>4, <1>8, <1>10, <2>1, <2>3 DEF Done
<1>14. ASSUME NEW s, s = at, ~stops PROVE Done(s)'
  <2>1. \A x \in failed' : x[1] = s => x[2] < Len(lines)
    BY <1>1, <1>7, <1>11, <1>12, <1>14
  <2>. QED BY <1>4, <1>7, <1>9, <1>10, <1>14, <2>1 DEF Done, lines
<1>15. ProgressInv'
  <2>1. \A s \in 1 .. at' - 1 : Done(s)'
    <3>1. \A s \in 1 .. at' - 1 : s \in 1 .. at - 1 \/ (s = at /\ ~stops) BY <1>1, <1>6
    <3>. QED BY <1>13, <1>14, <3>1
  <2>2. at' \in 1 .. Len(Script) + 1 BY <1>1, <1>6
  <2>3. \A x \in failed' : /\ x[1] \in 1 .. Len(Script) /\ Script[x[1]].do = "command"
                           /\ exit' = "running" => x[1] < at'
    BY <1>0, <1>1, <1>6, <1>11, <1>12
  <2>4. exit' \in {"running", "nonzero"} BY <1>0, <1>6
  <2>. QED BY <1>0, <1>3, <1>4, <1>10, <2>1, <2>2, <2>3, <2>4 DEF Inv, ProgressInv
<1>16. KubeadmPath \in Paths BY DEF Paths
<1>17. DiskInv'
  BY <1>3, <1>6, <1>16 DEF Inv, DiskInv
<1>18. KubeadmInv'
  <2>. SUFFICES ASSUME InPlace(config)
               PROVE  /\ \A s \in 1 .. at' - 1 :
                             s <= Len(config.files) /\ config.files[s].path = KubeadmPath
                                 => HasKubeadm(disk[KubeadmPath])
                      /\ joined' # NotJoined => HasKubeadm(joined')
    BY <1>3 DEF Inv, KubeadmInv
  <2>1. ~(at <= Len(config.files))
    <3>1. FileStep(at).do # "command" BY DEF FileStep
    <3>. QED BY <1>0, <1>1, <3>1, ScriptShape
  <2>2. \A s \in 1 .. at' - 1 : s \in 1 .. at - 1 \/ s = at BY <1>1, <1>6
  <2>3. joined' # NotJoined => HasKubeadm(joined')
    BY <1>6 DEF Inv, KubeadmInv, MayRun
  <2>. QED BY <2>1, <2>2, <2>3 DEF Inv, KubeadmInv
<1>. QED BY <1>15, <1>17, <1>18, RunGiven DEF Inv

\* The end of a run, and the next one: nothing is behind the script then.
LEMMA EndStep == Inv /\ (Finish \/ Rerun) => Inv'
<1>. SUFFICES ASSUME Inv, Finish \/ Rerun PROVE Inv' OBVIOUS
<1>0. /\ config \in CloudConfigs /\ opts \in Options
      /\ at \in 1 .. Len(Script) + 1 /\ runs \in 0 .. MaxRuns /\ exit # "refused"
  BY DEF Inv, ProgressInv, Finish, Rerun
<1>1. Len(Script) \in Nat BY <1>0, ScriptShape
<1>2. config' = config /\ opts' = opts /\ disk' = disk /\ joined' = joined /\ sentinel' = sentinel
  BY DEF Finish, Rerun
<1>3. Script' = Script BY <1>2, ScriptStays
<1>4. DiskInv' /\ GivenInv'
  <2>1. DiskInv' BY <1>2 DEF Inv, DiskInv
  <2>2. GivenBy(KubeadmPath)' = GivenBy(KubeadmPath) /\ Given(KubeadmPath)' = Given(KubeadmPath)
    BY <1>2, GivenStays
  <2>3. exit' = "running" => 1 .. Behind' = {}
    <3>1. exit' = "running" => at' = 1 BY DEF Finish, Rerun
    <3>2. Len(config.files) \in Nat BY <1>0, ConfigShape
    <3>. QED BY <1>2, <3>1, <3>2 DEF Behind
  <2>4. GivenInv' BY <1>2, <2>2, <2>3 DEF Inv, GivenInv
  <2>. QED BY <2>1, <2>4
<1>5. CASE Finish
  <2>1. exit' = "zero" /\ at' = at /\ failed' = failed /\ runs' = runs /\ at = Len(Script) + 1
    BY <1>0, <1>1, <1>5 DEF Finish
  <2>2. \A s \in 1 .. at - 1 : Done(s)' BY <1>2, <1>3, <2>1 DEF Inv, ProgressInv, Done
  <2>3. ProgressInv' BY <1>0, <1>2, <1>3, <2>1, <2>2 DEF Inv, ProgressInv
  <2>4. KubeadmInv' BY <1>2, <2>1 DEF Inv, KubeadmInv
  <2>. QED BY <1>4, <2>3, <2>4 DEF Inv
<1>6. CASE Rerun
  <2>1. exit' = "running" /\ at' = 1 /\ failed' = {} /\ runs' = runs + 1 /\ runs < MaxRuns
    BY <1>6 DEF Rerun
  <2>2. runs' \in 0 .. MaxRuns /\ 1 .. at' - 1 = {} /\ at' \in 1 .. Len(Script) + 1
    BY <1>0, <1>1, <2>1, RunsAssumption
  <2>3. ProgressInv' BY <1>0, <1>2, <1>3, <2>1, <2>2 DEF Inv, ProgressInv
  <2>4. KubeadmInv' BY <1>2, <2>2 DEF Inv, KubeadmInv
  <2>. QED BY <1>4, <2>3, <2>4 DEF Inv
<1>. QED BY <1>5, <1>6

\* The invariant holds in every reachable state.
LEMMA Invariance == Spec => []Inv
<1>1. Inv /\ [Next]_vars => Inv'
  <2>. SUFFICES ASSUME Inv, [Next]_vars PROVE Inv' OBVIOUS
  <2>1. CASE UNCHANGED vars
    <3>1. Script' = Script BY <2>1, ScriptStays DEF vars
    <3>2. ProgressInv' BY <2>1, <3>1 DEF vars, Inv, ProgressInv, Done
    <3>3. DiskInv' /\ KubeadmInv' BY <2>1 DEF vars, Inv, DiskInv, KubeadmInv
    <3>4. GivenInv'
      <4>1. /\ GivenBy(KubeadmPath)' = GivenBy(KubeadmPath) /\ Given(KubeadmPath)' = Given(KubeadmPath)
            /\ Behind' = Behind
        BY <2>1, GivenStays DEF vars, Behind
      <4>. QED BY <2>1, <4>1 DEF vars, Inv, GivenInv
    <3>. QED BY <3>2, <3>3, <3>4 DEF Inv
  <2>. QED BY <2>1, WriteStep, RunStep, EndStep DEF Next
<1>. QED BY <1>1, InvInit, PTL DEF Spec

-----------------------------------------------------------------------------
(* The theorems.                                                           *)

\* Every variable keeps its type, whatever the bootstrap data holds: in particular no
\* document kg writes or kubeadm reads is malformed, and only commands are recorded as failed.
THEOREM TypeCorrect == Spec => []TypeOK
<1>1. Inv => TypeOK
  BY DEF Inv, ProgressInv, DiskInv, TypeOK
<1>. QED BY <1>1, Invariance, PTL

\* The bootstrap provider writes the sentinel in the line that calls kubeadm.
Signals(c) ==
    \A m \in Range(c.runcmd) :
        m.lines # <<>> /\ "kubeadm" \in Range(Last(m.lines)) => "sentinel" \in Range(Last(m.lines))

\* A rendered script that exits 0 skipped no directive, each of its entries ended with
\* status 0, and a node has joined where the cloud-config joins one: for any files, any
\* commands and any number of runs by hand, if the line that joins is the one that writes
\* the sentinel.  A failing line before the last of its entry goes unnoticed in the code,
\* and the theorem does not exclude it.
THEOREM ExitZeroMeansEntriesSucceeded ==
    Spec => [](Signals(config) => ZeroMeansEntriesSucceeded)
<1>1. Inv => (Signals(config) => ZeroMeansEntriesSucceeded)
  <2>. SUFFICES ASSUME Inv, Signals(config), exit = "zero"
               PROVE  /\ config.directives \subseteq Supported
                      /\ \A x \in failed : x[2] < Len(Script[x[1]].lines)
                      /\ (\E m \in Range(config.runcmd) : "kubeadm" \in Range(Last(m.lines)))
                             => joined # NotJoined /\ sentinel
    BY DEF ZeroMeansEntriesSucceeded
  <2>0. config \in CloudConfigs /\ ~Refused(config, opts) /\ at = Len(Script) + 1
    BY DEF Inv, ProgressInv
  <2>1. Len(Script) \in Nat /\ DOMAIN Script = 1 .. Len(Script) BY <2>0, ScriptShape
  <2>2. \A s \in DOMAIN Script : Done(s)
    <3>1. 1 .. at - 1 = DOMAIN Script BY <2>0, <2>1
    <3>. QED BY <3>1 DEF Inv, ProgressInv
  <2>3. config.directives \subseteq Supported BY <2>0 DEF Refused, CheckUnsupported
  <2>4. ASSUME NEW m \in Range(config.runcmd), "kubeadm" \in Range(Last(m.lines))
        PROVE  joined # NotJoined /\ sentinel
    <3>1. PICK s \in DOMAIN Script : Script[s] = CommandStep(m) BY <2>0, <2>1, ScriptShape
    <3>2. Script[s].do = "command" /\ Script[s].lines = m.lines BY <3>1 DEF CommandStep
    <3>3. m.lines # <<>> /\ joined # NotJoined BY <2>2, <2>4, <3>2 DEF Done
    <3>4. "sentinel" \in Range(Last(m.lines)) BY <2>4, <3>3 DEF Signals
    <3>. QED BY <2>2, <3>2, <3>3, <3>4 DEF Done
  <2>5. ASSUME NEW x \in failed PROVE x[2] < Len(Script[x[1]].lines)
    <3>1. x[1] \in DOMAIN Script /\ Script[x[1]].do = "command"
      BY <2>1 DEF Inv, ProgressInv
    <3>. QED BY <2>2, <3>1 DEF Done
  <2>. QED BY <2>3, <2>4, <2>5
<1>. QED BY <1>1, Invariance, PTL

\* What kubeadm has read is what the bootstrap data has for its file, document by document.
LEMMA JoinedDocuments ==
    ASSUME Inv, InPlace(config), joined # NotJoined
    PROVE  LET g == Given(KubeadmPath)
           IN  /\ opts \in Options /\ Len(joined) = Len(g) /\ DOMAIN joined = DOMAIN g
               /\ \A i \in DOMAIN joined :
                     /\ g[i] \in Range(g) /\ WellFormed(g[i]) /\ ~CannotPatch(g[i], opts)
                     /\ joined[i] = IF IsKubeadmConfig(g[i]) THEN PatchDocument(g[i], opts) ELSE g[i]
<1>. DEFINE g == Given(KubeadmPath)
<1>0. /\ config \in CloudConfigs /\ opts \in Options /\ ~Refused(config, opts)
      /\ joined = PatchKubeadmConfig(g, opts) /\ joined \in Seq(Documents)
  BY DEF Inv, ProgressInv, GivenInv, DiskInv
<1>1. g \in Seq(Documents) /\ Range(g) \subseteq DocumentsOf(config)
  <2>1. Len(config.files) \in 0 .. Len(config.files) BY <1>0, ConfigShape
  <2>. QED BY <1>0, <2>1, GivenTyped DEF Given
<1>. HIDE DEF g
<1>2. /\ DOMAIN joined = DOMAIN g
      /\ \A i \in DOMAIN g :
            joined[i] = IF IsKubeadmConfig(g[i]) THEN PatchDocument(g[i], opts) ELSE g[i]
  BY <1>0 DEF PatchKubeadmConfig
<1>3. Len(joined) = Len(g)
  <2>1. /\ DOMAIN joined = 1 .. Len(joined) /\ Len(joined) \in Nat
        /\ DOMAIN g = 1 .. Len(g) /\ Len(g) \in Nat
    BY <1>0, <1>1, LenProperties
  <2>2. 1 .. Len(joined) = 1 .. Len(g) BY <1>2, <2>1, Zenon
  <2>. QED BY <2>1, <2>2, SameLength
<1>4. ASSUME NEW i \in DOMAIN g
      PROVE  g[i] \in Range(g) /\ WellFormed(g[i]) /\ ~CannotPatch(g[i], opts)
  <2>1. g[i] \in Range(g) BY DEF Range
  <2>. QED BY <1>0, <1>1, <2>1, DocumentsAccepted
<1>. QED BY <1>0, <1>2, <1>3, <1>4 DEF g

\* No node joins without the provider ID and the address kg was given for its host, for any
\* documents, any flags in them and any number of runs by hand, if kubeadm's file starts with
\* a configuration.
THEOREM NodesJoinPinned == Spec => [](InPlace(config) => JoinedIsPinned)
<1>1. Inv => (InPlace(config) => JoinedIsPinned)
  <2>. DEFINE g == Given(KubeadmPath)
  <2>. SUFFICES ASSUME Inv, InPlace(config), joined # NotJoined,
                       \A doc \in Range(g) : ListsFlagsOnce(doc)
               PROVE  /\ \E doc \in Range(joined) : IsKubeadmConfig(doc)
                      /\ \A doc \in Range(joined) : IsKubeadmConfig(doc) =>
                             /\ opts.ProviderID => PinnedFlag(doc, "provider-id")
                             /\ opts.HostAddress => PinnedFlag(doc, "node-ip")
                             /\ opts.HostAddress /\ Advertises(doc) => doc.endpoint = "pinned"
    BY DEF JoinedIsPinned
  <2>1. \E doc \in Range(joined) : IsKubeadmConfig(doc)
    BY DEF Inv, KubeadmInv, HasKubeadm
  <2>2. /\ opts \in Options
        /\ \A i \in DOMAIN joined :
              /\ g[i] \in Range(g) /\ WellFormed(g[i]) /\ ~CannotPatch(g[i], opts)
              /\ joined[i] = IF IsKubeadmConfig(g[i]) THEN PatchDocument(g[i], opts) ELSE g[i]
    BY JoinedDocuments
  <2>. HIDE DEF g
  <2>3. ASSUME NEW doc \in Range(joined), IsKubeadmConfig(doc) PROVE PinnedDoc(doc, opts)
    <3>1. PICK i \in DOMAIN joined : doc = joined[i] BY DEF Range
    <3>2. IsKubeadmConfig(g[i]) /\ doc = PatchDocument(g[i], opts) BY <2>2, <2>3, <3>1
    <3>3. Once(g[i].args) BY <2>2 DEF ListsFlagsOnce, Once
    <3>. QED BY <2>2, <3>2, <3>3, DocumentIsPatched
  <2>4. ASSUME NEW doc, NEW n, Pinned(doc.args, n) PROVE PinnedFlag(doc, n)
    BY <2>4 DEF Pinned, PinnedFlag, Range
  <2>. QED BY <2>1, <2>3, <2>4 DEF PinnedDoc
<1>. QED BY <1>1, Invariance, PTL

\* Pinning loses nothing of what the bootstrap data has for kubeadm, in whatever files it
\* comes and however often the script is run by hand, if kubeadm's file is not appended to
\* before it is written.
THEOREM PinningLosesNothing == Spec => [](InPlace(config) => NothingElseChanges)
<1>1. Inv => (InPlace(config) => NothingElseChanges)
  <2>. DEFINE g == Given(KubeadmPath)
  <2>. SUFFICES ASSUME Inv, InPlace(config), joined # NotJoined
               PROVE  /\ Len(joined) = Len(g)
                      /\ \A i \in DOMAIN joined :
                            IF IsKubeadmConfig(g[i])
                            THEN /\ joined[i].kind = g[i].kind /\ KeepsFlags(joined[i], g[i])
                                 /\ joined[i].controlPlane = g[i].controlPlane
                                 /\ g[i].shape # "nil" => joined[i].shape = g[i].shape
                                 /\ joined[i].endpoint # g[i].endpoint
                                        => opts.HostAddress /\ Advertises(g[i])
                            ELSE joined[i] = g[i]
    BY Zenon DEF NothingElseChanges
  <2>1. /\ opts \in Options /\ Len(joined) = Len(g)
        /\ \A i \in DOMAIN joined :
              /\ g[i] \in Range(g) /\ WellFormed(g[i]) /\ ~CannotPatch(g[i], opts)
              /\ joined[i] = IF IsKubeadmConfig(g[i]) THEN PatchDocument(g[i], opts) ELSE g[i]
    BY JoinedDocuments
  <2>. HIDE DEF g
  <2>2. ASSUME NEW i \in DOMAIN joined, IsKubeadmConfig(g[i]) PROVE OnlyPinned(joined[i], g[i], opts)
    BY <2>1, <2>2, DocumentIsPatched
  <2>3. ASSUME NEW d, NEW doc, OnlyPinned(d, doc, opts) PROVE KeepsFlags(d, doc)
    BY <2>3, Zenon DEF OnlyPinned, Keeps, KeepsFlags
  <2>4. ASSUME NEW i \in DOMAIN joined, IsKubeadmConfig(g[i])
        PROVE  /\ joined[i].kind = g[i].kind /\ KeepsFlags(joined[i], g[i])
               /\ joined[i].controlPlane = g[i].controlPlane
               /\ g[i].shape # "nil" => joined[i].shape = g[i].shape
               /\ joined[i].endpoint # g[i].endpoint => opts.HostAddress /\ Advertises(g[i])
    <3>1. OnlyPinned(joined[i], g[i], opts) BY <2>2, <2>4
    <3>2. KeepsFlags(joined[i], g[i]) BY <2>3, <3>1
    <3>. QED BY <3>1, <3>2, Zenon DEF OnlyPinned
  <2>5. \A i \in DOMAIN joined : ~IsKubeadmConfig(g[i]) => joined[i] = g[i] BY <2>1
  <2>6. Len(joined) = Len(g) BY <2>1
  <2>. QED BY <2>4, <2>5, <2>6, Zenon
<1>. QED BY <1>1, Invariance, PTL
==============================================================================
