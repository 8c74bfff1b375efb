--------------------------- MODULE InventoryOrder ---------------------------
(***************************************************************************)
(* The order the host pool is listed and claimed in.  A list of hosts      *)
(* arrives in the order of a cache, which differs between reads; SortHosts *)
(* has to bring every such list into the one order a person expects, with  *)
(* the digits of a name counted as a number.  A name is its bytes.         *)
(***************************************************************************)
EXTENDS Integers, Sequences, SequencesExt, FiniteSetsExt

-----------------------------------------------------------------------------
(* CompareNames: negative, zero or positive.                               *)

IsDigit(c)  == c \in 48 .. 57
IsDigits(s) == \A i \in DOMAIN s : IsDigit(s[i])

\* chunk: the leading run of digits, or of everything else; and the rest.
HeadLength(s) == Max({k \in 1 .. Len(s) : \A i \in 1 .. k : IsDigit(s[i]) = IsDigit(s[1])})
HeadOf(s)     == SubSeq(s, 1, HeadLength(s))
RestOf(s)     == SubSeq(s, HeadLength(s) + 1, Len(s))

\* strings.Compare.
StringsCompare(a, b) ==
    LET differ == {i \in 1 .. Min({Len(a), Len(b)}) : a[i] # b[i]}
    IN  IF differ # {} THEN a[Min(differ)] - b[Min(differ)] ELSE Len(a) - Len(b)

TrimZeros(s) ==
    LET others == {i \in DOMAIN s : s[i] # 48}
    IN  IF others = {} THEN <<>> ELSE SubSeq(s, Min(others), Len(s))

\* Mutant: leading zeros do not count at all.
CompareTrimmed(a, b) ==
    LET na == TrimZeros(a)
        nb == TrimZeros(b)
    IN  IF Len(na) # Len(nb) THEN Len(na) - Len(nb) ELSE StringsCompare(na, nb)

\* Compared without converting them, the zeros only decide a tie.
CompareNumbers(a, b) ==
    LET na == TrimZeros(a)
        nb == TrimZeros(b)
    IN  IF Len(na) # Len(nb) THEN Len(na) - Len(nb)
        ELSE IF na # nb THEN StringsCompare(na, nb)
        ELSE StringsCompare(a, b)

CompareHeads(a, b) ==
    IF IsDigits(a) /\ IsDigits(b) THEN CompareNumbers(a, b) ELSE StringsCompare(a, b)

Names == Seq(0 .. 255)

CompareNames(a, b) ==
    LET compare[p \in Names \X Names] ==
            LET x == p[1]
                y == p[2]
                c == CompareHeads(HeadOf(x), HeadOf(y))
            IN  IF x = <<>> \/ y = <<>> THEN Len(x) - Len(y)
                ELSE IF c # 0 THEN c ELSE compare[<<RestOf(x), RestOf(y)>>]
    IN  compare[<<a, b>>]

-----------------------------------------------------------------------------
(* SortHosts puts any list of the hosts in this order.  What its callers   *)
(* rely on is the head of the list: a host that none is less than; of two  *)
(* that compare equal, the one the cache returned first.                   *)

Heads(hosts) == {h \in hosts : \A other \in hosts : CompareNames(other, h) >= 0}

-----------------------------------------------------------------------------
(* The reference: a name is a row of words and numbers, compared from the  *)
(* left, numbers by their value.                                           *)

Value(digits) ==
    LET value[k \in 0 .. Len(digits)] ==
            IF k = 0 THEN 0 ELSE 10 * value[k - 1] + (digits[k] - 48)
    IN  value[Len(digits)]

\* A word or a number ends behind the k-th byte; the one that starts there.
Boundary(s, k) == k = 0 \/ k = Len(s) \/ IsDigit(s[k]) # IsDigit(s[k + 1])
PartAt(s, k)   == SubSeq(s, k + 1, Min({e \in k + 1 .. Len(s) : Boundary(s, e)}))

TextBefore(a, b) ==
    \/ Len(a) < Len(b) /\ \A j \in DOMAIN a : a[j] = b[j]
    \/ \E i \in DOMAIN a \cap DOMAIN b :
          a[i] < b[i] /\ \A j \in 1 .. i - 1 : a[j] = b[j]

PartBefore(p, q) ==
    IF IsDigits(p) /\ IsDigits(q) /\ Value(p) # Value(q) THEN Value(p) < Value(q)
                                                         ELSE TextBefore(p, q)

\* They agree in the words and numbers up to k, and the next one decides.
Before(a, b) ==
    \E k \in 0 .. Len(a) :
        /\ k < Len(b) /\ Boundary(a, k) /\ Boundary(b, k)
        /\ \A j \in 1 .. k : a[j] = b[j]
        /\ k = Len(a) \/ PartBefore(PartAt(a, k), PartAt(b, k))

=============================================================================
