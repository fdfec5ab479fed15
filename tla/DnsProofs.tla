----------------------------- MODULE DnsProofs -----------------------------
(***************************************************************************)
(* What the editors of the draft keep, for any tags, codes, requests and   *)
(* bounds, from any configuration that has it.                             *)
(***************************************************************************)
EXTENDS DnsDraft, SequenceTheorems, FiniteSetTheorems, WellFoundedInduction, TLAPS

(* Sequences: taking one element out, putting one in, moving one.            *)

LEMMA Removing ==
    ASSUME NEW S, NEW s \in Seq(S), NEW i \in 1..Len(s)
    PROVE  /\ RemoveAt(s, i) \in Seq(S)
           /\ Len(RemoveAt(s, i)) = Len(s) - 1
           /\ \A j \in 1..(Len(s) - 1) : RemoveAt(s, i)[j] = IF j < i THEN s[j] ELSE s[j + 1]
<1> DEFINE a == SubSeq(s, 1, i - 1)
           b == SubSeq(s, i + 1, Len(s))
<1>1. Len(s) \in Nat /\ \A j \in 1..Len(s) : s[j] \in S BY LenProperties, ElementOfSeq
<1>2. /\ a \in Seq(S) /\ Len(a) = i - 1 /\ \A j \in 1..(i - 1) : a[j] = s[j]
      /\ b \in Seq(S) /\ Len(b) = Len(s) - i /\ \A j \in 1..(Len(s) - i) : b[j] = s[j + i]
  <2>1. \A j \in 1..(i - 1) : s[j] \in S BY <1>1
  <2>2. \A j \in (i + 1)..Len(s) : s[j] \in S BY <1>1
  <2>3. a \in Seq(S) /\ Len(a) = i - 1 /\ \A j \in 1..(i - 1) : a[j] = s[j]
    BY <1>1, <2>1, SubSeqProperties
  <2>4. b \in Seq(S) /\ Len(b) = Len(s) - i /\ \A j \in 1..(Len(s) - i) : b[j] = s[j + i]
    BY <1>1, <2>2, SubSeqProperties
  <2> QED BY <2>3, <2>4
<1> HIDE DEF a, b
<1>3. /\ a \o b \in Seq(S) /\ Len(a \o b) = Len(s) - 1
      /\ \A j \in 1..(Len(s) - 1) : (a \o b)[j] = IF j < i THEN a[j] ELSE b[j - i + 1]
  <2>1. a \o b \in Seq(S) /\ Len(a \o b) = Len(a) + Len(b) BY <1>2, ConcatProperties
  <2>2. \A j \in 1..(Len(a) + Len(b)) : (a \o b)[j] = IF j <= Len(a) THEN a[j] ELSE b[j - Len(a)]
    BY <1>2, ConcatProperties
  <2>3. Len(a) + Len(b) = Len(s) - 1 BY <1>1, <1>2
  <2>4. ASSUME NEW j \in 1..(Len(s) - 1) PROVE (a \o b)[j] = IF j < i THEN a[j] ELSE b[j - i + 1]
    <3>1. (j <= Len(a)) = (j < i) /\ j - Len(a) = j - i + 1 BY <1>1, <1>2
    <3>2. (a \o b)[j] = IF j <= Len(a) THEN a[j] ELSE b[j - Len(a)] BY <2>2, <2>3
    <3> QED BY <3>1, <3>2
  <2> QED BY <2>1, <2>3, <2>4
<1>4. RemoveAt(s, i) = a \o b BY DEF RemoveAt, a, b
<1>5. ASSUME NEW j \in 1..(Len(s) - 1) PROVE (a \o b)[j] = IF j < i THEN s[j] ELSE s[j + 1]
  <2>1. CASE j < i BY <1>1, <1>2, <1>3, <2>1
  <2>2. CASE ~(j < i)
    <3>1. j - i + 1 \in 1..(Len(s) - i) BY <1>1, <2>2
    <3>2. b[j - i + 1] = s[j - i + 1 + i] BY <1>2, <3>1
    <3>3. j - i + 1 + i = j + 1 BY <1>1
    <3>4. (a \o b)[j] = b[j - i + 1] BY <1>1, <1>3, <2>2
    <3> QED BY <1>1, <2>2, <3>2, <3>3, <3>4
  <2> QED BY <1>1, <2>1, <2>2
<1> QED BY <1>3, <1>4, <1>5

LEMMA Inserting ==
    ASSUME NEW S, NEW s \in Seq(S), NEW i \in 1..(Len(s) + 1), NEW x \in S
    PROVE  /\ InsertAt(s, i, x) \in Seq(S)
           /\ Len(InsertAt(s, i, x)) = Len(s) + 1
           /\ \A j \in 1..(Len(s) + 1) :
                  InsertAt(s, i, x)[j] = IF j < i THEN s[j] ELSE IF j = i THEN x ELSE s[j - 1]
<1> DEFINE a == SubSeq(s, 1, i - 1)
           b == SubSeq(s, i, Len(s))
           c == <<x>>
<1>1. Len(s) \in Nat /\ \A j \in 1..Len(s) : s[j] \in S BY LenProperties, ElementOfSeq
<1>2. a \in Seq(S) /\ Len(a) = i - 1 /\ \A j \in 1..(i - 1) : a[j] = s[j]
  BY <1>1, SubSeqProperties
<1>3. b \in Seq(S) /\ Len(b) = Len(s) - i + 1 /\ \A j \in 1..(Len(s) - i + 1) : b[j] = s[j + i - 1]
  BY <1>1, SubSeqProperties
<1>4. c \in Seq(S) /\ Len(c) = 1 /\ c[1] = x OBVIOUS
<1>5. InsertAt(s, i, x) = (a \o c) \o b BY DEF InsertAt
<1> HIDE DEF a, b, c
<1>6. a \o c \in Seq(S) /\ Len(a \o c) = i /\ \A j \in 1..i : (a \o c)[j] = IF j < i THEN a[j] ELSE x
  <2>1. a \o c \in Seq(S) /\ Len(a \o c) = Len(a) + Len(c) BY <1>2, <1>4, ConcatProperties
  <2>2. \A j \in 1..(Len(a) + Len(c)) : (a \o c)[j] = IF j <= Len(a) THEN a[j] ELSE c[j - Len(a)]
    BY <1>2, <1>4, ConcatProperties
  <2>3. (a \o c)[i] = c[1]
    <3>1. i \in 1..(Len(a) + Len(c)) /\ ~(i <= Len(a)) /\ i - Len(a) = 1 BY <1>1, <1>2, <1>4
    <3> QED BY <2>2, <3>1
  <2> QED BY <1>1, <1>2, <1>4, <2>1, <2>2, <2>3
<1>7. /\ (a \o c) \o b \in Seq(S) /\ Len((a \o c) \o b) = Len(s) + 1
      /\ \A j \in 1..(Len(s) + 1) :
             ((a \o c) \o b)[j] = IF j <= i THEN (a \o c)[j] ELSE b[j - i]
  <2>0. a \o c \in Seq(S) /\ b \in Seq(S) BY <1>3, <1>6
  <2>1. (a \o c) \o b \in Seq(S) /\ Len((a \o c) \o b) = Len(a \o c) + Len(b)
    BY <2>0, ConcatProperties
  <2>2. \A j \in 1..(Len(a \o c) + Len(b)) :
            ((a \o c) \o b)[j] = IF j <= Len(a \o c) THEN (a \o c)[j] ELSE b[j - Len(a \o c)]
    BY <2>0, ConcatProperties
  <2>3. Len(a \o c) + Len(b) = Len(s) + 1 BY <1>1, <1>3, <1>6
  <2>4. Len(a \o c) = i BY <1>6
  <2>5. \A j \in 1..(Len(s) + 1) :
            ((a \o c) \o b)[j] = IF j <= i THEN (a \o c)[j] ELSE b[j - i]
    <3> SUFFICES ASSUME NEW j \in 1..(Len(s) + 1)
                 PROVE  ((a \o c) \o b)[j] = IF j <= i THEN (a \o c)[j] ELSE b[j - i]
      OBVIOUS
    <3>1. j \in 1..(Len(a \o c) + Len(b)) BY <2>3, Zenon
    <3>2. ((a \o c) \o b)[j] = IF j <= Len(a \o c) THEN (a \o c)[j] ELSE b[j - Len(a \o c)]
      BY <2>2, <3>1, Zenon
    <3> QED BY <2>4, <3>2, Zenon
  <2> QED BY <2>1, <2>3, <2>5
<1>8. ASSUME NEW j \in 1..(Len(s) + 1)
      PROVE  ((a \o c) \o b)[j] = IF j < i THEN s[j] ELSE IF j = i THEN x ELSE s[j - 1]
  <2>1. CASE j <= i BY <1>1, <1>2, <1>6, <1>7, <2>1
  <2>2. CASE ~(j <= i)
    <3>1. j - i \in 1..(Len(s) - i + 1) BY <1>1, <2>2
    <3>2. b[j - i] = s[j - i + i - 1] BY <1>3, <3>1
    <3>3. j - i + i - 1 = j - 1 BY <1>1
    <3>4. ((a \o c) \o b)[j] = b[j - i] BY <1>1, <1>7, <2>2
    <3> QED BY <1>1, <2>2, <3>2, <3>3, <3>4
  <2> QED BY <1>1, <2>1, <2>2
<1> QED BY <1>5, <1>7, <1>8

LEMMA Moving ==
    ASSUME NEW S, NEW s \in Seq(S), NEW from \in 1..Len(s), NEW to \in 1..Len(s)
    PROVE  /\ Moved(s, from, to) \in Seq(S)
           /\ Len(Moved(s, from, to)) = Len(s)
           /\ Moved(s, from, to)[to] = s[from]
           /\ RemoveAt(Moved(s, from, to), to) = RemoveAt(s, from)
           /\ \A j \in 1..Len(s) : \E k \in 1..Len(s) :
                  /\ Moved(s, from, to)[j] = s[k]
                  /\ j > from /\ j > to => k = j
<1> DEFINE t == RemoveAt(s, from)
           m == Moved(s, from, to)
<1>1. Len(s) \in Nat /\ s[from] \in S BY LenProperties, ElementOfSeq
<1>2. /\ t \in Seq(S) /\ Len(t) = Len(s) - 1
      /\ \A j \in 1..(Len(s) - 1) : t[j] = IF j < from THEN s[j] ELSE s[j + 1]
  BY Removing
<1>3. m = InsertAt(t, to, s[from]) BY DEF Moved
<1> HIDE DEF m, t
<1>4. /\ m \in Seq(S) /\ Len(m) = Len(s)
      /\ \A j \in 1..Len(s) : m[j] = IF j < to THEN t[j] ELSE IF j = to THEN s[from] ELSE t[j - 1]
  <2>1. to \in 1..(Len(t) + 1) /\ Len(t) + 1 = Len(s) BY <1>1, <1>2
  <2>2. t \in Seq(S) BY <1>2
  <2> DEFINE x == s[from]
             n == InsertAt(t, to, x)
  <2>3. x \in S BY <1>1
  <2> HIDE DEF x
  <2>4. /\ n \in Seq(S) /\ Len(n) = Len(t) + 1
        /\ \A j \in 1..(Len(t) + 1) : n[j] = IF j < to THEN t[j] ELSE IF j = to THEN x ELSE t[j - 1]
    BY <2>1, <2>2, <2>3, Inserting
  <2>5. m = n BY <1>3 DEF x
  <2> HIDE DEF n
  <2> QED BY <2>1, <2>4, <2>5 DEF x
<1>5. RemoveAt(m, to) = t
  <2>1. /\ RemoveAt(m, to) \in Seq(S) /\ Len(RemoveAt(m, to)) = Len(s) - 1
        /\ \A j \in 1..(Len(s) - 1) : RemoveAt(m, to)[j] = IF j < to THEN m[j] ELSE m[j + 1]
    BY <1>4, Removing
  <2>2. \A j \in 1..(Len(s) - 1) : RemoveAt(m, to)[j] = t[j] BY <1>1, <1>4, <2>1
  <2> QED BY <1>1, <1>2, <2>1, <2>2, SeqEqual
<1>6. ASSUME NEW j \in 1..Len(s)
      PROVE  \E k \in 1..Len(s) : m[j] = s[k] /\ (j > from /\ j > to => k = j)
  <2>1. CASE j = to BY <1>1, <1>4, <2>1
  <2>2. CASE j < to
    <3>1. m[j] = t[j] /\ j \in 1..(Len(s) - 1) BY <1>1, <1>4, <2>2
    <3>2. t[j] = IF j < from THEN s[j] ELSE s[j + 1] BY <1>2, <3>1
    <3>3. j + 1 \in 1..Len(s) BY <1>1, <3>1
    <3> QED BY <1>1, <2>2, <3>1, <3>2, <3>3
  <2>3. CASE j > to
    <3>1. m[j] = t[j - 1] /\ j - 1 \in 1..(Len(s) - 1) BY <1>1, <1>4, <2>3
    <3>2. t[j - 1] = IF j - 1 < from THEN s[j - 1] ELSE s[j] BY <1>1, <1>2, <3>1
    <3> QED BY <1>1, <2>3, <3>1, <3>2
  <2> QED BY <1>1, <2>1, <2>2, <2>3
<1> QED BY <1>4, <1>5, <1>6, <1>1 DEF m, t

LEMMA Least ==
    ASSUME NEW T \in SUBSET Nat, T # {}
    PROVE  \E i \in T : \A j \in T : ~(j < i)
<1> DEFINE R == {ss \in Nat \X Nat : ss[1] < ss[2]}
<1>1. IsWellFoundedOn(R, Nat) BY NatLessThanWellFounded DEF OpToRel
<1>2. \E x \in T : \A y \in T : ~(<<y, x>> \in R) BY <1>1, WFMin
<1> QED BY <1>2

\* What a sequence holds, and what it holds after a change at one place.
LEMMA Members ==
    ASSUME NEW S, NEW s \in Seq(S)
    PROVE  /\ ToSet(s) \subseteq S
           /\ \A i \in 1..Len(s) : s[i] \in ToSet(s) /\ s[i] \in S
           /\ \A x \in ToSet(s) : \E i \in 1..Len(s) : s[i] = x
           /\ Len(s) \in Nat /\ DOMAIN s = 1..Len(s)
BY LenProperties, ElementOfSeq DEF ToSet

LEMMA First ==
    ASSUME NEW S, NEW s \in Seq(S), NEW x \in ToSet(s)
    PROVE  FirstOf(x, s) \in 1..Len(s) /\ s[FirstOf(x, s)] = x
<1>1. Len(s) \in Nat /\ DOMAIN s = 1..Len(s) BY Members
<1> DEFINE T == {i \in 1..Len(s) : s[i] = x}
<1>2. T \in SUBSET Nat /\ T # {} BY <1>1, Members
<1>3. PICK i \in T : \A j \in T : ~(j < i) BY <1>2, Least
<1>4. \A j \in 1..(i - 1) : s[j] # x
  <2> SUFFICES ASSUME NEW j \in 1..(i - 1), s[j] = x PROVE FALSE OBVIOUS
  <2>1. j \in T /\ j < i BY <1>1, <1>3
  <2> QED BY <1>3, <2>1
<1>5. \E k \in DOMAIN s : s[k] = x /\ \A j \in 1..(k - 1) : s[j] # x BY <1>1, <1>3, <1>4
<1> QED BY <1>1, <1>5 DEF FirstOf

LEMMA AppendMembers ==
    ASSUME NEW S, NEW s \in Seq(S), NEW x \in S
    PROVE  /\ Append(s, x) \in Seq(S) /\ Len(Append(s, x)) = Len(s) + 1
           /\ ToSet(Append(s, x)) = ToSet(s) \cup {x}
           /\ Append(s, x)[Len(s) + 1] = x /\ \A i \in 1..Len(s) : Append(s, x)[i] = s[i]
<1> DEFINE t == Append(s, x)
<1>1. /\ t \in Seq(S) /\ Len(t) = Len(s) + 1 /\ Len(s) \in Nat
      /\ t[Len(s) + 1] = x /\ \A i \in 1..Len(s) : t[i] = s[i]
  BY AppendProperties, LenProperties
<1> HIDE DEF t
<1>2. ToSet(t) \subseteq ToSet(s) \cup {x}
  <2> SUFFICES ASSUME NEW i \in 1..Len(t) PROVE t[i] \in ToSet(s) \cup {x} BY <1>1, Members
  <2>1. CASE i = Len(s) + 1 BY <1>1, <2>1
  <2>2. CASE i # Len(s) + 1
    <3>1. i \in 1..Len(s) BY <1>1, <2>2
    <3> QED BY <1>1, <3>1, Members
  <2> QED BY <2>1, <2>2
<1>3. ToSet(s) \subseteq ToSet(t)
  <2> SUFFICES ASSUME NEW i \in 1..Len(s) PROVE s[i] \in ToSet(t) BY Members
  <2>1. i \in 1..Len(t) BY <1>1
  <2> QED BY <1>1, <2>1, Members
<1>4. x \in ToSet(t)
  <2>1. Len(s) + 1 \in 1..Len(t) BY <1>1
  <2> QED BY <1>1, <2>1, Members
<1> QED BY <1>1, <1>2, <1>3, <1>4 DEF t

Put(s, k, x) == [s EXCEPT ![k] = x]

LEMMA ReplaceMembers ==
    ASSUME NEW S, NEW s \in Seq(S), NEW k \in 1..Len(s), NEW x \in S
    PROVE  /\ Put(s, k, x) \in Seq(S) /\ Len(Put(s, k, x)) = Len(s)
           /\ \A i \in 1..Len(s) : Put(s, k, x)[i] = IF i = k THEN x ELSE s[i]
           /\ ToSet(Put(s, k, x)) \subseteq ToSet(s) \cup {x}
           /\ ToSet(s) \ {s[k]} \subseteq ToSet(Put(s, k, x))
           /\ x \in ToSet(Put(s, k, x))
<1> DEFINE t == Put(s, k, x)
<1>1. /\ t \in Seq(S) /\ Len(t) = Len(s)
      /\ \A i \in 1..Len(s) : t[i] = IF i = k THEN x ELSE s[i]
  BY ExceptSeq DEF Put
<1> HIDE DEF t
<1>2. ToSet(t) \subseteq ToSet(s) \cup {x} BY <1>1, Members
<1>3. ToSet(s) \ {s[k]} \subseteq ToSet(t)
  <2> SUFFICES ASSUME NEW i \in 1..Len(s), s[i] # s[k] PROVE s[i] \in ToSet(t) BY Members
  <2>1. t[i] = s[i] BY <1>1
  <2> QED BY <1>1, <2>1, Members
<1>4. x \in ToSet(t) BY <1>1, Members
<1> QED BY <1>1, <1>2, <1>3, <1>4 DEF t

LEMMA ReplaceFirst ==
    ASSUME NEW S, NEW s \in Seq(S), NEW x \in ToSet(s), NEW y \in S
    PROVE  /\ Put(s, FirstOf(x, s), y) \in Seq(S) /\ Len(Put(s, FirstOf(x, s), y)) = Len(s)
           /\ ToSet(s) \ {x} \subseteq ToSet(Put(s, FirstOf(x, s), y))
           /\ y \in ToSet(Put(s, FirstOf(x, s), y))
<1>1. FirstOf(x, s) \in 1..Len(s) /\ s[FirstOf(x, s)] = x BY First
<1>2. ASSUME NEW k \in 1..Len(s)
      PROVE  /\ Put(s, k, y) \in Seq(S) /\ Len(Put(s, k, y)) = Len(s)
             /\ ToSet(s) \ {s[k]} \subseteq ToSet(Put(s, k, y)) /\ y \in ToSet(Put(s, k, y))
  BY ReplaceMembers
<1> QED BY <1>1, <1>2

LEMMA RemoveMembers ==
    ASSUME NEW S, NEW s \in Seq(S), NEW k \in 1..Len(s)
    PROVE  /\ RemoveAt(s, k) \in Seq(S) /\ Len(RemoveAt(s, k)) = Len(s) - 1
           /\ ToSet(RemoveAt(s, k)) \subseteq ToSet(s)
           /\ ToSet(s) \ {s[k]} \subseteq ToSet(RemoveAt(s, k))
<1> DEFINE t == RemoveAt(s, k)
<1>1. /\ t \in Seq(S) /\ Len(t) = Len(s) - 1 /\ Len(s) \in Nat
      /\ \A j \in 1..(Len(s) - 1) : t[j] = IF j < k THEN s[j] ELSE s[j + 1]
  BY Removing, LenProperties
<1> HIDE DEF t
<1>2. ToSet(t) \subseteq ToSet(s)
  <2> SUFFICES ASSUME NEW j \in 1..Len(t) PROVE t[j] \in ToSet(s) BY <1>1, Members
  <2>1. j \in 1..(Len(s) - 1) /\ j \in 1..Len(s) /\ j + 1 \in 1..Len(s) BY <1>1
  <2> QED BY <1>1, <2>1, Members
<1>3. ToSet(s) \ {s[k]} \subseteq ToSet(t)
  <2> SUFFICES ASSUME NEW i \in 1..Len(s), s[i] # s[k] PROVE s[i] \in ToSet(t) BY Members
  <2>1. CASE i < k
    <3>1. i \in 1..(Len(s) - 1) /\ i \in 1..Len(t) BY <1>1, <2>1
    <3>2. t[i] = s[i] BY <1>1, <2>1, <3>1
    <3> QED BY <1>1, <3>1, <3>2, Members
  <2>2. CASE ~(i < k)
    <3> DEFINE j == i - 1
    <3>1. j \in 1..(Len(s) - 1) /\ j \in 1..Len(t) /\ ~(j < k) /\ j + 1 = i BY <1>1, <2>2
    <3> HIDE DEF j
    <3>2. t[j] = s[i] BY <1>1, <3>1
    <3> QED BY <1>1, <3>1, <3>2, Members
  <2> QED BY <2>1, <2>2
<1> QED BY <1>1, <1>2, <1>3 DEF t

LEMMA Enumerating ==
    ASSUME NEW S, IsFiniteSet(S)
    PROVE  /\ Cardinality(S) \in Nat
           /\ SetToSeq(S) \in [1..Cardinality(S) -> S]
           /\ S = {SetToSeq(S)[i] : i \in 1..Cardinality(S)}
<1> DEFINE n == Cardinality(S)
           f == SetToSeq(S)
<1>1. n \in Nat /\ ExistsBijection(1..n, S) BY FS_CardinalityType
<1>2. \E g \in [1..n -> S] : IsInjective(g)
  BY <1>1 DEF ExistsBijection, Bijection, Injection
<1>3. f \in [1..n -> S] /\ IsInjective(f) BY <1>2 DEF SetToSeq
<1>4. IsFiniteSet(1..n) /\ Cardinality(1..n) = n BY <1>1, FS_Interval
<1> HIDE DEF f
<1>5. f \in Injection(1..n, S) BY <1>3 DEF Injection
<1>6. f \in Surjection(1..n, S) BY <1>4, <1>5, FS_Injection
<1>7. \A x \in S : \E i \in 1..n : f[i] = x BY <1>6 DEF Surjection
<1>8. S = {f[i] : i \in 1..n} BY <1>3, <1>7
<1> QED BY <1>1, <1>3, <1>8 DEF f

-----------------------------------------------------------------------------
(* The generated tail.                                                       *)

Rules == Seq(Rule)

\* The fallback a tail at s stands for.
ReadAt(rules, s) ==
    [primary |-> rules[s].server, fallback |-> rules[s + 1].server,
     codes |-> {rules[i].code : i \in (s + 1)..(Len(rules) - 1)}]

LEMMA RuleParts ==
    /\ \A p : Evaluate(p).action = "evaluate" /\ Evaluate(p).server = p /\ Evaluate(p).sets = {}
    /\ \A c, f : /\ OnCode(c, f).action = "route" /\ OnCode(c, f).server = f
               /\ OnCode(c, f).code = c /\ OnCode(c, f).sets = {}
    /\ Respond.action = "respond" /\ Respond.server = None /\ Respond.sets = {}
BY DEF Evaluate, OnCode, Respond, Bare

LEMMA TailParts ==
    ASSUME NEW rules \in Rules, NEW s \in DOMAIN rules, TailAt(rules, s)
    PROVE  /\ s \in 1..Len(rules) /\ Len(rules) \in Nat /\ s + 2 <= Len(rules)
           /\ rules[s].action = "evaluate"
           /\ \A i \in (s + 1)..(Len(rules) - 1) : rules[i].action = "route"
<1>1. Len(rules) \in Nat /\ s \in 1..Len(rules) /\ s + 2 <= Len(rules)
  BY LenProperties DEF Rules, TailAt
<1>2. PICK p, f \in Tags : /\ rules[s] = Evaluate(p)
                           /\ \A i \in (s + 1)..(Len(rules) - 1) : \E c \in Codes : rules[i] = OnCode(c, f)
  BY DEF TailAt
<1>3. rules[s].action = "evaluate" BY <1>2, RuleParts
<1>4. ASSUME NEW i \in (s + 1)..(Len(rules) - 1) PROVE rules[i].action = "route"
  <2>1. PICK c \in Codes : rules[i] = OnCode(c, f) BY <1>2
  <2> QED BY <2>1, RuleParts
<1> QED BY <1>1, <1>3, <1>4

\* There is one tail at most.
LEMMA OneTail ==
    ASSUME NEW rules \in Rules, NEW s \in DOMAIN rules, NEW q \in DOMAIN rules,
           TailAt(rules, s), TailAt(rules, q)
    PROVE  s = q
<1>1. ASSUME NEW a \in DOMAIN rules, NEW b \in DOMAIN rules, TailAt(rules, a), TailAt(rules, b), a < b
      PROVE  FALSE
  <2>1. a \in Nat /\ b \in Nat /\ Len(rules) \in Nat /\ b \in (a + 1)..(Len(rules) - 1)
    BY <1>1, TailParts
  <2>2. rules[b].action = "route" /\ rules[b].action = "evaluate" BY <1>1, <2>1, TailParts
  <2> QED BY <2>2
<1>2. s \in Nat /\ q \in Nat BY TailParts
<1> QED BY <1>1, <1>2

LEMMA FoundAt ==
    ASSUME NEW rules \in Rules, NEW s \in DOMAIN rules, TailAt(rules, s)
    PROVE  FindStart(rules) = s /\ s # 0 /\ Found(rules) = ReadAt(rules, s)
<1>1. FindStart(rules) = s BY OneTail DEF FindStart
<1>2. s # 0 BY TailParts
<1> QED BY <1>1, <1>2 DEF Found, ReadAt

LEMMA StartIsTail ==
    ASSUME NEW rules \in Rules, FindStart(rules) # 0
    PROVE  FindStart(rules) \in DOMAIN rules /\ TailAt(rules, FindStart(rules))
BY DEF FindStart

\* The parts of a fallback that a list ends in.
LEMMA ReadOK ==
    ASSUME NEW rules \in Rules, NEW s \in DOMAIN rules, TailAt(rules, s)
    PROVE  /\ ReadAt(rules, s) \in Fallback
           /\ ReadAt(rules, s).primary # ReadAt(rules, s).fallback
           /\ ReadAt(rules, s).codes # {}
<1>1. /\ s \in 1..Len(rules) /\ Len(rules) \in Nat /\ s + 1 \in (s + 1)..(Len(rules) - 1)
  BY TailParts
<1>2. PICK p, f \in Tags : /\ p # f /\ rules[s] = Evaluate(p)
                           /\ \A i \in (s + 1)..(Len(rules) - 1) : \E c \in Codes : rules[i] = OnCode(c, f)
  BY DEF TailAt
<1>3. rules[s].server = p BY <1>2, RuleParts
<1>4. ASSUME NEW i \in (s + 1)..(Len(rules) - 1) PROVE rules[i].server = f /\ rules[i].code \in Codes
  <2>1. PICK c \in Codes : rules[i] = OnCode(c, f) BY <1>2
  <2> QED BY <2>1, RuleParts
<1> QED BY <1>1, <1>2, <1>3, <1>4 DEF ReadAt, Fallback

\* A tail that keeps its rules at the end of the list stays what it was.
LEMMA TailCarried ==
    ASSUME NEW rules \in Rules, NEW s \in DOMAIN rules, TailAt(rules, s),
           NEW next \in Rules, NEW k \in Int, s + k >= 1,
           Len(next) = Len(rules) + k,
           \A i \in s..Len(rules) : next[i + k] = rules[i]
    PROVE  s + k \in DOMAIN next /\ TailAt(next, s + k) /\ Found(next) = Found(rules)
<1> DEFINE n == Len(rules)
<1>1. n \in Nat /\ s \in 1..n /\ s + 2 <= n /\ Len(next) \in Nat BY TailParts, LenProperties DEF Rules
<1>2. s + k \in DOMAIN next BY <1>1, LenProperties DEF Rules
<1>3. next[Len(next)] = Respond /\ Len(next) > 0 /\ s + k + 2 <= Len(next)
  <2>1. n \in s..n /\ n + k = Len(next) BY <1>1
  <2> QED BY <1>1, <2>1 DEF TailAt
<1>4. PICK p, f \in Tags : /\ p # f /\ rules[s] = Evaluate(p)
                           /\ \A i \in (s + 1)..(n - 1) : \E c \in Codes : rules[i] = OnCode(c, f)
  BY DEF TailAt
<1>5. next[s + k] = rules[s] BY <1>1
<1>6. ASSUME NEW i \in (s + k + 1)..(Len(next) - 1)
      PROVE  i - k \in (s + 1)..(n - 1) /\ next[i] = rules[i - k]
  <2>1. i - k \in (s + 1)..(n - 1) /\ i - k \in s..n /\ i - k + k = i BY <1>1
  <2> QED BY <2>1
<1>7. TailAt(next, s + k)
  <2>1. ASSUME NEW i \in (s + k + 1)..(Len(next) - 1) PROVE \E c \in Codes : next[i] = OnCode(c, f)
    <3>1. i - k \in (s + 1)..(n - 1) /\ next[i] = rules[i - k] BY <1>6
    <3> QED BY <1>4, <3>1
  <2>2. next[s + k] = Evaluate(p) BY <1>4, <1>5
  <2> QED BY <1>3, <1>4, <2>1, <2>2 DEF TailAt
<1>8. ReadAt(next, s + k) = ReadAt(rules, s)
  <2>1. next[s + k + 1] = rules[s + 1]
    <3>1. s + 1 \in s..n /\ s + 1 + k = s + k + 1 BY <1>1
    <3> QED BY <3>1
  <2> DEFINE A == {next[i].code : i \in (s + k + 1)..(Len(next) - 1)}
             B == {rules[i].code : i \in (s + 1)..(n - 1)}
  <2>2. ASSUME NEW i \in (s + 1)..(n - 1) PROVE rules[i].code \in A
    <3>1. i + k \in (s + k + 1)..(Len(next) - 1) /\ i \in s..n BY <1>1
    <3>2. next[i + k] = rules[i] BY <3>1
    <3> QED BY <3>1, <3>2
  <2>3. ASSUME NEW i \in (s + k + 1)..(Len(next) - 1) PROVE next[i].code \in B
    BY <1>6
  <2>4. A = B BY <2>2, <2>3
  <2> QED BY <1>5, <2>1, <2>4 DEF ReadAt
<1> QED BY <1>2, <1>7, <1>8, FoundAt

LEMMA OwnOK ==
    ASSUME NEW rules \in Rules
    PROVE  /\ Own(rules) \in Rules
           /\ Len(Own(rules)) = (IF FindStart(rules) = 0 THEN Len(rules) ELSE FindStart(rules) - 1)
           /\ Len(Own(rules)) <= Len(rules)
           /\ \A i \in 1..Len(Own(rules)) : i \in 1..Len(rules) /\ Own(rules)[i] = rules[i]
<1>1. Len(rules) \in Nat /\ DOMAIN rules = 1..Len(rules) /\ \A i \in 1..Len(rules) : rules[i] \in Rule
  BY LenProperties, ElementOfSeq DEF Rules
<1>2. CASE FindStart(rules) = 0 BY <1>1, <1>2 DEF Own
<1>3. CASE FindStart(rules) # 0
  <2> DEFINE s == FindStart(rules)
             o == SubSeq(rules, 1, s - 1)
  <2>1. s \in 1..Len(rules) BY <1>1, <1>3, StartIsTail
  <2>2. \A i \in 1..(s - 1) : rules[i] \in Rule BY <1>1, <2>1
  <2>3. o \in Seq(Rule) /\ Len(o) = s - 1 /\ \A i \in 1..(s - 1) : o[i] = rules[i]
    BY <2>1, <2>2, SubSeqProperties
  <2>4. Own(rules) = o BY <1>3 DEF Own
  <2> HIDE DEF o, s
  <2>5. o \in Rules BY <2>3 DEF Rules
  <2>6. Len(o) <= Len(rules) /\ \A i \in 1..Len(o) : i \in 1..Len(rules) /\ o[i] = rules[i]
    BY <1>1, <2>1, <2>3
  <2> QED BY <1>3, <2>3, <2>4, <2>5, <2>6 DEF s
<1> QED BY <1>2, <1>3

\* The rule at position i of a tail of n codes.
LEMMA BlockOK ==
    ASSUME NEW f \in Fallback
    PROVE  \E n \in Nat :
              /\ Block(f) \in Rules /\ Len(Block(f)) = n + 2 /\ (f.codes # {} => n > 0)
              /\ Block(f)[1] = Evaluate(f.primary) /\ Block(f)[n + 2] = Respond
              /\ \A i \in 1..n : \E c \in f.codes : Block(f)[i + 1] = OnCode(c, f.fallback)
              /\ \A c \in f.codes : \E i \in 1..n : Block(f)[i + 1] = OnCode(c, f.fallback)
<1> USE DnsAssumption
<1> DEFINE n == Cardinality(f.codes)
           e == SetToSeq(f.codes)
           a == <<Evaluate(f.primary)>>
           m == [i \in 1..n |-> OnCode(e[i], f.fallback)]
           z == <<Respond>>
<1>1. f.primary \in Tags /\ f.fallback \in Tags /\ f.codes \subseteq Codes BY DEF Fallback
<1>2. IsFiniteSet(f.codes) BY <1>1, FS_Subset
<1>3. n \in Nat /\ e \in [1..n -> f.codes] /\ f.codes = {e[i] : i \in 1..n} BY <1>2, Enumerating
<1>4. f.codes # {} => n > 0 BY <1>2, <1>3, FS_EmptySet
<1> HIDE DEF n, e
<1>5. Evaluate(f.primary) \in Rule /\ Respond \in Rule BY <1>1 DEF Evaluate, Respond, Bare, Rule
<1>6. ASSUME NEW c \in f.codes PROVE OnCode(c, f.fallback) \in Rule
  BY <1>1 DEF OnCode, Bare, Rule
<1>7. a \in Seq(Rule) /\ Len(a) = 1 /\ a[1] = Evaluate(f.primary) BY <1>5
<1>8. z \in Seq(Rule) /\ Len(z) = 1 /\ z[1] = Respond BY <1>5
<1>9. m \in Seq(Rule) /\ Len(m) = n /\ \A i \in 1..n : m[i] = OnCode(e[i], f.fallback)
  <2>1. m \in [1..n -> Rule] BY <1>3, <1>6
  <2>2. m \in Seq(Rule) BY <1>3, <2>1, SeqDef
  <2>3. Len(m) = n BY <1>3, <2>2, LenProperties
  <2> QED BY <2>2, <2>3
<1> HIDE DEF a, m, z
<1>10. /\ a \o m \in Seq(Rule) /\ Len(a \o m) = n + 1
       /\ (a \o m)[1] = a[1] /\ \A i \in 1..n : (a \o m)[i + 1] = m[i]
  <2>1. /\ a \o m \in Seq(Rule) /\ Len(a \o m) = Len(a) + Len(m)
        /\ \A i \in 1..(Len(a) + Len(m)) : (a \o m)[i] = IF i <= Len(a) THEN a[i] ELSE m[i - Len(a)]
    <3>1. a \in Seq(Rule) /\ m \in Seq(Rule) BY <1>7, <1>9
    <3> QED BY <3>1, ConcatProperties
  <2>2. ASSUME NEW i \in 1..n PROVE (a \o m)[i + 1] = m[i]
    <3>1. i + 1 \in 1..(Len(a) + Len(m)) /\ ~(i + 1 <= Len(a)) /\ i + 1 - Len(a) = i
      BY <1>3, <1>7, <1>9
    <3> QED BY <2>1, <3>1
  <2>3. 1 \in 1..(Len(a) + Len(m)) /\ 1 <= Len(a) BY <1>3, <1>7, <1>9
  <2> QED BY <1>3, <1>7, <1>9, <2>1, <2>2, <2>3
<1> DEFINE q == a \o m
           w == q \o z
<1> HIDE DEF q
<1>11. /\ w \in Seq(Rule) /\ Len(w) = n + 2
       /\ \A i \in 1..(n + 1) : w[i] = q[i]
       /\ w[n + 2] = z[1]
  <2>1. q \in Seq(Rule) /\ Len(q) = n + 1 BY <1>10 DEF q
  <2>2. /\ w \in Seq(Rule) /\ Len(w) = Len(q) + Len(z)
        /\ \A i \in 1..(Len(q) + Len(z)) : w[i] = IF i <= Len(q) THEN q[i] ELSE z[i - Len(q)]
    BY <1>8, <2>1, ConcatProperties
  <2>3. Len(q) + Len(z) = n + 2 /\ n + 2 - Len(q) = 1 BY <1>3, <1>8, <2>1
  <2> HIDE DEF w
  <2>4. \A i \in 1..(n + 1) : i \in 1..(n + 2) /\ i <= Len(q) BY <1>3, <2>1
  <2>5. \A i \in 1..(n + 1) : w[i] = q[i] BY <2>2, <2>3, <2>4
  <2>6. n + 2 \in 1..(n + 2) /\ ~(n + 2 <= Len(q)) BY <1>3, <2>1
  <2>7. w[n + 2] = z[1]
    <3>1. \A i \in 1..(n + 2) : ~(i <= Len(q)) => w[i] = z[i - Len(q)] BY <2>2, <2>3
    <3> DEFINE k == n + 2
    <3>2. k \in 1..(n + 2) /\ ~(k <= Len(q)) /\ k - Len(q) = 1 BY <1>3, <2>1
    <3> HIDE DEF k
    <3>3. w[k] = z[k - Len(q)] BY <3>1, <3>2
    <3> QED BY <3>2, <3>3 DEF k
  <2> QED BY <2>2, <2>3, <2>5, <2>7
<1>12. Block(f) = w BY DEF Block, w, q, a, m, z, n, e
<1> HIDE DEF w
<1>13. Block(f)[1] = Evaluate(f.primary)
  <2>1. 1 \in 1..(n + 1) BY <1>3
  <2> QED BY <1>7, <1>10, <1>11, <1>12, <2>1 DEF q
<1>14. ASSUME NEW i \in 1..n PROVE Block(f)[i + 1] = OnCode(e[i], f.fallback) /\ e[i] \in f.codes
  <2>1. i + 1 \in 1..(n + 1) BY <1>3
  <2> QED BY <1>3, <1>9, <1>10, <1>11, <1>12, <2>1 DEF q
<1>15. \A i \in 1..n : \E c \in f.codes : Block(f)[i + 1] = OnCode(c, f.fallback) BY <1>14
<1>16. \A c \in f.codes : \E i \in 1..n : Block(f)[i + 1] = OnCode(c, f.fallback) BY <1>3, <1>14
<1>17. Block(f) \in Rules /\ Len(Block(f)) = n + 2 /\ Block(f)[n + 2] = Respond
  BY <1>8, <1>11, <1>12 DEF Rules
<1> QED BY <1>3, <1>4, <1>13, <1>15, <1>16, <1>17

\* What was asked for is what the list then ends in.
LEMMA TailWritten ==
    ASSUME NEW rules \in Rules, NEW f \in Fallback, f.primary # f.fallback, f.codes # {}
    PROVE  Own(rules) \o Block(f) \in Rules /\ Found(Own(rules) \o Block(f)) = f
<1> DEFINE o == Own(rules)
           b == Block(f)
           r == o \o b
           s == Len(o) + 1
<1>1. PICK n \in Nat :
         /\ b \in Rules /\ Len(b) = n + 2 /\ n > 0
         /\ b[1] = Evaluate(f.primary) /\ b[n + 2] = Respond
         /\ \A i \in 1..n : \E c \in f.codes : b[i + 1] = OnCode(c, f.fallback)
         /\ \A c \in f.codes : \E i \in 1..n : b[i + 1] = OnCode(c, f.fallback)
  BY BlockOK
<1>2. o \in Seq(Rule) /\ Len(o) \in Nat BY OwnOK, LenProperties DEF Rules
<1>3. f.primary \in Tags /\ f.fallback \in Tags /\ f.codes \subseteq Codes
      /\ f = [primary |-> f.primary, fallback |-> f.fallback, codes |-> f.codes]
  BY DEF Fallback
<1> HIDE DEF o, b
<1>4. /\ r \in Seq(Rule) /\ Len(r) = Len(o) + n + 2
      /\ \A i \in 1..(n + 2) : r[Len(o) + i] = b[i]
  <2>1. /\ r \in Seq(Rule) /\ Len(r) = Len(o) + Len(b)
        /\ \A i \in 1..(Len(o) + Len(b)) : r[i] = IF i <= Len(o) THEN o[i] ELSE b[i - Len(o)]
    BY <1>1, <1>2, ConcatProperties DEF Rules
  <2>2. ASSUME NEW i \in 1..(n + 2) PROVE r[Len(o) + i] = b[i]
    <3>1. Len(o) + i \in 1..(Len(o) + Len(b)) /\ ~(Len(o) + i <= Len(o)) /\ Len(o) + i - Len(o) = i
      BY <1>1, <1>2
    <3> QED BY <2>1, <3>1
  <2> QED BY <1>1, <1>2, <2>1, <2>2
<1> HIDE DEF r
<1>5. s \in DOMAIN r
  <2>1. DOMAIN r = 1..Len(r) BY <1>4, LenProperties
  <2>2. s \in 1..Len(r) BY <1>1, <1>2, <1>4
  <2> QED BY <2>1, <2>2
<1>6. r[s] = Evaluate(f.primary)
  <2>1. 1 \in 1..(n + 2) BY <1>1
  <2> QED BY <1>1, <1>4, <2>1
<1>7. r[Len(r)] = Respond
  <2>1. n + 2 \in 1..(n + 2) /\ Len(r) = Len(o) + (n + 2) BY <1>1, <1>2, <1>4
  <2> QED BY <1>1, <1>4, <2>1
<1>8. ASSUME NEW i \in 1..n PROVE i + s \in (s + 1)..(Len(r) - 1) /\ r[i + s] = b[i + 1]
  <2>1. i + 1 \in 1..(n + 2) /\ Len(o) + (i + 1) = i + s BY <1>1, <1>2
  <2>2. i + s \in (s + 1)..(Len(r) - 1) BY <1>1, <1>2, <1>4
  <2> QED BY <1>4, <2>1, <2>2
<1>9. ASSUME NEW i \in (s + 1)..(Len(r) - 1) PROVE \E c \in f.codes : r[i] = OnCode(c, f.fallback)
  <2>1. i - s \in 1..n /\ i - s + s = i BY <1>1, <1>2, <1>4
  <2>2. r[i] = b[i - s + 1] BY <1>8, <2>1
  <2> QED BY <1>1, <2>1, <2>2
<1>10. TailAt(r, s)
  <2>1. Len(r) > 0 /\ s + 2 <= Len(r) BY <1>1, <1>2, <1>4
  <2> QED BY <1>3, <1>6, <1>7, <1>9, <2>1 DEF TailAt
<1>11. ReadAt(r, s) = f
  <2>1. r[s].server = f.primary BY <1>6, RuleParts
  <2>2. r[s + 1].server = f.fallback
    <3>1. s + 1 \in (s + 1)..(Len(r) - 1) BY <1>1, <1>2, <1>4
    <3>2. PICK c \in f.codes : r[s + 1] = OnCode(c, f.fallback) BY <1>9, <3>1
    <3> QED BY <3>2, RuleParts
  <2> DEFINE A == {r[i].code : i \in (s + 1)..(Len(r) - 1)}
  <2>3. A \subseteq f.codes
    <3> SUFFICES ASSUME NEW i \in (s + 1)..(Len(r) - 1) PROVE r[i].code \in f.codes OBVIOUS
    <3>1. PICK c \in f.codes : r[i] = OnCode(c, f.fallback) BY <1>9
    <3> QED BY <3>1, RuleParts
  <2>4. f.codes \subseteq A
    <3> SUFFICES ASSUME NEW c \in f.codes PROVE c \in A OBVIOUS
    <3>1. PICK i \in 1..n : b[i + 1] = OnCode(c, f.fallback) BY <1>1
    <3>2. i + s \in (s + 1)..(Len(r) - 1) /\ r[i + s] = OnCode(c, f.fallback) BY <1>8, <3>1
    <3>3. r[i + s].code = c BY <3>2, RuleParts
    <3> QED BY <3>2, <3>3
  <2>5. A = f.codes BY <2>3, <2>4
  <2> QED BY <1>3, <2>1, <2>2, <2>5 DEF ReadAt
<1>12. r \in Rules BY <1>4 DEF Rules
<1>13. Found(r) = f BY <1>5, <1>10, <1>11, <1>12, FoundAt
<1> QED BY <1>12, <1>13 DEF r, o, b

-----------------------------------------------------------------------------
(* What one edit of a document keeps.                                        *)

Keeps(d, e) ==
    /\ e \in Document
    /\ PinnedIn(d) => PinnedIn(e)
    /\ Holds(d) => Holds(e)
    /\ Serves(d) => Serves(e)
    /\ Leads(d) => Leads(e)
    /\ AskedIn(d) => AskedIn(e)
    /\ CacheIn(d) => CacheIn(e)

\* The fields each part reads.
Pins(d)   == <<d.servers, d.pin, d.blind>>
Names(d)  == <<d.rules, d.routes, d.sets>>
Hosts(d)  == <<d.servers, d.renamed, d.final, d.rules, d.unchecked>>
Paths(d)  == <<d.exit, d.routes, d.outs, d.ends, d.lost>>
Tails(d)  == <<d.asked, d.rules>>
Caches(d) == <<d.opt, d.noCache, d.noExpire>>

LEMMA Framed ==
    ASSUME NEW d, NEW e
    PROVE  /\ Pins(e) = Pins(d) => (PinnedIn(d) => PinnedIn(e))
           /\ Names(e) = Names(d) => (Holds(d) => Holds(e))
           /\ Hosts(e) = Hosts(d) => (Serves(d) => Serves(e))
           /\ Paths(e) = Paths(d) => (Leads(d) => Leads(e))
           /\ Tails(e) = Tails(d) => (AskedIn(d) => AskedIn(e))
           /\ Caches(e) = Caches(d) => (CacheIn(d) => CacheIn(e))
<1>1. Pins(e) = Pins(d) => (PinnedIn(d) => PinnedIn(e)) BY DEF Pins, PinnedIn, ServerTags
<1>2. Names(e) = Names(d) => (Holds(d) => Holds(e)) BY DEF Names, Holds
<1>3. Hosts(e) = Hosts(d) => (Serves(d) => Serves(e)) BY DEF Hosts, Serves, Served, ServerTags
<1>4. Paths(e) = Paths(d) => (Leads(d) => Leads(e)) BY DEF Paths, Leads, Reachable, OutTags
<1>5. Tails(e) = Tails(d) => (AskedIn(d) => AskedIn(e)) BY DEF Tails, AskedIn
<1>6. Caches(e) = Caches(d) => (CacheIn(d) => CacheIn(e)) BY DEF Caches, CacheIn
<1> QED BY <1>1, <1>2, <1>3, <1>4, <1>5, <1>6

LEMMA Itself == ASSUME NEW d \in Document PROVE Keeps(d, d)
BY DEF Keeps

LEMMA Onward == ASSUME NEW d, NEW e, NEW f, Keeps(d, e), Keeps(e, f) PROVE Keeps(d, f)
BY Zenon DEF Keeps

LEMMA FinalEdit ==
    ASSUME NEW d \in Document, NEW t \in ServerTags(d) PROVE Keeps(d, [d EXCEPT !.final = t])
<1> DEFINE e == [d EXCEPT !.final = t]
<1>1. t \in Tags BY ElementOfSeq, LenProperties DEF ServerTags, ToSet, Document
<1>2. /\ e \in Document /\ e.final = t /\ Pins(e) = Pins(d) /\ Names(e) = Names(d)
      /\ Paths(e) = Paths(d) /\ Tails(e) = Tails(d) /\ Caches(e) = Caches(d)
      /\ e.servers = d.servers /\ e.renamed = d.renamed /\ e.rules = d.rules
      /\ e.unchecked = d.unchecked
  BY <1>1 DEF Document, Pins, Names, Paths, Tails, Caches
<1> HIDE DEF e
<1>3. Serves(d) => Serves(e) BY <1>2 DEF Serves, Served, ServerTags
<1> QED BY <1>2, <1>3, Framed DEF Keeps, e

-----------------------------------------------------------------------------
(* The edits of DNS servers.                                                 *)

LEMMA DocServers ==
    ASSUME NEW d \in Document
    PROVE  /\ d.servers \in Seq(Tags) /\ d.pin \in Tags \cup {None} /\ d.final \in Tags \cup {None}
           /\ d.renamed \subseteq Tags /\ d.rules \in Rules
           /\ d.blind \in Tags \cup {None} /\ d.unchecked \subseteq Tags
BY DEF Document, Rules

LEMMA ServerKeeps ==
    ASSUME NEW d \in Document, NEW e \in Document,
           Names(e) = Names(d), Paths(e) = Paths(d), Tails(e) = Tails(d), Caches(e) = Caches(d),
           e.final = d.final, e.rules = d.rules, e.unchecked = d.unchecked,
           PinnedIn(d) => PinnedIn(e),
           d.renamed \subseteq e.renamed,
           \A t \in ServerTags(d) : t \in Served(e) \/ (d.final # t /\ \A i \in DOMAIN d.rules : d.rules[i].server # t)
    PROVE  Keeps(d, e)
<1>1. Serves(d) => Serves(e) BY DEF Serves, Served
<1> QED BY <1>1, Framed DEF Keeps

\* A tag that is there needs no exception.
LEMMA ArrivedEdit ==
    ASSUME NEW d \in Document, NEW t \in ServerTags(d)
    PROVE  Keeps(d, Arrived(d, t))
<1> USE DnsAssumption
<1> DEFINE blind == IF d.blind = t THEN None ELSE d.blind
           e == Arrived(d, t)
<1>1. blind \in Tags \cup {None} /\ (blind = d.blind \/ (d.blind = t /\ blind = None)) BY DocServers
<1>2. e = [d EXCEPT !.blind = blind, !.unchecked = d.unchecked \ {t}] BY DEF Arrived, Document
<1> HIDE DEF blind, e
<1>3. /\ e \in Document /\ e.servers = d.servers /\ e.pin = d.pin /\ e.blind = blind
      /\ e.renamed = d.renamed /\ e.final = d.final /\ e.rules = d.rules
      /\ e.unchecked = d.unchecked \ {t}
      /\ Names(e) = Names(d) /\ Paths(e) = Paths(d) /\ Tails(e) = Tails(d) /\ Caches(e) = Caches(d)
  BY <1>1, <1>2 DEF Document, Names, Paths, Tails, Caches
<1>4. PinnedIn(d) => PinnedIn(e) BY <1>1, <1>3 DEF PinnedIn, ServerTags
<1>5. Serves(d) => Serves(e) BY <1>3 DEF Serves, Served, ServerTags
<1> QED BY <1>3, <1>4, <1>5, Framed DEF Keeps, e

LEMMA AddServerEdit ==
    ASSUME NEW d \in Document, NEW t \in Tags
    PROVE  /\ Keeps(d, Pinned([d EXCEPT !.servers = Append(@, t)]))
           /\ t \in ServerTags(Pinned([d EXCEPT !.servers = Append(@, t)]))
<1> USE DnsAssumption
<1> DEFINE servers == Append(d.servers, t)
           a == [d EXCEPT !.servers = servers]
           pin == Pinned(a).pin
           e == [d EXCEPT !.servers = servers, !.pin = pin, !.renamed = d.renamed]
<1>1. /\ servers \in Seq(Tags) /\ ToSet(servers) = ToSet(d.servers) \cup {t}
      /\ Len(servers) = Len(d.servers) + 1 /\ Len(d.servers) \in Nat
  BY AppendMembers, DocServers, LenProperties
<1>2. servers[1] \in ToSet(servers) /\ ToSet(servers) \subseteq Tags BY <1>1, Members
<1> HIDE DEF servers
<1>3. a.servers = servers /\ a.pin = d.pin /\ a.final = d.final BY DEF Document
<1>4. /\ pin \in Tags \cup {None}
      /\ d.pin # None => pin = d.pin
      /\ d.pin = None /\ Needed(servers) => pin \in ToSet(servers)
      /\ ~Needed(servers) => pin = d.pin
      /\ Pinned(a) = e
  <2>1. CASE ~Needed(servers) \/ d.pin # None
    <3>1. Pinned(a) = a BY <1>3, <2>1 DEF Pinned
    <3>2. e = a BY <1>3, <3>1 DEF Document
    <3> QED BY <1>3, <2>1, <3>1, <3>2, DocServers
  <2>2. CASE Needed(servers) /\ d.pin = None
    <3> DEFINE p == IF d.final \in ToSet(servers) THEN d.final ELSE servers[1]
    <3>1. Pinned(a) = [a EXCEPT !.pin = p] BY <1>3, <2>2 DEF Pinned, ServerTags
    <3>2. p \in ToSet(servers) /\ p \in Tags BY <1>2
    <3> HIDE DEF p
    <3>3. [a EXCEPT !.pin = p] = [d EXCEPT !.servers = servers, !.pin = p, !.renamed = d.renamed] /\ pin = p
      BY <3>1 DEF Document
    <3> QED BY <2>2, <3>1, <3>2, <3>3
  <2> QED BY <2>1, <2>2
<1> HIDE DEF pin, a
<1>5. /\ e \in Document /\ e.servers = servers /\ e.pin = pin /\ e.renamed = d.renamed
      /\ Names(e) = Names(d) /\ Paths(e) = Paths(d) /\ Tails(e) = Tails(d) /\ Caches(e) = Caches(d)
      /\ e.final = d.final /\ e.rules = d.rules
      /\ e.blind = d.blind /\ e.unchecked = d.unchecked
  BY <1>1, <1>4 DEF Document, Names, Paths, Tails, Caches
<1> HIDE DEF e
<1>6. PinnedIn(d) => PinnedIn(e)
  BY <1>1, <1>2, <1>4, <1>5 DEF PinnedIn, ServerTags
<1>7. \A x \in ServerTags(d) : x \in Served(e) BY <1>1, <1>5 DEF ServerTags, Served
<1>8. Keeps(d, e) BY <1>5, <1>6, <1>7, ServerKeeps
<1>9. t \in ServerTags(e) BY <1>1, <1>5 DEF ServerTags
<1> QED BY <1>4, <1>8, <1>9 DEF a, servers

LEMMA CreateServerEdit ==
    ASSUME NEW d \in Document, NEW t \in Tags
    PROVE  Keeps(d, Pinned([Arrived(d, t) EXCEPT !.servers = Append(@, t)]))
<1> DEFINE servers == Append(d.servers, t)
           a == [d EXCEPT !.servers = servers]
           b == [Arrived(d, t) EXCEPT !.servers = servers]
           e == Pinned(a)
<1>1. Keeps(d, e) /\ t \in ServerTags(e) BY AddServerEdit
<1>2. e \in Document BY <1>1 DEF Keeps
<1>3. Keeps(d, Arrived(e, t)) BY <1>1, <1>2, ArrivedEdit, Onward
<1> HIDE DEF servers
<1>4. /\ a.servers = servers /\ b.servers = servers /\ a.pin = d.pin /\ b.pin = d.pin
      /\ a.final = d.final /\ b.final = d.final /\ b = Arrived(a, t)
  BY DEF Arrived, Document
<1>5. Pinned(b) = Arrived(e, t)
  <2>1. CASE ~Needed(servers) \/ d.pin # None
    <3>1. Pinned(a) = a /\ Pinned(b) = b BY <1>4, <2>1 DEF Pinned
    <3> QED BY <1>4, <3>1
  <2>2. CASE Needed(servers) /\ d.pin = None
    <3> DEFINE p == IF d.final \in ToSet(servers) THEN d.final ELSE servers[1]
    <3>1. Pinned(a) = [a EXCEPT !.pin = p] /\ Pinned(b) = [b EXCEPT !.pin = p]
      <4> HIDE DEF a, b
      <4>1. Pinned(a) = [a EXCEPT !.pin = p] BY <1>4, <2>2 DEF Pinned, ServerTags
      <4>2. Pinned(b) = [b EXCEPT !.pin = p] BY <1>4, <2>2 DEF Pinned, ServerTags
      <4> QED BY <4>1, <4>2
    <3> HIDE DEF p
    <3>2. [Arrived(a, t) EXCEPT !.pin = p] = Arrived([a EXCEPT !.pin = p], t)
      <4> DEFINE blind == IF d.blind = t THEN None ELSE d.blind
                 unchecked == d.unchecked \ {t}
      <4>1. Arrived(a, t) = [d EXCEPT !.servers = servers, !.blind = blind, !.unchecked = unchecked]
        BY DEF Arrived, Document
      <4>2. Arrived([a EXCEPT !.pin = p], t)
              = [d EXCEPT !.servers = servers, !.pin = p, !.blind = blind, !.unchecked = unchecked]
        BY DEF Arrived, Document
      <4> HIDE DEF blind, unchecked
      <4> QED BY <4>1, <4>2 DEF Document
    <3> QED BY <1>4, <3>1, <3>2
  <2> QED BY <2>1, <2>2
<1>6. [Arrived(d, t) EXCEPT !.servers = Append(@, t)] = b BY DEF Arrived, servers, Document
<1> QED BY <1>3, <1>5, <1>6

\* A rename, without what it ends of the exceptions.
Renaming(d, t, new) ==
    [d EXCEPT !.servers[FirstOf(t, d.servers)] = new,
              !.pin = IF @ = t THEN new ELSE @,
              !.renamed = @ \cup ({t} \ {new})]

LEMMA RenamingEdit ==
    ASSUME NEW d \in Document, NEW t \in ServerTags(d), NEW new \in Tags
    PROVE  Keeps(d, Renaming(d, t, new)) /\ new \in ServerTags(Renaming(d, t, new))
<1> USE DnsAssumption
<1> DEFINE k == FirstOf(t, d.servers)
           servers == Put(d.servers, k, new)
           pin == IF d.pin = t THEN new ELSE d.pin
           e == Renaming(d, t, new)
<1>1. d.servers \in Seq(Tags) /\ t \in Tags BY DocServers, Members DEF ServerTags
<1>2. k \in 1..Len(d.servers) /\ d.servers[k] = t BY <1>1, First DEF ServerTags
<1> HIDE DEF k
<1>3. /\ servers \in Seq(Tags) /\ Len(servers) = Len(d.servers)
      /\ ToSet(d.servers) \ {t} \subseteq ToSet(servers) /\ new \in ToSet(servers)
  BY <1>1, <1>2, ReplaceFirst DEF k, ServerTags
<1> HIDE DEF servers
<1>4. /\ e \in Document /\ e.servers = servers /\ e.pin = pin
      /\ e.renamed = d.renamed \cup ({t} \ {new}) /\ e.blind = d.blind /\ e.unchecked = d.unchecked
      /\ Names(e) = Names(d) /\ Paths(e) = Paths(d) /\ Tails(e) = Tails(d) /\ Caches(e) = Caches(d)
      /\ e.final = d.final /\ e.rules = d.rules
  <2>1. e = [d EXCEPT !.servers = servers, !.pin = pin, !.renamed = d.renamed \cup ({t} \ {new})]
    BY DEF Renaming, servers, k, Document, Put
  <2>2. pin \in Tags \cup {None} /\ d.renamed \cup ({t} \ {new}) \in SUBSET Tags BY <1>1, DocServers
  <2> HIDE DEF e, pin
  <2> QED BY <1>3, <2>1, <2>2 DEF Document, Names, Paths, Tails, Caches
<1> HIDE DEF e
<1>5. PinnedIn(d) => PinnedIn(e) BY <1>1, <1>3, <1>4 DEF PinnedIn, Needed, ServerTags
<1>6. \A x \in ServerTags(d) : x \in Served(e) BY <1>3, <1>4 DEF ServerTags, Served
<1>7. Keeps(d, e) BY <1>4, <1>5, <1>6, ServerKeeps
<1>8. new \in ServerTags(e) BY <1>3, <1>4 DEF ServerTags
<1> QED BY <1>7, <1>8 DEF e

LEMMA RenameServerEdit ==
    ASSUME NEW d \in Document, NEW t \in ServerTags(d), NEW new \in Tags
    PROVE  Keeps(d, Renamed(d, t, new))
<1> DEFINE e == Renaming(d, t, new)
<1>1. Keeps(d, e) /\ new \in ServerTags(e) BY RenamingEdit
<1>2. e \in Document BY <1>1 DEF Keeps
<1>3. Keeps(d, Arrived(e, new)) BY <1>1, <1>2, ArrivedEdit, Onward
<1>4. Renamed(d, t, new) = Arrived(e, new) BY DEF Renamed, Renaming, Arrived, Document
<1> QED BY <1>3, <1>4

LEMMA DeleteServerEdit ==
    ASSUME NEW d \in Document, NEW t \in ServerTags(d), Deletable(d, t)
    PROVE  Keeps(d, [d EXCEPT !.servers = RemoveAt(@, FirstOf(t, @)), !.pin = IF @ = t THEN None ELSE @])
<1> USE DnsAssumption
<1> DEFINE k == FirstOf(t, d.servers)
           servers == RemoveAt(d.servers, k)
           pin == IF d.pin = t THEN None ELSE d.pin
           e == [d EXCEPT !.servers = RemoveAt(@, FirstOf(t, @)), !.pin = IF @ = t THEN None ELSE @]
<1>1. d.servers \in Seq(Tags) /\ t \in Tags /\ Len(d.servers) \in Nat BY DocServers, Members DEF ServerTags
<1>2. k \in 1..Len(d.servers) /\ d.servers[k] = t BY <1>1, First DEF ServerTags
<1>3. /\ servers \in Seq(Tags) /\ Len(servers) = Len(d.servers) - 1
      /\ ToSet(d.servers) \ {t} \subseteq ToSet(servers)
  BY <1>1, <1>2, RemoveMembers
<1>4. e = [d EXCEPT !.servers = servers, !.pin = pin] BY DEF Document
<1> HIDE DEF k, servers, e
<1>5. /\ e \in Document /\ e.servers = servers /\ e.pin = pin /\ e.renamed = d.renamed
      /\ Names(e) = Names(d) /\ Paths(e) = Paths(d) /\ Tails(e) = Tails(d) /\ Caches(e) = Caches(d)
      /\ e.final = d.final /\ e.rules = d.rules /\ e.blind = d.blind /\ e.unchecked = d.unchecked
  <2>1. pin \in Tags \cup {None} BY <1>1, DocServers
  <2> HIDE DEF pin
  <2> QED BY <1>3, <1>4, <2>1 DEF Document, Names, Paths, Tails, Caches
<1>6. PinnedIn(d) => PinnedIn(e) BY <1>1, <1>3, <1>5 DEF PinnedIn, Needed, ServerTags, Deletable
<1>7. \A x \in ServerTags(d) : x \in Served(e) \/ (d.final # x /\ \A i \in DOMAIN d.rules : d.rules[i].server # x)
  BY <1>3, <1>5 DEF ServerTags, Served, Deletable
<1>8. Keeps(d, e) BY <1>5, <1>6, <1>7, ServerKeeps
<1> QED BY <1>8 DEF e

\* A resolver that is there, or is nothing, or that an object names.
LEMMA ResolverEdit ==
    ASSUME NEW d \in Document, NEW t \in Tags \cup {None}, NEW b \in Tags \cup {None},
           t = None => ~Needed(d.servers), t \in ServerTags(d) \cup {None, b}
    PROVE  Keeps(d, [d EXCEPT !.pin = t, !.blind = b])
<1> USE DnsAssumption
<1> DEFINE e == [d EXCEPT !.pin = t, !.blind = b]
<1>1. /\ e \in Document /\ e.servers = d.servers /\ e.pin = t /\ e.blind = b /\ Hosts(e) = Hosts(d)
      /\ Names(e) = Names(d) /\ Paths(e) = Paths(d) /\ Tails(e) = Tails(d) /\ Caches(e) = Caches(d)
  BY DEF Document, Names, Paths, Tails, Caches, Hosts
<1> HIDE DEF e
<1>2. PinnedIn(e) BY <1>1 DEF PinnedIn, ServerTags
<1> QED BY <1>1, <1>2, Framed DEF Keeps, e

LEMMA FlagsEdit ==
    ASSUME NEW d \in Document, NEW c \in BOOLEAN \cup {None}, NEW x \in BOOLEAN \cup {None},
           NEW o \in BOOLEAN \cup {None}
    PROVE  Keeps(d, WithFlags(d, c, x, o))
<1> DEFINE noCache == IF c = None THEN d.noCache ELSE c
           noExpire == IF x = None THEN d.noExpire ELSE x
           opt == IF o = None THEN d.opt
                  ELSE IF d.opt \in {"timed", "idle"} THEN (IF o THEN "timed" ELSE "idle")
                  ELSE IF o THEN "on" ELSE "none"
           off == IF opt \in {"timed", "idle"} THEN "idle" ELSE "none"
           a == [d EXCEPT !.noCache = noCache, !.noExpire = noExpire, !.opt = opt]
           e == WithFlags(d, c, x, o)
<1>1. noCache \in BOOLEAN /\ noExpire \in BOOLEAN /\ opt \in {"none", "on", "timed", "idle"} /\ off \in {"none", "idle"}
  BY DEF Document
<1>2. e = Cleared(a) BY DEF WithFlags
<1> HIDE DEF noCache, noExpire, opt, e
<1>3. /\ a \in Document /\ a.noCache = noCache /\ a.opt = opt /\ a.noExpire = noExpire
      /\ Hosts(a) = Hosts(d) /\ Pins(a) = Pins(d)
      /\ Names(a) = Names(d) /\ Paths(a) = Paths(d) /\ Tails(a) = Tails(d)
  <2> DEFINE b == [d EXCEPT !.noCache = noCache]
             f == [b EXCEPT !.noExpire = noExpire]
  <2>1. /\ b \in Document /\ b.noCache = noCache
        /\ Hosts(b) = Hosts(d) /\ Pins(b) = Pins(d)
        /\ Names(b) = Names(d) /\ Paths(b) = Paths(d) /\ Tails(b) = Tails(d)
    BY <1>1 DEF Document, Names, Paths, Tails, Hosts, Pins
  <2>2. a = [f EXCEPT !.opt = opt] BY DEF Document
  <2> HIDE DEF b, a
  <2>3. /\ f \in Document /\ f.noCache = noCache /\ f.noExpire = noExpire
        /\ Hosts(f) = Hosts(d) /\ Pins(f) = Pins(d)
        /\ Names(f) = Names(d) /\ Paths(f) = Paths(d) /\ Tails(f) = Tails(d)
    BY <1>1, <2>1 DEF Document, Names, Paths, Tails, Hosts, Pins
  <2> HIDE DEF f
  <2> QED BY <1>1, <2>2, <2>3 DEF Document, Names, Paths, Tails, Hosts, Pins
<1> HIDE DEF a
<1>4. /\ e \in Document /\ CacheIn(e)
      /\ Hosts(e) = Hosts(a) /\ Pins(e) = Pins(a)
      /\ Names(e) = Names(a) /\ Paths(e) = Paths(a) /\ Tails(e) = Tails(a)
  <2>1. CASE noCache \/ noExpire
    <3> DEFINE b == [a EXCEPT !.opt = off]
    <3>1. e = b BY <1>2, <1>3, <2>1 DEF Cleared
    <3> HIDE DEF off
    <3>2. /\ b \in Document /\ b.opt = off
          /\ Hosts(b) = Hosts(a) /\ Pins(b) = Pins(a)
          /\ Names(b) = Names(a) /\ Paths(b) = Paths(a) /\ Tails(b) = Tails(a)
      BY <1>1, <1>3 DEF Document, Names, Paths, Tails, Hosts, Pins
    <3> HIDE DEF b
    <3> QED BY <1>1, <3>1, <3>2 DEF CacheIn
  <2>2. CASE ~(noCache \/ noExpire)
    BY <1>2, <1>3, <2>2 DEF Cleared, CacheIn
  <2> QED BY <2>1, <2>2
<1>5. Keeps(d, e) BY <1>3, <1>4, Framed DEF Keeps
<1> QED BY <1>5 DEF e

-----------------------------------------------------------------------------
(* The edits of DNS rules and of the fallback.                               *)

\* A rule that a list may hold without a new dangling reference.
Fits(d, r) == /\ Holds(d) => r.sets \subseteq d.sets
              /\ Serves(d) => r.server \in Served(d) \cup (IF r.action = "route" THEN {}
                                                        ELSE d.unchecked \cup {None})

Welcome(d, r) == RuleOK(d, r) /\ r.server \in ServerTags(d) \cup {None} \cup d.unchecked

LEMMA OldFits ==
    ASSUME NEW d \in Document, NEW i \in DOMAIN d.rules PROVE Fits(d, d.rules[i])
BY DEF Fits, Holds, Serves

LEMMA NewFits ==
    ASSUME NEW d \in Document, NEW r \in Rule, Welcome(d, r) PROVE Fits(d, r)
BY DEF Fits, Welcome, RuleOK, Served

\* What a rule that comes in is after its server is noted.
LEMMA NamedEdit ==
    ASSUME NEW d \in Document, NEW r \in Rule, RuleOK(d, r)
    PROVE  Keeps(d, Named(d, r)) /\ Welcome(Named(d, r), r) /\ Named(d, r).rules = d.rules
<1> USE DnsAssumption
<1> DEFINE more == {r.server} \ (ServerTags(d) \cup {None})
           unchecked == d.unchecked \cup more
           e == Named(d, r)
<1>1. unchecked \in SUBSET Tags
  <2>1. r.server \in Tags \cup {None} BY DEF Rule
  <2> QED BY <2>1, DocServers
<1>2. e = [d EXCEPT !.unchecked = unchecked] BY DEF Named, Document
<1>3. d.unchecked \subseteq unchecked /\ r.server \in ServerTags(d) \cup {None} \cup unchecked
  OBVIOUS
<1> HIDE DEF unchecked, e
<1>4. /\ e \in Document /\ e.unchecked = unchecked /\ e.servers = d.servers /\ e.rules = d.rules
      /\ e.renamed = d.renamed /\ e.final = d.final /\ e.sets = d.sets /\ Pins(e) = Pins(d)
      /\ Names(e) = Names(d) /\ Paths(e) = Paths(d) /\ Tails(e) = Tails(d) /\ Caches(e) = Caches(d)
  BY <1>1, <1>2 DEF Document, Names, Paths, Tails, Caches, Pins
<1>5. Serves(d) => Serves(e) BY <1>3, <1>4 DEF Serves, Served, ServerTags
<1>6. Welcome(e, r) BY <1>3, <1>4 DEF Welcome, RuleOK, ServerTags
<1> QED BY <1>4, <1>5, <1>6, Framed DEF Keeps, e

\* A document with other rules, and other memory of what was asked for.
Ruled(d, rules, asked) == [d EXCEPT !.rules = rules, !.asked = asked]

LEMMA RulesKeep ==
    ASSUME NEW d \in Document, NEW rules \in Rules, NEW asked \in Fallback \cup {None},
           \A i \in DOMAIN rules : Fits(d, rules[i]),
           AskedIn(d) /\ asked # None => Found(rules) = asked
    PROVE  Keeps(d, Ruled(d, rules, asked))
<1> DEFINE e == Ruled(d, rules, asked)
<1>1. /\ e \in Document /\ e.rules = rules /\ e.asked = asked
      /\ Pins(e) = Pins(d) /\ Paths(e) = Paths(d) /\ Caches(e) = Caches(d)
      /\ e.routes = d.routes /\ e.sets = d.sets
      /\ e.servers = d.servers /\ e.renamed = d.renamed /\ e.final = d.final
      /\ e.unchecked = d.unchecked
  BY DEF Ruled, Document, Rules, Pins, Paths, Caches
<1> HIDE DEF e
<1>2. Holds(d) => Holds(e) BY <1>1 DEF Holds, Fits
<1>3. Serves(d) => Serves(e) BY <1>1 DEF Serves, Served, ServerTags, Fits
<1>4. AskedIn(d) => AskedIn(e) BY <1>1 DEF AskedIn
<1> QED BY <1>1, <1>2, <1>3, <1>4, Framed DEF Keeps, e

LEMMA TailOf ==
    ASSUME NEW rules \in Rules, Found(rules) # None
    PROVE  /\ FindStart(rules) \in 1..Len(rules) /\ Len(rules) \in Nat
           /\ FindStart(rules) \in DOMAIN rules /\ TailAt(rules, FindStart(rules))
<1>1. FindStart(rules) # 0 BY DEF Found
<1> QED BY <1>1, StartIsTail, TailParts

LEMMA WrittenRules ==
    ASSUME NEW rules \in Rules, NEW f \in Fallback, NEW i \in DOMAIN (Own(rules) \o Block(f))
    PROVE  \/ \E j \in DOMAIN rules : (Own(rules) \o Block(f))[i] = rules[j]
           \/ /\ (Own(rules) \o Block(f))[i].sets = {}
              /\ \/ (Own(rules) \o Block(f))[i].server \in {f.primary, f.fallback}
                 \/ /\ (Own(rules) \o Block(f))[i].action = "respond"
                    /\ (Own(rules) \o Block(f))[i].server = None
<1> DEFINE o == Own(rules)
           b == Block(f)
           w == o \o b
<1>1. PICK n \in Nat :
         /\ b \in Rules /\ Len(b) = n + 2
         /\ b[1] = Evaluate(f.primary) /\ b[n + 2] = Respond
         /\ \A c \in 1..n : \E x \in f.codes : b[c + 1] = OnCode(x, f.fallback)
  BY BlockOK
<1>2. /\ o \in Seq(Rule) /\ Len(o) \in Nat /\ DOMAIN rules = 1..Len(rules)
      /\ \A j \in 1..Len(o) : j \in 1..Len(rules) /\ o[j] = rules[j]
  BY OwnOK, LenProperties DEF Rules
<1> HIDE DEF o, b
<1>3. /\ w \in Seq(Rule) /\ Len(w) = Len(o) + Len(b)
      /\ \A j \in 1..(Len(o) + Len(b)) : w[j] = IF j <= Len(o) THEN o[j] ELSE b[j - Len(o)]
  BY <1>1, <1>2, ConcatProperties DEF Rules
<1>4. DOMAIN w = 1..(Len(o) + Len(b)) BY <1>3, LenProperties
<1>5. i \in 1..(Len(o) + Len(b)) BY <1>4 DEF o, b
<1> HIDE DEF w
<1>6. CASE i <= Len(o)
  <2>1. i \in 1..Len(o) BY <1>1, <1>2, <1>5, <1>6
  <2>2. i \in DOMAIN rules /\ w[i] = rules[i] BY <1>2, <1>3, <1>5, <1>6, <2>1
  <2> QED BY <2>2 DEF w, o, b
<1>7. CASE ~(i <= Len(o))
  <2> DEFINE k == i - Len(o)
  <2>1. k \in 1..(n + 2) /\ w[i] = b[k] BY <1>1, <1>2, <1>3, <1>5, <1>7
  <2> HIDE DEF k
  <2>2. CASE k = 1 BY <1>1, <2>1, <2>2, RuleParts DEF w, o, b
  <2>3. CASE k = n + 2 BY <1>1, <2>1, <2>3, RuleParts DEF w, o, b
  <2>4. CASE k # 1 /\ k # n + 2
    <3>1. k - 1 \in 1..n /\ k - 1 + 1 = k BY <1>1, <2>1, <2>4
    <3>2. PICK x \in f.codes : b[k] = OnCode(x, f.fallback) BY <1>1, <3>1
    <3> QED BY <2>1, <3>2, RuleParts DEF w, o, b
  <2> QED BY <2>2, <2>3, <2>4
<1> QED BY <1>6, <1>7

LEMMA FallbackEdit ==
    ASSUME NEW d \in Document, NEW f \in Fallback \cup {None}, f = None \/ Writable(d, f)
    PROVE  Keeps(d, ApplyFallback(d, f))
<1> USE DnsAssumption
<1>1. d.rules \in Rules BY DocServers
<1>2. CASE f = None
  <2> DEFINE o == Own(d.rules)
  <2>1. o \in Rules /\ \A i \in 1..Len(o) : i \in 1..Len(d.rules) /\ o[i] = d.rules[i] BY <1>1, OwnOK
  <2>2. DOMAIN o = 1..Len(o) /\ DOMAIN d.rules = 1..Len(d.rules) BY <1>1, <2>1, LenProperties DEF Rules
  <2>3. ApplyFallback(d, f) = Ruled(d, o, f) BY <1>2 DEF ApplyFallback, Ruled
  <2> HIDE DEF o
  <2>4. \A i \in DOMAIN o : Fits(d, o[i]) BY <2>1, <2>2, OldFits
  <2> QED BY <1>2, <2>1, <2>3, <2>4, RulesKeep
<1>3. CASE f # None
  <2> DEFINE w == Own(d.rules) \o Block(f)
  <2>1. f \in Fallback /\ Writable(d, f) BY <1>3
  <2>2. f.primary # f.fallback /\ f.codes # {} /\ {f.primary, f.fallback} \subseteq ServerTags(d)
    BY <2>1 DEF Writable
  <2>3. w \in Rules /\ Found(w) = f BY <1>1, <2>1, <2>2, TailWritten
  <2>4. ASSUME NEW i \in DOMAIN w PROVE Fits(d, w[i])
    <3>1. CASE \E j \in DOMAIN d.rules : w[i] = d.rules[j] BY <3>1, OldFits
    <3>2. CASE /\ w[i].sets = {}
               /\ w[i].server \in {f.primary, f.fallback} \/ (w[i].action = "respond" /\ w[i].server = None)
      BY <2>2, <3>2 DEF Fits, Served
    <3> QED BY <1>1, <2>1, <3>1, <3>2, WrittenRules
  <2>5. ApplyFallback(d, f) = Ruled(d, w, f) BY <1>3 DEF ApplyFallback, Ruled
  <2> HIDE DEF w
  <2> QED BY <2>3, <2>4, <2>5, RulesKeep
<1> QED BY <1>2, <1>3

LEMMA PlaceRuleEdit ==
    ASSUME NEW d \in Document, NEW r \in Rule, Welcome(d, r)
    PROVE  Keeps(d, [d EXCEPT !.rules = InsertAt(@, Place(@), r)])
<1> USE DnsAssumption
<1> DEFINE i == Place(d.rules)
           next == InsertAt(d.rules, i, r)
<1>1. /\ d.rules \in Rules /\ d.rules \in Seq(Rule) /\ Len(d.rules) \in Nat
      /\ DOMAIN d.rules = 1..Len(d.rules) /\ d.asked \in Fallback \cup {None}
  BY DocServers, LenProperties DEF Rules, Document
<1>2. i \in 1..(Len(d.rules) + 1) BY <1>1, StartIsTail DEF Place
<1> HIDE DEF i
<1>3. /\ next \in Seq(Rule) /\ Len(next) = Len(d.rules) + 1
      /\ \A j \in 1..(Len(d.rules) + 1) :
             next[j] = IF j < i THEN d.rules[j] ELSE IF j = i THEN r ELSE d.rules[j - 1]
  <2> DEFINE Inserted(t, k) ==
          /\ InsertAt(t, k, r) \in Seq(Rule) /\ Len(InsertAt(t, k, r)) = Len(t) + 1
          /\ \A j \in 1..(Len(t) + 1) :
                 InsertAt(t, k, r)[j] = IF j < k THEN t[j] ELSE IF j = k THEN r ELSE t[j - 1]
  <2>1. ASSUME NEW t \in Seq(Rule), NEW k \in 1..(Len(t) + 1) PROVE Inserted(t, k)
    BY Inserting
  <2> HIDE DEF Inserted
  <2>2. Inserted(d.rules, i) BY <1>1, <1>2, <2>1
  <2> QED BY <2>2 DEF Inserted
<1> HIDE DEF next
<1>4. next \in Rules /\ DOMAIN next = 1..(Len(d.rules) + 1) BY <1>3, LenProperties DEF Rules
<1>5. ASSUME NEW j \in DOMAIN next PROVE Fits(d, next[j])
  <2>1. CASE j < i
    <3>1. next[j] = d.rules[j] /\ j \in DOMAIN d.rules BY <1>1, <1>2, <1>3, <1>4, <2>1
    <3> QED BY <3>1, OldFits
  <2>2. CASE j = i BY <1>2, <1>3, <1>4, <2>2, NewFits
  <2>3. CASE ~(j < i) /\ j # i
    <3>1. next[j] = d.rules[j - 1] /\ j - 1 \in DOMAIN d.rules BY <1>1, <1>2, <1>3, <1>4, <2>3
    <3> QED BY <3>1, OldFits
  <2> QED BY <2>1, <2>2, <2>3
<1>6. ASSUME AskedIn(d), d.asked # None PROVE Found(next) = d.asked
  <2> DEFINE s == FindStart(d.rules)
  <2>1. Found(d.rules) = d.asked BY <1>6 DEF AskedIn
  <2>2. s \in 1..Len(d.rules) /\ s \in DOMAIN d.rules /\ TailAt(d.rules, s) BY <1>1, <1>6, <2>1, TailOf
  <2>3. i = s BY <2>2 DEF Place, i
  <2> HIDE DEF s
  <2> DEFINE k == 1
  <2>4. ASSUME NEW j \in s..Len(d.rules) PROVE next[j + k] = d.rules[j]
    <3> DEFINE q == j + k
    <3>1. q \in 1..(Len(d.rules) + 1) /\ ~(q < i) /\ q # i /\ q - 1 = j BY <1>1, <2>2, <2>3
    <3> HIDE DEF q
    <3>2. next[q] = d.rules[q - 1] BY <1>3, <3>1
    <3> QED BY <3>1, <3>2 DEF q
  <2>5. k \in Int /\ s + k >= 1 /\ Len(next) = Len(d.rules) + k BY <1>1, <1>3, <2>2
  <2> HIDE DEF k
  <2>6. Found(next) = Found(d.rules) BY <1>1, <1>3, <1>4, <2>2, <2>4, <2>5, TailCarried
  <2> QED BY <2>1, <2>6
<1>7. Keeps(d, Ruled(d, next, d.asked)) BY <1>1, <1>4, <1>5, <1>6, RulesKeep
<1>8. [d EXCEPT !.rules = InsertAt(@, Place(@), r)] = Ruled(d, next, d.asked)
  <2>1. [d EXCEPT !.rules = InsertAt(@, Place(@), r)] = [d EXCEPT !.rules = next] BY DEF next, i
  <2> QED BY <2>1 DEF Ruled, Document
<1> QED BY <1>7, <1>8

LEMMA CreateRuleEdit ==
    ASSUME NEW d \in Document, NEW r \in Rule, RuleOK(d, r)
    PROVE  Keeps(d, [Named(d, r) EXCEPT !.rules = InsertAt(@, Place(@), r)])
<1>1. Keeps(d, Named(d, r)) /\ Welcome(Named(d, r), r) BY NamedEdit
<1>2. Named(d, r) \in Document BY <1>1 DEF Keeps
<1>3. Keeps(Named(d, r), [Named(d, r) EXCEPT !.rules = InsertAt(@, Place(@), r)])
  BY <1>1, <1>2, PlaceRuleEdit
<1> QED BY <1>1, <1>3, Onward

\* What is still asked for after a change at a place of the list.
After(d, i) == IF FindStart(d.rules) # 0 /\ i >= FindStart(d.rules) THEN None ELSE d.asked

LEMMA Before ==
    ASSUME NEW d \in Document, NEW i \in DOMAIN d.rules, AskedIn(d), After(d, i) # None
    PROVE  /\ After(d, i) = d.asked /\ Found(d.rules) = d.asked
           /\ FindStart(d.rules) \in DOMAIN d.rules /\ TailAt(d.rules, FindStart(d.rules))
           /\ FindStart(d.rules) \in 1..Len(d.rules) /\ Len(d.rules) \in Nat
           /\ i \in 1..Len(d.rules) /\ i < FindStart(d.rules)
<1>1. After(d, i) = d.asked BY DEF After
<1>2. d.rules \in Rules /\ Found(d.rules) = d.asked /\ Found(d.rules) # None
  BY <1>1, DocServers DEF AskedIn
<1>3. /\ FindStart(d.rules) \in 1..Len(d.rules) /\ Len(d.rules) \in Nat
      /\ FindStart(d.rules) \in DOMAIN d.rules /\ TailAt(d.rules, FindStart(d.rules))
  BY <1>2, TailOf
<1>4. DOMAIN d.rules = 1..Len(d.rules) BY <1>2, LenProperties DEF Rules
<1>5. FindStart(d.rules) # 0 /\ ~(i >= FindStart(d.rules)) BY <1>3 DEF After
<1> QED BY <1>1, <1>2, <1>3, <1>4, <1>5

LEMMA ReplaceRuleEdit ==
    ASSUME NEW d \in Document, NEW i \in DOMAIN d.rules, NEW r \in Rule, Welcome(d, r)
    PROVE  Keeps(d, [Touched(d, i) EXCEPT !.rules[i] = r])
<1> USE DnsAssumption
<1> DEFINE next == Put(d.rules, i, r)
<1>1. /\ d.rules \in Rules /\ d.rules \in Seq(Rule) /\ Len(d.rules) \in Nat
      /\ i \in 1..Len(d.rules) /\ DOMAIN d.rules = 1..Len(d.rules)
      /\ After(d, i) \in Fallback \cup {None}
  BY DocServers, LenProperties DEF Rules, Document, After
<1>2. /\ next \in Seq(Rule) /\ Len(next) = Len(d.rules)
      /\ \A j \in 1..Len(d.rules) : next[j] = IF j = i THEN r ELSE d.rules[j]
  <2>1. ASSUME NEW s \in Seq(Rule), NEW k \in 1..Len(s)
        PROVE  /\ Put(s, k, r) \in Seq(Rule) /\ Len(Put(s, k, r)) = Len(s)
               /\ \A j \in 1..Len(s) : Put(s, k, r)[j] = IF j = k THEN r ELSE s[j]
    BY ReplaceMembers
  <2> QED BY <1>1, <2>1
<1>3. [Touched(d, i) EXCEPT !.rules[i] = r] = Ruled(d, next, After(d, i))
  BY DEF Ruled, Put, Touched, After, Document
<1> HIDE DEF next
<1>4. next \in Rules /\ DOMAIN next = 1..Len(d.rules) BY <1>2, LenProperties DEF Rules
<1>5. \A j \in DOMAIN next : Fits(d, next[j]) BY <1>1, <1>2, <1>4, OldFits, NewFits
<1>6. ASSUME AskedIn(d), After(d, i) # None PROVE Found(next) = After(d, i)
  <2> DEFINE s == FindStart(d.rules)
  <2>1. /\ After(d, i) = d.asked /\ Found(d.rules) = d.asked
        /\ s \in DOMAIN d.rules /\ TailAt(d.rules, s) /\ s \in 1..Len(d.rules) /\ i < s
    BY <1>6, Before
  <2> HIDE DEF s
  <2>2. ASSUME NEW j \in s..Len(d.rules) PROVE next[j + 0] = d.rules[j] BY <1>1, <1>2, <2>1
  <2>3. 0 \in Int /\ s + 0 >= 1 /\ Len(next) = Len(d.rules) + 0 BY <1>1, <1>2, <2>1
  <2>4. Found(next) = Found(d.rules) BY <1>1, <1>4, <2>1, <2>2, <2>3, TailCarried
  <2> QED BY <2>1, <2>4
<1>7. Keeps(d, Ruled(d, next, After(d, i))) BY <1>1, <1>4, <1>5, <1>6, RulesKeep
<1> QED BY <1>3, <1>7

LEMMA UpdateRuleEdit ==
    ASSUME NEW d \in Document, NEW i \in DOMAIN d.rules, NEW r \in Rule, RuleOK(d, r)
    PROVE  Keeps(d, [Named(Touched(d, i), r) EXCEPT !.rules[i] = r])
<1>1. /\ Keeps(d, Named(d, r)) /\ Welcome(Named(d, r), r) /\ i \in DOMAIN Named(d, r).rules
  BY NamedEdit
<1>2. Named(d, r) \in Document BY <1>1 DEF Keeps
<1>3. Keeps(Named(d, r), [Touched(Named(d, r), i) EXCEPT !.rules[i] = r])
  BY <1>1, <1>2, ReplaceRuleEdit
<1>4. Touched(Named(d, r), i) = Named(Touched(d, i), r)
  <2>1. Named(d, r).rules = d.rules BY DEF Named, Document
  <2>2. CASE FindStart(d.rules) # 0 /\ i >= FindStart(d.rules)
    <3>1. /\ Touched(Named(d, r), i) = [Named(d, r) EXCEPT !.asked = None]
          /\ Touched(d, i) = [d EXCEPT !.asked = None]
      BY <2>1, <2>2, Zenon DEF Touched
    <3> QED BY <3>1 DEF Named, ServerTags, Document
  <2>3. CASE ~(FindStart(d.rules) # 0 /\ i >= FindStart(d.rules))
    <3>1. Touched(Named(d, r), i) = Named(d, r) /\ Touched(d, i) = d
      BY <2>1, <2>3, Zenon DEF Touched
    <3> QED BY <3>1
  <2> QED BY <2>2, <2>3
<1> QED BY <1>1, <1>3, <1>4, Onward

LEMMA DeleteRuleEdit ==
    ASSUME NEW d \in Document, NEW i \in DOMAIN d.rules
    PROVE  Keeps(d, [Touched(d, i) EXCEPT !.rules = RemoveAt(@, i)])
<1> USE DnsAssumption
<1> DEFINE next == RemoveAt(d.rules, i)
<1>1. /\ d.rules \in Rules /\ d.rules \in Seq(Rule) /\ Len(d.rules) \in Nat
      /\ i \in 1..Len(d.rules) /\ DOMAIN d.rules = 1..Len(d.rules)
      /\ After(d, i) \in Fallback \cup {None}
  BY DocServers, LenProperties DEF Rules, Document, After
<1>2. /\ next \in Seq(Rule) /\ Len(next) = Len(d.rules) - 1
      /\ \A j \in 1..(Len(d.rules) - 1) : next[j] = IF j < i THEN d.rules[j] ELSE d.rules[j + 1]
  BY <1>1, Removing
<1>3. [Touched(d, i) EXCEPT !.rules = RemoveAt(@, i)] = Ruled(d, next, After(d, i))
  BY DEF Ruled, Touched, After, Document
<1> HIDE DEF next
<1>4. next \in Rules /\ DOMAIN next = 1..(Len(d.rules) - 1) BY <1>2, LenProperties DEF Rules
<1>5. ASSUME NEW j \in DOMAIN next PROVE Fits(d, next[j])
  <2>1. j \in DOMAIN d.rules /\ j + 1 \in DOMAIN d.rules BY <1>1, <1>4
  <2> QED BY <1>2, <1>4, <2>1, OldFits
<1>6. ASSUME AskedIn(d), After(d, i) # None PROVE Found(next) = After(d, i)
  <2> DEFINE s == FindStart(d.rules)
             k == 0 - 1
  <2>1. /\ After(d, i) = d.asked /\ Found(d.rules) = d.asked
        /\ s \in DOMAIN d.rules /\ TailAt(d.rules, s) /\ s \in 1..Len(d.rules) /\ i < s
    BY <1>6, Before
  <2> HIDE DEF s
  <2>2. k \in Int /\ s + k >= 1 /\ Len(next) = Len(d.rules) + k BY <1>1, <1>2, <2>1
  <2>3. ASSUME NEW j \in s..Len(d.rules) PROVE next[j + k] = d.rules[j]
    <3> DEFINE q == j + k
    <3>1. q \in 1..(Len(d.rules) - 1) /\ ~(q < i) /\ q + 1 = j BY <1>1, <2>1
    <3> HIDE DEF q
    <3>2. next[q] = d.rules[q + 1] BY <1>2, <3>1
    <3> QED BY <3>1, <3>2 DEF q
  <2> HIDE DEF k
  <2>4. Found(next) = Found(d.rules) BY <1>1, <1>4, <2>1, <2>2, <2>3, TailCarried
  <2> QED BY <2>1, <2>4
<1>7. Keeps(d, Ruled(d, next, After(d, i))) BY <1>1, <1>4, <1>5, <1>6, RulesKeep
<1> QED BY <1>3, <1>7

Shuffled(s, m, from, to) ==
    /\ Len(m) = Len(s)
    /\ \A j \in 1..Len(s) : \E k \in 1..Len(s) : m[j] = s[k] /\ (j > from /\ j > to => k = j)

LEMMA Shuffling ==
    ASSUME NEW S, NEW s \in Seq(S), NEW from \in 1..Len(s), NEW to \in 1..Len(s)
    PROVE  Moved(s, from, to) \in Seq(S) /\ Shuffled(s, Moved(s, from, to), from, to)
BY Moving DEF Shuffled

LEMMA ReorderRulesEdit ==
    ASSUME NEW d \in Document, NEW from \in DOMAIN d.rules, NEW to \in DOMAIN d.rules
    PROVE  Keeps(d, [Touched(Touched(d, from), to) EXCEPT !.rules = Moved(@, from, to)])
<1> USE DnsAssumption
<1> DEFINE next == Moved(d.rules, from, to)
           asked == IF After(d, to) = None THEN None ELSE After(d, from)
<1>1. /\ d.rules \in Rules /\ d.rules \in Seq(Rule) /\ Len(d.rules) \in Nat
      /\ from \in 1..Len(d.rules) /\ to \in 1..Len(d.rules) /\ DOMAIN d.rules = 1..Len(d.rules)
      /\ asked \in Fallback \cup {None}
  BY DocServers, LenProperties DEF Rules, Document, After
<1>2. /\ next \in Seq(Rule) /\ Len(next) = Len(d.rules)
      /\ \A j \in 1..Len(d.rules) : \E k \in 1..Len(d.rules) :
             next[j] = d.rules[k] /\ (j > from /\ j > to => k = j)
  <2>1. next \in Seq(Rule) /\ Shuffled(d.rules, next, from, to) BY <1>1, Shuffling
  <2> QED BY <2>1 DEF Shuffled
<1>3. [Touched(Touched(d, from), to) EXCEPT !.rules = Moved(@, from, to)] = Ruled(d, next, asked)
  <2>1. Touched(Touched(d, from), to) = [d EXCEPT !.asked = asked]
    <3>1. Touched(d, from) = [d EXCEPT !.asked = After(d, from)] BY DEF Touched, After, Document
    <3>2. Touched(d, from).rules = d.rules BY <3>1 DEF Document
    <3> QED BY <3>1, <3>2 DEF Touched, After, Document
  <2> HIDE DEF asked
  <2> QED BY <2>1 DEF Ruled, Document
<1> HIDE DEF next
<1>4. next \in Rules /\ DOMAIN next = 1..Len(d.rules) BY <1>2, LenProperties DEF Rules
<1>5. \A j \in DOMAIN next : Fits(d, next[j])
  <2> SUFFICES ASSUME NEW j \in DOMAIN next PROVE Fits(d, next[j]) OBVIOUS
  <2>1. PICK k \in 1..Len(d.rules) : next[j] = d.rules[k] BY <1>2, <1>4
  <2> QED BY <1>1, <2>1, OldFits
<1>6. ASSUME AskedIn(d), asked # None PROVE Found(next) = asked
  <2> DEFINE s == FindStart(d.rules)
  <2>1. After(d, from) # None /\ After(d, to) # None /\ asked = After(d, from) BY <1>6
  <2>2. /\ After(d, from) = d.asked /\ Found(d.rules) = d.asked
        /\ s \in DOMAIN d.rules /\ TailAt(d.rules, s) /\ s \in 1..Len(d.rules) /\ from < s /\ to < s
    BY <1>6, <2>1, Before
  <2> HIDE DEF s
  <2>3. ASSUME NEW j \in s..Len(d.rules) PROVE next[j + 0] = d.rules[j]
    <3>1. j \in 1..Len(d.rules) /\ j > from /\ j > to /\ j + 0 = j BY <1>1, <2>2
    <3> QED BY <1>2, <3>1
  <2>4. 0 \in Int /\ s + 0 >= 1 /\ Len(next) = Len(d.rules) + 0 BY <1>1, <1>2, <2>2
  <2>5. Found(next) = Found(d.rules) BY <1>1, <1>4, <2>2, <2>3, <2>4, TailCarried
  <2> QED BY <2>1, <2>2, <2>5
<1> HIDE DEF asked
<1>7. Keeps(d, Ruled(d, next, asked)) BY <1>1, <1>4, <1>5, <1>6, RulesKeep
<1> QED BY <1>3, <1>7

-----------------------------------------------------------------------------
(* The edits of rule sets and route rules.                                   *)

LEMMA SetsEdit ==
    ASSUME NEW d \in Document, NEW sets \in SUBSET Sets,
           \A t \in d.sets : t \in sets \/ Unused(d, t)
    PROVE  Keeps(d, [d EXCEPT !.sets = sets])
<1> DEFINE e == [d EXCEPT !.sets = sets]
<1>1. /\ e \in Document /\ e.sets = sets /\ e.rules = d.rules /\ e.routes = d.routes
      /\ Hosts(e) = Hosts(d) /\ Pins(e) = Pins(d)
      /\ Paths(e) = Paths(d) /\ Tails(e) = Tails(d) /\ Caches(e) = Caches(d)
  BY DEF Document, Hosts, Pins, Paths, Tails, Caches
<1> HIDE DEF e
<1>2. ASSUME Holds(d) PROVE Holds(e)
  <2>1. ASSUME NEW i \in DOMAIN d.rules, NEW t \in d.rules[i].sets PROVE t \in sets
    <3>1. t \in d.sets BY <1>2, <2>1 DEF Holds
    <3>2. ~Unused(d, t) BY <2>1 DEF Unused, Usage
    <3> QED BY <3>1, <3>2
  <2>2. ASSUME NEW i \in DOMAIN d.routes, NEW t \in d.routes[i].sets PROVE t \in sets
    <3>1. t \in d.sets BY <1>2, <2>2 DEF Holds
    <3>2. ~Unused(d, t) BY <2>2 DEF Unused, Usage
    <3> QED BY <3>1, <3>2
  <2> QED BY <1>1, <2>1, <2>2 DEF Holds
<1> QED BY <1>1, <1>2, Framed DEF Keeps, e

\* What a reference to an exit may name.
Known(d) == Reachable(d) \cup d.lost \cup {None}

\* A route rule that the list may hold without a new dangling reference.
RouteFits(d, r) == (Holds(d) => r.sets \subseteq d.sets) /\ (Leads(d) => r.exit \in Known(d))

LEMMA OldRouteFits ==
    ASSUME NEW d \in Document, NEW i \in DOMAIN d.routes PROVE RouteFits(d, d.routes[i])
BY DEF RouteFits, Holds, Leads, Known

LEMMA NewRouteFits ==
    ASSUME NEW d \in Document, NEW r \in Route, RouteOK(d, r) PROVE RouteFits(d, r)
BY DEF RouteFits, RouteOK, Known

\* A document with other route rules and another default exit.
Routed(d, routes, exit) == [d EXCEPT !.routes = routes, !.exit = exit]

LEMMA RoutesKeep ==
    ASSUME NEW d \in Document, NEW routes \in Seq(Route), NEW exit \in Exits \cup {None},
           \A i \in DOMAIN routes : RouteFits(d, routes[i]),
           Leads(d) => exit \in Known(d)
    PROVE  Keeps(d, Routed(d, routes, exit))
<1> DEFINE e == Routed(d, routes, exit)
<1>1. /\ e \in Document /\ e.routes = routes /\ e.exit = exit
      /\ Hosts(e) = Hosts(d) /\ Pins(e) = Pins(d) /\ Tails(e) = Tails(d) /\ Caches(e) = Caches(d)
      /\ e.rules = d.rules /\ e.sets = d.sets
      /\ e.outs = d.outs /\ e.ends = d.ends /\ e.lost = d.lost
  BY DEF Routed, Document, Hosts, Pins, Tails, Caches
<1> HIDE DEF e
<1>2. Holds(d) => Holds(e) BY <1>1 DEF Holds, RouteFits
<1>3. Known(e) = Known(d) /\ Reachable(e) = Reachable(d) BY <1>1 DEF Known, Reachable, OutTags
<1>4. Leads(d) => Leads(e) BY <1>1, <1>3 DEF Leads, Known, RouteFits
<1> QED BY <1>1, <1>2, <1>4, Framed DEF Keeps, e

LEMMA DocRoutes ==
    ASSUME NEW d \in Document
    PROVE  /\ d.routes \in Seq(Route) /\ Len(d.routes) \in Nat /\ DOMAIN d.routes = 1..Len(d.routes)
           /\ d.exit \in Exits \cup {None} /\ (Leads(d) => d.exit \in Known(d))
           /\ d.sets \subseteq Sets
<1>1. d.routes \in Seq(Route) BY DEF Document
<1>2. Leads(d) => d.exit \in Known(d) BY DEF Leads, Known
<1> QED BY <1>1, <1>2, LenProperties DEF Document

LEMMA CreateRouteEdit ==
    ASSUME NEW d \in Document, NEW r \in Route, RouteOK(d, r)
    PROVE  Keeps(d, [d EXCEPT !.routes = Append(@, r)])
<1> DEFINE next == Append(d.routes, r)
<1>1. /\ next \in Seq(Route) /\ Len(next) = Len(d.routes) + 1
      /\ next[Len(d.routes) + 1] = r /\ \A i \in 1..Len(d.routes) : next[i] = d.routes[i]
  BY AppendMembers, DocRoutes
<1>2. [d EXCEPT !.routes = Append(@, r)] = [d EXCEPT !.routes = next] OBVIOUS
<1> HIDE DEF next
<1>3. [d EXCEPT !.routes = next] = Routed(d, next, d.exit) BY DEF Routed, Document
<1>4. ASSUME NEW i \in DOMAIN next PROVE RouteFits(d, next[i])
  <2>1. i \in 1..(Len(d.routes) + 1) BY <1>1, LenProperties
  <2>2. CASE i = Len(d.routes) + 1 BY <1>1, <2>2, NewRouteFits
  <2>3. CASE i # Len(d.routes) + 1
    <3>1. i \in DOMAIN d.routes /\ i \in 1..Len(d.routes) BY <2>1, <2>3, DocRoutes
    <3> QED BY <1>1, <3>1, OldRouteFits
  <2> QED BY <2>2, <2>3
<1>5. Keeps(d, Routed(d, next, d.exit)) BY <1>1, <1>4, DocRoutes, RoutesKeep
<1> QED BY <1>2, <1>3, <1>5

LEMMA UpdateRouteEdit ==
    ASSUME NEW d \in Document, NEW i \in DOMAIN d.routes, NEW r \in Route, RouteOK(d, r)
    PROVE  Keeps(d, [d EXCEPT !.routes[i] = r])
<1> DEFINE next == Put(d.routes, i, r)
<1>1. /\ d.routes \in Seq(Route) /\ i \in 1..Len(d.routes) /\ DOMAIN d.routes = 1..Len(d.routes)
  BY DocRoutes
<1>2. /\ next \in Seq(Route) /\ Len(next) = Len(d.routes)
      /\ \A j \in 1..Len(d.routes) : next[j] = IF j = i THEN r ELSE d.routes[j]
  <2>1. ASSUME NEW s \in Seq(Route), NEW k \in 1..Len(s)
        PROVE  /\ Put(s, k, r) \in Seq(Route) /\ Len(Put(s, k, r)) = Len(s)
               /\ \A j \in 1..Len(s) : Put(s, k, r)[j] = IF j = k THEN r ELSE s[j]
    BY ReplaceMembers
  <2> QED BY <1>1, <2>1
<1>3. [d EXCEPT !.routes[i] = r] = Routed(d, next, d.exit) BY DEF Routed, Put, Document
<1> HIDE DEF next
<1>4. DOMAIN next = 1..Len(d.routes) BY <1>2, LenProperties
<1>5. \A j \in DOMAIN next : RouteFits(d, next[j]) BY <1>1, <1>2, <1>4, OldRouteFits, NewRouteFits
<1>6. Keeps(d, Routed(d, next, d.exit)) BY <1>2, <1>5, DocRoutes, RoutesKeep
<1> QED BY <1>3, <1>6

LEMMA DeleteRouteEdit ==
    ASSUME NEW d \in Document, NEW i \in DOMAIN d.routes
    PROVE  Keeps(d, [d EXCEPT !.routes = RemoveAt(@, i)])
<1> DEFINE next == RemoveAt(d.routes, i)
<1>1. /\ d.routes \in Seq(Route) /\ i \in 1..Len(d.routes) /\ DOMAIN d.routes = 1..Len(d.routes)
  BY DocRoutes
<1>2. next \in Seq(Route) /\ ToSet(next) \subseteq ToSet(d.routes) BY <1>1, RemoveMembers
<1>3. [d EXCEPT !.routes = RemoveAt(@, i)] = [d EXCEPT !.routes = next] OBVIOUS
<1> HIDE DEF next
<1>4. [d EXCEPT !.routes = next] = Routed(d, next, d.exit) BY DEF Routed, Document
<1>5. \A j \in DOMAIN next : RouteFits(d, next[j]) BY <1>1, <1>2, OldRouteFits, Members
<1>6. Keeps(d, Routed(d, next, d.exit)) BY <1>2, <1>5, DocRoutes, RoutesKeep
<1> QED BY <1>3, <1>4, <1>6

LEMMA ReorderRoutesEdit ==
    ASSUME NEW d \in Document, NEW from \in DOMAIN d.routes, NEW to \in DOMAIN d.routes
    PROVE  Keeps(d, [d EXCEPT !.routes = Moved(@, from, to)])
<1> DEFINE next == Moved(d.routes, from, to)
<1>1. /\ d.routes \in Seq(Route) /\ DOMAIN d.routes = 1..Len(d.routes)
      /\ from \in 1..Len(d.routes) /\ to \in 1..Len(d.routes)
  BY DocRoutes
<1>2. next \in Seq(Route) /\ Shuffled(d.routes, next, from, to) BY <1>1, Shuffling
<1>3. [d EXCEPT !.routes = Moved(@, from, to)] = [d EXCEPT !.routes = next] OBVIOUS
<1> HIDE DEF next
<1>4. [d EXCEPT !.routes = next] = Routed(d, next, d.exit) BY DEF Routed, Document
<1>5. ASSUME NEW j \in DOMAIN next PROVE RouteFits(d, next[j])
  <2>1. j \in 1..Len(d.routes) BY <1>2, LenProperties DEF Shuffled
  <2>2. PICK k \in 1..Len(d.routes) : next[j] = d.routes[k] BY <1>2, <2>1 DEF Shuffled
  <2> QED BY <1>1, <2>2, OldRouteFits
<1>6. Keeps(d, Routed(d, next, d.exit)) BY <1>2, <1>5, DocRoutes, RoutesKeep
<1> QED BY <1>3, <1>4, <1>6

LEMMA ExitEdit ==
    ASSUME NEW d \in Document, NEW t \in Exits \cup {None}, t \in Reachable(d) \cup {None}
    PROVE  Keeps(d, [d EXCEPT !.exit = t])
<1>1. [d EXCEPT !.exit = t] = Routed(d, d.routes, t) BY DEF Routed, Document
<1>2. Keeps(d, Routed(d, d.routes, t)) BY DocRoutes, OldRouteFits, RoutesKeep DEF Known
<1> QED BY <1>1, <1>2

-----------------------------------------------------------------------------
(* The edits of outbounds and endpoints.                                     *)

LEMMA OutFirst ==
    ASSUME NEW d \in Document, NEW t \in OutTags(d)
    PROVE  OutAt(d, t) \in 1..Len(d.outs) /\ d.outs[OutAt(d, t)].tag = t
<1>1. Len(d.outs) \in Nat /\ DOMAIN d.outs = 1..Len(d.outs) BY LenProperties DEF Document
<1> DEFINE T == {i \in 1..Len(d.outs) : d.outs[i].tag = t}
<1>2. T \in SUBSET Nat /\ T # {} BY <1>1 DEF OutTags
<1>3. PICK i \in T : \A j \in T : ~(j < i) BY <1>2, Least
<1>4. \A j \in 1..(i - 1) : d.outs[j].tag # t
  <2> SUFFICES ASSUME NEW j \in 1..(i - 1), d.outs[j].tag = t PROVE FALSE OBVIOUS
  <2>1. j \in T /\ j < i BY <1>1, <1>3
  <2> QED BY <1>3, <2>1
<1>5. \E k \in DOMAIN d.outs : d.outs[k].tag = t /\ \A j \in 1..(k - 1) : d.outs[j].tag # t
  BY <1>1, <1>3, <1>4
<1> QED BY <1>1, <1>5 DEF OutAt

LEMMA PutAround ==
    ASSUME NEW S, NEW s \in Seq(S), NEW k \in 1..Len(s), NEW x \in S
    PROVE  ToSet(RemoveAt(s, k)) \subseteq ToSet(Put(s, k, x))
<1> DEFINE t == RemoveAt(s, k)
           p == Put(s, k, x)
<1>1. /\ t \in Seq(S) /\ Len(t) = Len(s) - 1 /\ Len(s) \in Nat
      /\ \A j \in 1..(Len(s) - 1) : t[j] = IF j < k THEN s[j] ELSE s[j + 1]
  BY Removing, LenProperties
<1>2. /\ p \in Seq(S) /\ Len(p) = Len(s)
      /\ \A j \in 1..Len(s) : p[j] = IF j = k THEN x ELSE s[j]
  BY ReplaceMembers
<1> HIDE DEF t, p
<1>3. ASSUME NEW j \in 1..Len(t) PROVE t[j] \in ToSet(p)
  <2>1. CASE j < k
    <3>1. j \in 1..Len(s) /\ j \in 1..Len(p) /\ j # k /\ t[j] = s[j] BY <1>1, <1>2, <2>1
    <3> QED BY <1>2, <3>1, Members
  <2>2. CASE ~(j < k)
    <3> DEFINE i == j + 1
    <3>1. i \in 1..Len(s) /\ i \in 1..Len(p) /\ i # k /\ t[j] = s[i] BY <1>1, <1>2, <2>2
    <3> HIDE DEF i
    <3>2. p[i] = s[i] BY <1>2, <3>1
    <3> QED BY <1>2, <3>1, <3>2, Members
  <2> QED BY <2>1, <2>2
<1>4. ToSet(t) \subseteq ToSet(p) BY <1>1, <1>3, Members
<1> QED BY <1>4 DEF t, p

\* A document with other exits, and other memory of those that went.
Led(d, outs, ends, lost) == [d EXCEPT !.outs = outs, !.ends = ends, !.lost = lost]

\* The exits that a document would then have, or have had.
There(outs, ends, lost) == {ob.tag : ob \in ToSet(outs)} \cup ToSet(ends) \cup lost

LEMMA DocExits ==
    ASSUME NEW d \in Document
    PROVE  /\ d.outs \in Seq(Outbound) /\ d.ends \in Seq(Exits) /\ d.lost \subseteq Exits
           /\ Len(d.outs) \in Nat /\ Len(d.ends) \in Nat
           /\ OutTags(d) = {ob.tag : ob \in ToSet(d.outs)}
           /\ Known(d) = There(d.outs, d.ends, d.lost) \cup {None}
           /\ \A ob \in ToSet(d.outs) :
                  ob \in Outbound /\ (Leads(d) => ob.members \subseteq Known(d) \ {ob.tag})
<1>1. d.outs \in Seq(Outbound) /\ d.ends \in Seq(Exits) /\ d.lost \subseteq Exits BY DEF Document
<1>2. OutTags(d) = {ob.tag : ob \in ToSet(d.outs)} BY <1>1, Members DEF OutTags
<1>3. \A ob \in ToSet(d.outs) : \E i \in DOMAIN d.outs : d.outs[i] = ob BY <1>1, Members
<1>4. \A ob \in ToSet(d.outs) :
          ob \in Outbound /\ (Leads(d) => ob.members \subseteq Known(d) \ {ob.tag})
  BY <1>1, <1>3, Members DEF Leads, Known
<1>5. Known(d) = There(d.outs, d.ends, d.lost) \cup {None} BY <1>2 DEF Known, There, Reachable
<1> QED BY <1>1, <1>2, <1>4, <1>5, LenProperties

LEMMA ExitsKeep ==
    ASSUME NEW d \in Document, NEW outs \in Seq(Outbound), NEW ends \in Seq(Exits), NEW lost \in SUBSET Exits,
           There(d.outs, d.ends, d.lost) \subseteq There(outs, ends, lost),
           \A ob \in ToSet(outs) : \/ ob \in ToSet(d.outs)
                                   \/ ob.members \subseteq There(outs, ends, lost) \ {ob.tag}
    PROVE  Keeps(d, Led(d, outs, ends, lost))
<1> DEFINE e == Led(d, outs, ends, lost)
<1>1. /\ e \in Document /\ e.outs = outs /\ e.ends = ends /\ e.lost = lost
      /\ Hosts(e) = Hosts(d) /\ Pins(e) = Pins(d) /\ Tails(e) = Tails(d) /\ Caches(e) = Caches(d)
      /\ Names(e) = Names(d) /\ e.routes = d.routes /\ e.exit = d.exit
  BY DEF Led, Document, Hosts, Pins, Tails, Caches, Names
<1> HIDE DEF e
<1>2. Known(d) \subseteq Known(e)
  <2>1. Known(d) = There(d.outs, d.ends, d.lost) \cup {None} BY DocExits
  <2>2. Known(e) = There(e.outs, e.ends, e.lost) \cup {None} BY <1>1, DocExits
  <2>3. Known(e) = There(outs, ends, lost) \cup {None} BY <1>1, <2>2
  <2> QED BY <2>1, <2>3
<1>3. There(outs, ends, lost) \subseteq Known(e) BY <1>1, DocExits
<1>4. ASSUME Leads(d) PROVE Leads(e)
  <2>1. ASSUME NEW i \in DOMAIN outs PROVE outs[i].members \subseteq Known(e) \ {outs[i].tag}
    <3>1. outs[i] \in ToSet(outs) BY DEF ToSet
    <3>2. CASE outs[i] \in ToSet(d.outs) BY <1>2, <1>4, <3>2, DocExits
    <3>3. CASE outs[i].members \subseteq There(outs, ends, lost) \ {outs[i].tag} BY <1>3, <3>3
    <3> QED BY <3>1, <3>2, <3>3
  <2>2. d.exit \in Known(d) /\ \A i \in DOMAIN d.routes : d.routes[i].exit \in Known(d)
    BY <1>4 DEF Leads, Known
  <2> QED BY <1>1, <1>2, <2>1, <2>2 DEF Leads, Known
<1> QED BY <1>1, <1>4, Framed DEF Keeps, e

LEMMA CreateOutboundEdit ==
    ASSUME NEW d \in Document, NEW ob \in Outbound, MembersOK(ob, Reachable(d))
    PROVE  Keeps(d, [d EXCEPT !.outs = Append(@, ob)])
<1> DEFINE next == Append(d.outs, ob)
<1>1. next \in Seq(Outbound) /\ ToSet(next) = ToSet(d.outs) \cup {ob} BY DocExits, AppendMembers
<1>2. [d EXCEPT !.outs = Append(@, ob)] = [d EXCEPT !.outs = next] OBVIOUS
<1> HIDE DEF next
<1>3. [d EXCEPT !.outs = next] = Led(d, next, d.ends, d.lost) BY DEF Led, Document
<1>4. There(d.outs, d.ends, d.lost) \subseteq There(next, d.ends, d.lost) BY <1>1 DEF There
<1>5. ob.members \subseteq There(next, d.ends, d.lost) \ {ob.tag}
  BY <1>1, DocExits DEF MembersOK, Reachable, There
<1>6. Keeps(d, Led(d, next, d.ends, d.lost)) BY <1>1, <1>4, <1>5, DocExits, ExitsKeep
<1> QED BY <1>2, <1>3, <1>6

LEMMA UpdateOutboundEdit ==
    ASSUME NEW d \in Document, NEW t \in OutTags(d), NEW ob \in Outbound,
           MembersOK(ob, Reachable([d EXCEPT !.outs = RemoveAt(@, OutAt(d, t))]))
    PROVE  Keeps(d, [d EXCEPT !.outs[OutAt(d, t)] = ob, !.lost = @ \cup ({t} \ {ob.tag})])
<1> DEFINE i == OutAt(d, t)
           next == Put(d.outs, i, ob)
           rest == RemoveAt(d.outs, i)
           lost == d.lost \cup ({t} \ {ob.tag})
           others == [d EXCEPT !.outs = rest]
<1>1. i \in 1..Len(d.outs) /\ d.outs[i].tag = t BY OutFirst
<1>2. [d EXCEPT !.outs[OutAt(d, t)] = ob, !.lost = @ \cup ({t} \ {ob.tag})] = Led(d, next, d.ends, lost)
  BY DEF Led, Put, Document
<1>3. MembersOK(ob, Reachable(others)) OBVIOUS
<1> HIDE DEF i
<1>4. /\ next \in Seq(Outbound) /\ ToSet(next) \subseteq ToSet(d.outs) \cup {ob}
      /\ ToSet(d.outs) \ {d.outs[i]} \subseteq ToSet(next) /\ ob \in ToSet(next)
      /\ rest \in Seq(Outbound) /\ ToSet(rest) \subseteq ToSet(next)
  <2>1. ASSUME NEW s \in Seq(Outbound), NEW k \in 1..Len(s)
        PROVE  /\ Put(s, k, ob) \in Seq(Outbound) /\ ToSet(Put(s, k, ob)) \subseteq ToSet(s) \cup {ob}
               /\ ToSet(s) \ {s[k]} \subseteq ToSet(Put(s, k, ob)) /\ ob \in ToSet(Put(s, k, ob))
    BY ReplaceMembers
  <2>2. rest \in Seq(Outbound) /\ ToSet(rest) \subseteq ToSet(next) BY <1>1, DocExits, RemoveMembers, PutAround
  <2> QED BY <1>1, <2>1, <2>2, DocExits
<1> HIDE DEF next, rest
<1>5. others \in Document /\ others.outs = rest /\ others.ends = d.ends BY <1>4 DEF Document
<1> HIDE DEF others
<1>6. lost \subseteq Exits /\ d.lost \subseteq lost /\ (t # ob.tag => t \in lost)
  BY <1>1, DocExits, Members DEF Outbound
<1> HIDE DEF lost
<1>7. There(d.outs, d.ends, d.lost) \subseteq There(next, d.ends, lost)
  <2>1. ASSUME NEW o \in ToSet(d.outs) PROVE o.tag \in There(next, d.ends, lost)
    <3>1. CASE o = d.outs[i] BY <1>1, <1>4, <1>6, <3>1 DEF There
    <3>2. CASE o # d.outs[i] BY <1>4, <3>2 DEF There
    <3> QED BY <3>1, <3>2
  <2> QED BY <1>6, <2>1 DEF There
<1>8. ob.members \subseteq There(next, d.ends, lost) \ {ob.tag}
  <2>1. OutTags(others) = {o.tag : o \in ToSet(rest)} BY <1>5, DocExits
  <2> QED BY <1>3, <1>4, <1>5, <2>1 DEF MembersOK, Reachable, There
<1>9. Keeps(d, Led(d, next, d.ends, lost)) BY <1>4, <1>6, <1>7, <1>8, DocExits, ExitsKeep
<1> QED BY <1>2, <1>9

LEMMA DeleteOutboundEdit ==
    ASSUME NEW d \in Document, NEW t \in OutTags(d)
    PROVE  Keeps(d, [d EXCEPT !.outs = RemoveAt(@, OutAt(d, t)), !.lost = @ \cup {t}])
<1> DEFINE i == OutAt(d, t)
           next == RemoveAt(d.outs, i)
           lost == d.lost \cup {t}
<1>1. i \in 1..Len(d.outs) /\ d.outs[i].tag = t BY OutFirst
<1>2. [d EXCEPT !.outs = RemoveAt(@, OutAt(d, t)), !.lost = @ \cup {t}]
        = [d EXCEPT !.outs = next, !.lost = lost]
  OBVIOUS
<1> HIDE DEF i
<1>3. /\ next \in Seq(Outbound) /\ ToSet(next) \subseteq ToSet(d.outs)
      /\ ToSet(d.outs) \ {d.outs[i]} \subseteq ToSet(next)
  BY <1>1, DocExits, RemoveMembers
<1> HIDE DEF next
<1>4. lost \subseteq Exits /\ d.lost \subseteq lost /\ t \in lost
  BY <1>1, DocExits, Members DEF Outbound
<1> HIDE DEF lost
<1>5. [d EXCEPT !.outs = next, !.lost = lost] = Led(d, next, d.ends, lost) BY DEF Led, Document
<1>6. There(d.outs, d.ends, d.lost) \subseteq There(next, d.ends, lost)
  <2>1. ASSUME NEW o \in ToSet(d.outs) PROVE o.tag \in There(next, d.ends, lost)
    <3>1. CASE o = d.outs[i] BY <1>1, <1>4, <3>1 DEF There
    <3>2. CASE o # d.outs[i] BY <1>3, <3>2 DEF There
    <3> QED BY <3>1, <3>2
  <2> QED BY <1>4, <2>1 DEF There
<1>7. Keeps(d, Led(d, next, d.ends, lost)) BY <1>3, <1>4, <1>6, DocExits, ExitsKeep
<1> QED BY <1>2, <1>5, <1>7

\* The endpoints after an edit that loses at most the tags it remembers.
LEMMA EndsEdit ==
    ASSUME NEW d \in Document, NEW ends \in Seq(Exits), NEW lost \in SUBSET Exits,
           ToSet(d.ends) \subseteq ToSet(ends) \cup lost, d.lost \subseteq lost
    PROVE  Keeps(d, Led(d, d.outs, ends, lost))
<1>1. There(d.outs, d.ends, d.lost) \subseteq There(d.outs, ends, lost) BY DEF There
<1> QED BY <1>1, DocExits, ExitsKeep

LEMMA CreateEndpointEdit ==
    ASSUME NEW d \in Document, NEW t \in Exits
    PROVE  Keeps(d, [d EXCEPT !.ends = Append(@, t)])
<1> DEFINE next == Append(d.ends, t)
<1>1. next \in Seq(Exits) /\ ToSet(next) = ToSet(d.ends) \cup {t} BY DocExits, AppendMembers
<1>2. [d EXCEPT !.ends = Append(@, t)] = [d EXCEPT !.ends = next] OBVIOUS
<1> HIDE DEF next
<1>3. [d EXCEPT !.ends = next] = Led(d, d.outs, next, d.lost) BY DEF Led, Document
<1>4. Keeps(d, Led(d, d.outs, next, d.lost)) BY <1>1, DocExits, EndsEdit
<1> QED BY <1>2, <1>3, <1>4

LEMMA UpdateEndpointEdit ==
    ASSUME NEW d \in Document, NEW t \in ToSet(d.ends), NEW new \in Exits
    PROVE  Keeps(d, [d EXCEPT !.ends[FirstOf(t, d.ends)] = new, !.lost = @ \cup ({t} \ {new})])
<1> DEFINE next == Put(d.ends, FirstOf(t, d.ends), new)
           lost == d.lost \cup ({t} \ {new})
<1>1. t \in Exits BY DocExits, Members
<1>2. /\ next \in Seq(Exits) /\ ToSet(d.ends) \ {t} \subseteq ToSet(next) /\ new \in ToSet(next)
  BY DocExits, ReplaceFirst
<1>3. [d EXCEPT !.ends[FirstOf(t, d.ends)] = new, !.lost = @ \cup ({t} \ {new})]
        = Led(d, d.outs, next, lost)
  BY DEF Led, Put, Document
<1> HIDE DEF next
<1>4. lost \subseteq Exits /\ ToSet(d.ends) \subseteq ToSet(next) \cup lost /\ d.lost \subseteq lost
  BY <1>1, <1>2, DocExits
<1> HIDE DEF lost
<1>5. Keeps(d, Led(d, d.outs, next, lost)) BY <1>2, <1>4, EndsEdit
<1> QED BY <1>3, <1>5

LEMMA DeleteEndpointEdit ==
    ASSUME NEW d \in Document, NEW t \in ToSet(d.ends)
    PROVE  Keeps(d, [d EXCEPT !.ends = RemoveAt(@, FirstOf(t, @)), !.lost = @ \cup {t}])
<1> DEFINE k == FirstOf(t, d.ends)
           next == RemoveAt(d.ends, k)
           lost == d.lost \cup {t}
<1>1. t \in Exits /\ k \in 1..Len(d.ends) /\ d.ends[k] = t BY DocExits, Members, First
<1>2. [d EXCEPT !.ends = RemoveAt(@, FirstOf(t, @)), !.lost = @ \cup {t}]
        = [d EXCEPT !.ends = next, !.lost = lost]
  OBVIOUS
<1> HIDE DEF k
<1>3. next \in Seq(Exits) /\ ToSet(d.ends) \ {t} \subseteq ToSet(next)
  BY <1>1, DocExits, RemoveMembers
<1> HIDE DEF next
<1>4. lost \subseteq Exits /\ ToSet(d.ends) \subseteq ToSet(next) \cup lost /\ d.lost \subseteq lost
  BY <1>1, <1>3, DocExits
<1> HIDE DEF lost
<1>5. [d EXCEPT !.ends = next, !.lost = lost] = Led(d, d.outs, next, lost) BY DEF Led, Document
<1>6. Keeps(d, Led(d, d.outs, next, lost)) BY <1>3, <1>4, EndsEdit
<1> QED BY <1>2, <1>5, <1>6

-----------------------------------------------------------------------------
(* Steps.                                                                    *)

\* What every step does to the documents: the active one is kept or becomes
\* the one in work, and that one is edited, kept or falls back to the active.
Stepped ==
    /\ DnsTypeOK'
    /\ active' = active \/ active' = Working
    /\ Working' = active \/ Keeps(Working, Working')

LEMMA WorkingOK == ASSUME DnsTypeOK PROVE Working \in Document
BY InputAssumption DEF DnsTypeOK, Working

LEMMA Staged ==
    ASSUME DnsTypeOK, NEW e, Keeps(Working, e), Stage(e)
    PROVE  Stepped
<1>1. e \in Document /\ e # None /\ active' = active BY InputAssumption DEF Keeps, Stage
<1>2. CASE draft' = e
  <2>1. Working' = e BY <1>1, <1>2 DEF Working
  <2> QED BY <1>1, <1>2, <2>1 DEF Stepped, DnsTypeOK
<1>3. CASE draft' = None
  <2>1. Working' = active BY <1>1, <1>3 DEF Working
  <2> QED BY <1>1, <1>3, <2>1 DEF Stepped, DnsTypeOK
<1> QED BY <1>2, <1>3 DEF Stage

LEMMA ServerSteps == ASSUME DnsTypeOK, EditServers PROVE Stepped
<1>1. Working \in Document BY WorkingOK
<1>2. ASSUME NEW t \in Tags, CreateServer(t) PROVE Stepped
  BY <1>1, <1>2, CreateServerEdit, Staged DEF CreateServer
<1>3. ASSUME NEW t \in Tags, DeleteServer(t) PROVE Stepped
  BY <1>1, <1>3, DeleteServerEdit, Staged DEF DeleteServer
<1>4. ASSUME NEW t \in Tags, UpdateFinal(t) PROVE Stepped
  BY <1>1, <1>4, FinalEdit, Staged DEF UpdateFinal
<1>5. ASSUME NEW t \in Tags, NEW new \in Tags, UpdateServer(t, new) PROVE Stepped
  BY <1>1, <1>5, RenameServerEdit, Staged DEF UpdateServer
<1> QED BY <1>2, <1>3, <1>4, <1>5 DEF EditServers

LEMMA RuleSteps == ASSUME DnsTypeOK, EditRules PROVE Stepped
<1> USE InputAssumption
<1>1. Working \in Document BY WorkingOK
<1>2. ASSUME NEW r \in Inputs, CreateRule(r) PROVE Stepped
  BY <1>1, <1>2, CreateRuleEdit, Staged DEF CreateRule
<1>3. ASSUME NEW r \in Inputs, NEW i \in 1..MaxRules, UpdateRule(i, r) PROVE Stepped
  BY <1>1, <1>3, UpdateRuleEdit, Staged DEF UpdateRule
<1>4. ASSUME NEW i \in 1..MaxRules, DeleteRule(i) PROVE Stepped
  BY <1>1, <1>4, DeleteRuleEdit, Staged DEF DeleteRule
<1>5. ASSUME NEW i \in 1..MaxRules, NEW j \in 1..MaxRules, ReorderRules(i, j) PROVE Stepped
  BY <1>1, <1>5, ReorderRulesEdit, Staged DEF ReorderRules
<1> QED BY <1>2, <1>3, <1>4, <1>5 DEF EditRules

LEMMA SettingsSteps == ASSUME DnsTypeOK, EditSettings PROVE Stepped
<1>1. Working \in Document BY WorkingOK
<1>2. ASSUME NEW c \in BOOLEAN \cup {None}, NEW x \in BOOLEAN \cup {None},
             NEW o \in BOOLEAN \cup {None}, UpdateFlags(c, x, o)
      PROVE  Stepped
  BY <1>1, <1>2, FlagsEdit, Staged DEF UpdateFlags
<1>3. ASSUME NEW f \in Fallback \cup {None}, UpdateFallback(f) PROVE Stepped
  BY <1>1, <1>3, FallbackEdit, Itself, Staged DEF UpdateFallback
<1>4. ASSUME NEW t \in Tags \cup {None}, SetResolver(t) PROVE Stepped
  BY <1>1, <1>4, ResolverEdit, Staged DEF SetResolver
<1>5. ASSUME NEW t \in Tags, SetResolverObject(t) PROVE Stepped
  <2> DEFINE b == IF t \in ServerTags(Working) THEN None ELSE t
  <2>1. t # None BY DnsAssumption
  <2>2. Keeps(Working, [Working EXCEPT !.pin = t, !.blind = b]) BY <1>1, <2>1, ResolverEdit
  <2> QED BY <1>5, <2>2, Staged DEF SetResolverObject
<1> QED BY <1>2, <1>3, <1>4, <1>5 DEF EditSettings

LEMMA SetSteps == ASSUME DnsTypeOK, EditSets PROVE Stepped
<1>1. Working \in Document /\ Working.sets \subseteq Sets BY WorkingOK, DocRoutes
<1>2. ASSUME NEW t \in Sets, CreateRuleSet(t) PROVE Stepped
  <2> DEFINE sets == Working.sets \cup {t}
  <2>1. sets \in SUBSET Sets /\ \A u \in Working.sets : u \in sets BY <1>1
  <2> HIDE DEF sets
  <2>2. Keeps(Working, [Working EXCEPT !.sets = sets]) BY <1>1, <2>1, SetsEdit
  <2> QED BY <1>2, <2>2, Staged DEF CreateRuleSet, sets
<1>3. ASSUME NEW t \in Sets, DeleteRuleSet(t) PROVE Stepped
  <2> DEFINE sets == Working.sets \ {t}
  <2>1. sets \in SUBSET Sets /\ \A u \in Working.sets : u \in sets \/ Unused(Working, u)
    BY <1>1, <1>3 DEF DeleteRuleSet
  <2> HIDE DEF sets
  <2>2. Keeps(Working, [Working EXCEPT !.sets = sets]) BY <1>1, <2>1, SetsEdit
  <2> QED BY <1>3, <2>2, Staged DEF DeleteRuleSet, sets
<1> QED BY <1>2, <1>3 DEF EditSets

LEMMA RouteSteps == ASSUME DnsTypeOK, EditRoutes PROVE Stepped
<1> USE InputAssumption
<1>1. Working \in Document BY WorkingOK
<1>2. ASSUME NEW r \in RouteInputs, CreateRoute(r) PROVE Stepped
  BY <1>1, <1>2, CreateRouteEdit, Staged DEF CreateRoute
<1>3. ASSUME NEW r \in RouteInputs, NEW i \in 1..MaxRoutes, UpdateRoute(i, r) PROVE Stepped
  BY <1>1, <1>3, UpdateRouteEdit, Staged DEF UpdateRoute
<1>4. ASSUME NEW i \in 1..MaxRoutes, DeleteRoute(i) PROVE Stepped
  BY <1>1, <1>4, DeleteRouteEdit, Staged DEF DeleteRoute
<1>5. ASSUME NEW i \in 1..MaxRoutes, NEW j \in 1..MaxRoutes, ReorderRoutes(i, j) PROVE Stepped
  BY <1>1, <1>5, ReorderRoutesEdit, Staged DEF ReorderRoutes
<1>6. ASSUME NEW t \in Exits \cup {None}, SetFinal(t) PROVE Stepped
  BY <1>1, <1>6, ExitEdit, Staged DEF SetFinal
<1> QED BY <1>2, <1>3, <1>4, <1>5, <1>6 DEF EditRoutes

LEMMA ExitSteps == ASSUME DnsTypeOK, EditOutbounds \/ EditEndpoints PROVE Stepped
<1> USE InputAssumption
<1>1. Working \in Document BY WorkingOK
<1>2. ASSUME NEW ob \in OutInputs, CreateOutbound(ob) PROVE Stepped
  BY <1>1, <1>2, CreateOutboundEdit, Staged DEF CreateOutbound
<1>3. ASSUME NEW ob \in OutInputs, NEW t \in Exits, UpdateOutbound(t, ob) PROVE Stepped
  BY <1>1, <1>3, UpdateOutboundEdit, Staged DEF UpdateOutbound
<1>4. ASSUME NEW t \in Exits, DeleteOutbound(t) PROVE Stepped
  BY <1>1, <1>4, DeleteOutboundEdit, Staged DEF DeleteOutbound
<1>5. ASSUME NEW t \in Exits, CreateEndpoint(t) PROVE Stepped
  BY <1>1, <1>5, CreateEndpointEdit, Staged DEF CreateEndpoint
<1>6. ASSUME NEW t \in Exits, NEW new \in Exits, UpdateEndpoint(t, new) PROVE Stepped
  BY <1>1, <1>6, UpdateEndpointEdit, Staged DEF UpdateEndpoint
<1>7. ASSUME NEW t \in Exits, DeleteEndpoint(t) PROVE Stepped
  BY <1>1, <1>7, DeleteEndpointEdit, Staged DEF DeleteEndpoint
<1>8. CASE EditOutbounds BY <1>2, <1>3, <1>4, <1>8 DEF EditOutbounds
<1>9. CASE EditEndpoints BY <1>5, <1>6, <1>7, <1>9 DEF EditEndpoints
<1> QED BY <1>8, <1>9

LEMMA Steps == ASSUME DnsTypeOK, [DnsNext]_dnsVars PROVE Stepped
<1> USE InputAssumption
<1>1. CASE Discard
  <2>1. active' = active /\ draft' = None BY <1>1 DEF Discard
  <2>2. Working' = active BY <2>1 DEF Working
  <2> QED BY <2>1, <2>2 DEF Stepped, DnsTypeOK
<1>2. CASE Apply
  <2>1. draft # None /\ active' = draft /\ draft' = None BY <1>2 DEF Apply
  <2>2. draft \in Document /\ Working = draft /\ Working' = draft BY <2>1 DEF Working, DnsTypeOK
  <2> QED BY <2>1, <2>2, Itself DEF Stepped, DnsTypeOK
<1>3. CASE UNCHANGED dnsVars
  <2>1. active' = active /\ draft' = draft BY <1>3 DEF dnsVars
  <2>2. Working' = Working BY <2>1 DEF Working
  <2> QED BY <2>1, <2>2, WorkingOK, Itself DEF Stepped, DnsTypeOK
<1> QED BY <1>1, <1>2, <1>3, ServerSteps, RuleSteps, SettingsSteps, SetSteps, RouteSteps, ExitSteps DEF DnsNext

LEMMA Starting == ASSUME DnsInit PROVE DnsTypeOK /\ active \in Starts /\ Working = active
BY InputAssumption DEF DnsInit, DnsTypeOK, Working

-----------------------------------------------------------------------------
\* The documents keep their form through every edit, discard and apply.
THEOREM DnsForm == DnsSpec => []DnsTypeOK
<1>1. DnsInit => DnsTypeOK BY Starting
<1>2. DnsTypeOK /\ [DnsNext]_dnsVars => DnsTypeOK' BY Steps DEF Stepped
<1> QED BY <1>1, <1>2, PTL DEF DnsSpec

\* From an active configuration whose resolver is pinned where it has to be,
\* no order of edits of DNS servers, of the resolver and of the rest leads to
\* a configuration that is not, but for a server that a resolver in object form
\* named while it was not there, until it is (domain_resolver.go,
\* UpdateRouteSettings).
THEOREM ResolverStaysPinned ==
    ASSUME \A d \in Starts : PinnedIn(d)
    PROVE  DnsSpec => []ResolverPinned
<1> DEFINE Inv == DnsTypeOK /\ ResolverPinned
<1>1. DnsInit => Inv BY Starting DEF ResolverPinned
<1>2. Inv /\ [DnsNext]_dnsVars => Inv'
  <2> SUFFICES ASSUME Inv, [DnsNext]_dnsVars PROVE Inv' OBVIOUS
  <2>1. Stepped BY Steps
  <2>2. PinnedIn(active') /\ PinnedIn(Working') BY <2>1 DEF Stepped, ResolverPinned, Keeps
  <2> QED BY <2>1, <2>2 DEF Stepped, ResolverPinned
<1> QED BY <1>1, <1>2, PTL DEF DnsSpec

\* From an active configuration without dangling references, no order of edits
\* of rules, servers, rule sets, outbounds and endpoints makes one, but where
\* nothing is looked at: a DNS server that was renamed, an exit that was renamed
\* or deleted, and a server that a rule other than a route named while it was
\* not there.  A rule set or a DNS server in use is never deleted, the server of
\* an evaluate rule among them (DeleteDnsServer, DeleteRuleSet).
THEOREM NothingDangles ==
    ASSUME \A d \in Starts : Holds(d) /\ Serves(d) /\ Leads(d)
    PROVE  DnsSpec => []ReferencesHold
<1> DEFINE Whole(d) == Holds(d) /\ Serves(d) /\ Leads(d)
           Inv == DnsTypeOK /\ Whole(active) /\ Whole(Working)
<1>1. DnsInit => Inv BY Starting
<1>2. Inv /\ [DnsNext]_dnsVars => Inv'
  <2> SUFFICES ASSUME Inv, [DnsNext]_dnsVars PROVE Inv' OBVIOUS
  <2>1. Stepped BY Steps
  <2>2. Whole(active') /\ Whole(Working') BY <2>1 DEF Stepped, Keeps
  <2> QED BY <2>1, <2>2 DEF Stepped
<1>3. Inv => ReferencesHold BY DEF ReferencesHold, RuleSetsReferenced, ServersReferenced, ExitsReferenced
<1> QED BY <1>1, <1>2, <1>3, PTL DEF DnsSpec

\* What an operator asked for as a fallback stays the end of the list, however
\* many rules there are and whatever is done to the others (CreateDnsRule,
\* UpdateDnsRule, DeleteDnsRule, ReorderDnsRules, applyDnsFallback).
THEOREM FallbackKept == DnsSpec => []FallbackStays
<1> DEFINE Inv == DnsTypeOK /\ AskedIn(active) /\ AskedIn(Working)
<1>1. DnsInit => Inv BY Starting, InputAssumption DEF AskedIn
<1>2. Inv /\ [DnsNext]_dnsVars => Inv'
  <2> SUFFICES ASSUME Inv, [DnsNext]_dnsVars PROVE Inv' OBVIOUS
  <2>1. Stepped BY Steps
  <2>2. AskedIn(active') /\ AskedIn(Working') BY <2>1 DEF Stepped, Keeps
  <2> QED BY <2>1, <2>2 DEF Stepped
<1>3. Inv => FallbackStays BY DEF FallbackStays
<1> QED BY <1>1, <1>2, <1>3, PTL DEF DnsSpec

\* What is reported as a fallback names two servers that are there and codes
\* the panel offers: sent back, it is accepted if the operator's own rules
\* allow a fallback at all.
LEMMA ReportedWritable ==
    ASSUME NEW d \in Document, Reported(d) # None,
           \A i \in DOMAIN Own(d.rules) : ~HasResponse(Own(d.rules)[i])
    PROVE  Writable(d, Reported(d))
<1> DEFINE f == Reported(d)
           s == FindStart(d.rules)
<1>1. f = Found(d.rules) /\ f # None /\ {f.primary, f.fallback} \subseteq ServerTags(d) BY DEF Reported
<1>2. s \in DOMAIN d.rules /\ TailAt(d.rules, s) BY <1>1, DocServers, TailOf
<1>3. f = ReadAt(d.rules, s) BY <1>1, <1>2, DocServers, FoundAt
<1>4. f \in Fallback /\ f.primary # f.fallback /\ f.codes # {} BY <1>2, <1>3, DocServers, ReadOK
<1> QED BY <1>1, <1>4 DEF Writable, Fallback

\* Of every configuration the editors reach in which no rule of the operator's own
\* matches responses, a fallback that is read back is one that an update accepts:
\* two different servers of the list, and codes the panel offers
\* (findFallbackBlock, applyDnsFallback).  With such a rule it is refused.
THEOREM ReportedIsAccepted == DnsSpec => []FallbackWritable
<1>1. DnsTypeOK => FallbackWritable
  <2> SUFFICES ASSUME DnsTypeOK PROVE FallbackWritable OBVIOUS
  <2>1. Working \in Document BY WorkingOK
  <2> QED BY <2>1, ReportedWritable DEF FallbackWritable
<1> QED BY <1>1, DnsForm, PTL

\* From an active configuration that has not both, no order of payloads of
\* disable_cache, disable_expire and optimistic, in any combination, gives
\* optimistic answers beside one of the two switches (UpdateDnsSettings).
THEOREM CacheStaysSafe ==
    ASSUME \A d \in Starts : CacheIn(d)
    PROVE  DnsSpec => []OptimisticSafe
<1> DEFINE Inv == DnsTypeOK /\ CacheIn(active) /\ CacheIn(Working)
<1>1. DnsInit => Inv BY Starting
<1>2. Inv /\ [DnsNext]_dnsVars => Inv'
  <2> SUFFICES ASSUME Inv, [DnsNext]_dnsVars PROVE Inv' OBVIOUS
  <2>1. Stepped BY Steps
  <2>2. CacheIn(active') /\ CacheIn(Working') BY <2>1 DEF Stepped, Keeps
  <2> QED BY <2>1, <2>2 DEF Stepped
<1>3. Inv => OptimisticSafe BY DEF OptimisticSafe
<1> QED BY <1>1, <1>2, <1>3, PTL DEF DnsSpec

\* In a list of any length, a rule that is moved ends up where it was dropped
\* and the others keep their order (ReorderRules, ReorderDnsRules).
THEOREM MovesLand == DnsSpec => []ReorderLands
<1>1. DnsTypeOK => ReorderLands
  <2> SUFFICES ASSUME DnsTypeOK PROVE ReorderLands OBVIOUS
  <2> DEFINE s == Working.rules
  <2>1. s \in Seq(Rule) BY WorkingOK, DocServers DEF Rules
  <2>2. DOMAIN s = 1..Len(s) BY <2>1, LenProperties
  <2> HIDE DEF s
  <2>3. ASSUME NEW from \in DOMAIN s, NEW to \in DOMAIN s
        PROVE  /\ Len(Moved(s, from, to)) = Len(s) /\ Moved(s, from, to)[to] = s[from]
               /\ RemoveAt(Moved(s, from, to), to) = RemoveAt(s, from)
    BY <2>1, <2>2, Moving
  <2> QED BY <2>3 DEF ReorderLands, s
<1> QED BY <1>1, DnsForm, PTL
=============================================================================
