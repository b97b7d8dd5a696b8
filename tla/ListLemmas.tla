----------------------------- MODULE ListLemmas -----------------------------
(***************************************************************************)
(* Facts about Lists and about the library's operators that the            *)
(* components' proofs share.  Induction over the numbers is stated for     *)
(* sets in place of predicates: the least element of a set of numbers      *)
(* comes from the well-foundedness of the finite sets 0 .. n.              *)
(***************************************************************************)
EXTENDS Lists, FiniteSetTheorems, SequenceTheorems, TLAPS

LEMMA LeastNatural ==
  ASSUME NEW S \in SUBSET Nat, S # {}
  PROVE  \E n \in S : \A m \in S : n <= m
<1> DEFINE T == {0 .. n : n \in S}
<1>1. T \subseteq FiniteSubsetsOf(Nat)
  <2>1. \A n \in S : IsFiniteSet(0 .. n) /\ 0 .. n \subseteq Nat
    BY FS_Interval
  <2>2. SUFFICES ASSUME NEW n \in S PROVE 0 .. n \in FiniteSubsetsOf(Nat)
    OBVIOUS
  <2> QED
    BY <2>1 DEF FiniteSubsetsOf
<1>2. T # {}
  OBVIOUS
<1>3. PICK x \in T : \A y \in T : <<y, x>> \notin StrictSubsetOrdering(Nat)
  <2> HIDE DEF T
  <2> QED
    BY <1>1, <1>2, FS_StrictSubsetOrderingWellFounded, WFMin
<1>4. PICK n \in S : x = 0 .. n
  OBVIOUS
<1>5. ASSUME NEW m \in S, m < n PROVE FALSE
  <2>1. 0 .. m \subseteq x /\ n \in x /\ n \notin 0 .. m
    BY <1>4, <1>5
  <2>2. 0 .. m # x /\ 0 .. m \in SUBSET Nat /\ x \in SUBSET Nat
    BY <1>4, <2>1
  <2>3. <<0 .. m, x>> \in StrictSubsetOrdering(Nat)
    BY <2>1, <2>2 DEF StrictSubsetOrdering
  <2> QED
    BY <1>3, <2>3
<1> QED
  BY <1>5

LEMMA SetInduction ==
  ASSUME NEW S, 0 \in S, \A n \in Nat : n \in S => n + 1 \in S
  PROVE  Nat \subseteq S
<1> SUFFICES ASSUME Nat \ S # {} PROVE FALSE
  OBVIOUS
<1>1. PICK n \in Nat \ S : \A m \in Nat \ S : n <= m
  BY LeastNatural
<1>2. n # 0 /\ n - 1 \in S /\ n - 1 \in Nat
  BY <1>1
<1> QED
  BY <1>1, <1>2

LEMMA IntervalInduction ==
  ASSUME NEW n \in Nat, NEW D, 0 \in D, \A i \in 1 .. n : i - 1 \in D => i \in D
  PROVE  0 .. n \subseteq D
<1> DEFINE E == {i \in Nat : i <= n => i \in D}
<1>1. 0 \in E
  OBVIOUS
<1>2. ASSUME NEW i \in Nat, i \in E PROVE i + 1 \in E
  <2>1. i + 1 <= n => i + 1 \in 1 .. n /\ (i + 1) - 1 = i
    OBVIOUS
  <2> QED
    BY <1>2, <2>1
<1>3. Nat \subseteq E
  <2> HIDE DEF E
  <2> QED
    BY <1>1, <1>2, SetInduction
<1> QED
  BY <1>3

LEMMA MinOfNaturals ==
  ASSUME NEW S \in SUBSET Nat, S # {}
  PROVE  Min(S) \in S /\ \A m \in S : Min(S) <= m
  BY LeastNatural DEF Min

(* A function that is defined by recursion over 0 .. n exists. *)
Recursion(f, n, start, step) ==
  \A i \in 0 .. n : f[i] = IF i = 0 THEN start ELSE step[<<i, f[i - 1]>>]

LEMMA RecursionExists ==
  ASSUME NEW X, NEW n \in Nat, NEW start \in X, NEW step \in [(1 .. n) \X X -> X]
  PROVE  \E f \in [0 .. n -> X] : Recursion(f, n, start, step)
<1> DEFINE Defined(k) ==
             {f \in [0 .. k -> X] :
                \A i \in 0 .. k : f[i] = IF i = 0 THEN start ELSE step[<<i, f[i - 1]>>]}
           D == {k \in Nat : k <= n => Defined(k) # {}}
<1>1. 0 \in D
  <2>1. [i \in 0 .. 0 |-> start] \in Defined(0)
    OBVIOUS
  <2> QED
    BY <2>1
<1>2. ASSUME NEW k \in Nat, k \in D PROVE k + 1 \in D
  <2>1. SUFFICES ASSUME k + 1 <= n PROVE Defined(k + 1) # {}
    OBVIOUS
  <2>2. PICK f \in [0 .. k -> X] :
          \A i \in 0 .. k : f[i] = IF i = 0 THEN start ELSE step[<<i, f[i - 1]>>]
    BY <1>2, <2>1
  <2> DEFINE last == step[<<k + 1, f[k]>>]
             g == [i \in 0 .. k + 1 |-> IF i <= k THEN f[i] ELSE last]
  <2>3. last \in X
    <3>1. <<k + 1, f[k]>> \in (1 .. n) \X X
      BY <2>1, <2>2
    <3> QED
      BY <3>1
  <2>4. g \in [0 .. k + 1 -> X]
    <3> HIDE DEF last
    <3> QED
      BY <2>2, <2>3
  <2>5. ASSUME NEW i \in 0 .. k + 1
        PROVE  g[i] = IF i = 0 THEN start ELSE step[<<i, g[i - 1]>>]
    <3>1. CASE i <= k
      <4>1. i \in 0 .. k /\ (i # 0 => i - 1 \in 0 .. k)
        BY <3>1
      <4>2. g[i] = f[i] /\ (i # 0 => g[i - 1] = f[i - 1])
        BY <3>1, <4>1
      <4> QED
        BY <2>2, <4>1, <4>2
    <3>2. CASE i = k + 1
      <4>1. g[i] = last /\ g[i - 1] = f[k] /\ i # 0
        BY <3>2
      <4> QED
        BY <3>2, <4>1
    <3> QED
      BY <3>1, <3>2
  <2> QED
    <3> HIDE DEF g
    <3> QED
      BY <2>4, <2>5
<1>3. Nat \subseteq D
  <2> HIDE DEF D
  <2> QED
    BY <1>1, <1>2, SetInduction
<1> QED
  BY <1>3 DEF Recursion

LEMMA SetToSeqProperties ==
  ASSUME NEW S, IsFiniteSet(S)
  PROVE  SetToSeq(S) \in Seq(S) /\ ToSet(SetToSeq(S)) = S /\ Len(SetToSeq(S)) = Cardinality(S)
<1> DEFINE n == Cardinality(S)
           f == SetToSeq(S)
<1>1. n \in Nat
  BY FS_CardinalityType
<1>2. PICK g : g \in Bijection(1 .. n, S)
  BY FS_CardinalityType DEF ExistsBijection
<1>3. g \in [1 .. n -> S] /\ IsInjective(g)
  BY <1>2 DEF Bijection, Injection, IsInjective
<1>4. f \in [1 .. n -> S] /\ IsInjective(f)
  BY <1>3 DEF SetToSeq
<1>5. f \in Seq(S) /\ Len(f) = n
  <2> HIDE DEF f, n
  <2> QED
    BY <1>1, <1>4
<1>6. f \in Injection(1 .. n, S)
  BY <1>4 DEF Injection
<1>7. f \in Surjection(1 .. n, S)
  <2>1. Cardinality(1 .. n) = n
    BY <1>1, FS_Interval
  <2> QED
    BY <1>6, <2>1, FS_Injection
<1>8. {f[i] : i \in 1 .. n} = S
  BY <1>4, <1>7 DEF Surjection
<1> QED
  BY <1>4, <1>5, <1>8 DEF ToSet

(***************************************************************************)
(* The entries of a list that is built or taken apart.                     *)
(***************************************************************************)
LEMMA ToSetOf ==
  ASSUME NEW S, NEW s \in Seq(S)
  PROVE  /\ ToSet(s) \subseteq S
         /\ \A i \in 1 .. Len(s) : s[i] \in ToSet(s)
         /\ \A x \in ToSet(s) : \E i \in 1 .. Len(s) : x = s[i]
         /\ ToSet(s) = {} <=> s = <<>>
<1>1. DOMAIN s = 1 .. Len(s) /\ Len(s) \in Nat
  BY LenProperties
<1>2. \A i \in 1 .. Len(s) : s[i] \in S
  BY ElementOfSeq
<1>3. s # <<>> => 1 \in 1 .. Len(s)
  BY EmptySeq
<1>4. s = <<>> => 1 .. Len(s) = {}
  OBVIOUS
<1> QED
  BY <1>1, <1>2, <1>3, <1>4 DEF ToSet

LEMMA ToSetWithin ==
  ASSUME NEW S, NEW s \in Seq(S), NEW T, \A i \in 1 .. Len(s) : s[i] \in T
  PROVE  ToSet(s) \subseteq T
  BY ToSetOf

LEMMA ToSetConcat ==
  ASSUME NEW S, NEW s \in Seq(S), NEW t \in Seq(S)
  PROVE  ToSet(s \o t) = ToSet(s) \cup ToSet(t)
<1>1. s \o t \in Seq(S) /\ Len(s \o t) = Len(s) + Len(t)
  BY ConcatProperties
<1>2. ASSUME NEW i \in 1 .. Len(s) PROVE (s \o t)[i] = s[i]
  BY ConcatProperties
<1>3. ASSUME NEW i \in 1 .. Len(t) PROVE (s \o t)[Len(s) + i] = t[i]
  BY ConcatProperties
<1>4. ASSUME NEW i \in 1 .. Len(s \o t) PROVE (s \o t)[i] \in ToSet(s) \cup ToSet(t)
  <2>1. CASE i <= Len(s)
    BY <1>2, <2>1, ToSetOf
  <2>2. CASE i > Len(s)
    <3>1. i - Len(s) \in 1 .. Len(t) /\ i = Len(s) + (i - Len(s))
      BY <1>1, <2>2
    <3>2. (s \o t)[i] = t[i - Len(s)]
      BY <1>3, <3>1
    <3> QED
      BY <3>1, <3>2, ToSetOf
  <2> QED
    BY <2>1, <2>2
<1>5. ASSUME NEW i \in 1 .. Len(s) PROVE s[i] \in ToSet(s \o t)
  <2>1. i \in 1 .. Len(s \o t)
    BY <1>1
  <2>2. (s \o t)[i] \in ToSet(s \o t)
    BY <1>1, <2>1, ToSetOf
  <2> QED
    BY <1>2, <2>2
<1>6. ASSUME NEW i \in 1 .. Len(t) PROVE t[i] \in ToSet(s \o t)
  <2>1. Len(s) + i \in 1 .. Len(s \o t)
    BY <1>1
  <2>2. (s \o t)[Len(s) + i] \in ToSet(s \o t)
    BY <1>1, <2>1, ToSetOf
  <2> QED
    BY <1>3, <2>2
<1>7. ToSet(s \o t) \subseteq ToSet(s) \cup ToSet(t)
  BY <1>1, <1>4, ToSetWithin
<1>8. ToSet(s) \subseteq ToSet(s \o t)
  BY <1>5, ToSetOf
<1>9. ToSet(t) \subseteq ToSet(s \o t)
  BY <1>6, ToSetOf
<1> QED
  BY <1>7, <1>8, <1>9

LEMMA ToSetAppend ==
  ASSUME NEW S, NEW s \in Seq(S), NEW e \in S
  PROVE  ToSet(Append(s, e)) = ToSet(s) \cup {e}
<1>1. Append(s, e) = s \o <<e>> /\ <<e>> \in Seq(S)
  BY AppendIsConcat
<1>2. ToSet(<<e>>) = {e}
  BY DEF ToSet
<1>3. ToSet(s \o <<e>>) = ToSet(s) \cup ToSet(<<e>>)
  BY <1>1, ToSetConcat
<1> QED
  BY <1>1, <1>2, <1>3

LEMMA ToSetSubSeq ==
  ASSUME NEW S, NEW s \in Seq(S), NEW m \in Nat \ {0}, NEW n \in 0 .. Len(s)
  PROVE  /\ SubSeq(s, m, n) \in Seq(S)
         /\ Len(SubSeq(s, m, n)) = IF m <= n THEN n - m + 1 ELSE 0
         /\ ToSet(SubSeq(s, m, n)) \subseteq ToSet(s)
<1>1. \A i \in m .. n : s[i] \in S
  BY ElementOfSeq
<1>2. /\ SubSeq(s, m, n) \in Seq(S)
      /\ Len(SubSeq(s, m, n)) = IF m <= n THEN n - m + 1 ELSE 0
      /\ \A i \in 1 .. n - m + 1 : SubSeq(s, m, n)[i] = s[m + i - 1]
  BY <1>1, SubSeqProperties
<1>3. ASSUME NEW i \in 1 .. Len(SubSeq(s, m, n)) PROVE SubSeq(s, m, n)[i] \in ToSet(s)
  <2>1. m + i - 1 \in 1 .. Len(s) /\ SubSeq(s, m, n)[i] = s[m + i - 1]
    BY <1>2
  <2> QED
    BY <2>1, ToSetOf
<1>4. ToSet(SubSeq(s, m, n)) \subseteq ToSet(s)
  BY <1>2, <1>3, ToSetWithin
<1> QED
  BY <1>2, <1>4

LEMMA ToSetTail ==
  ASSUME NEW S, NEW s \in Seq(S), s # <<>>
  PROVE  /\ Head(s) \in ToSet(s) /\ Tail(s) \in Seq(S) /\ Len(Tail(s)) = Len(s) - 1
         /\ ToSet(s) = {Head(s)} \cup ToSet(Tail(s))
<1>1. /\ Tail(s) \in Seq(S) /\ Len(Tail(s)) = Len(s) - 1 /\ Len(s) \in Nat \ {0}
      /\ \A i \in 1 .. Len(Tail(s)) : Tail(s)[i] = s[i + 1]
  BY HeadTailProperties, EmptySeq
<1>2. Head(s) = s[1]
  OBVIOUS
<1>4. ASSUME NEW i \in 1 .. Len(s) PROVE s[i] \in {Head(s)} \cup ToSet(Tail(s))
  <2>1. CASE i = 1
    BY <1>2, <2>1
  <2>2. CASE i # 1
    <3>1. i - 1 \in 1 .. Len(Tail(s)) /\ Tail(s)[i - 1] = s[i]
      BY <1>1, <2>2
    <3> QED
      BY <1>1, <3>1, ToSetOf
  <2> QED
    BY <2>1, <2>2
<1>5. ASSUME NEW i \in 1 .. Len(Tail(s)) PROVE Tail(s)[i] \in ToSet(s)
  <2>1. i + 1 \in 1 .. Len(s)
    BY <1>1
  <2> QED
    BY <1>1, <2>1, ToSetOf
<1>6. ToSet(s) \subseteq {Head(s)} \cup ToSet(Tail(s))
  BY <1>4, ToSetOf
<1>7. ToSet(Tail(s)) \subseteq ToSet(s)
  BY <1>1, <1>5, ToSetWithin
<1>8. Head(s) \in ToSet(s)
  BY <1>1, <1>2, ToSetOf
<1> QED
  BY <1>1, <1>6, <1>7, <1>8

(***************************************************************************)
(* Kept is well defined: the function that its recursion describes exists, *)
(* for one more entry at a time.                                           *)
(***************************************************************************)
KeptUpTo(list, F, n) ==
  {k \in [0 .. n -> Seq(ToSet(list) \cap F)] :
     \A i \in 0 .. n :
       k[i] = IF i = 0 THEN <<>>
              ELSE IF list[i] \in F THEN Append(k[i - 1], list[i])
              ELSE k[i - 1]}

LEMMA KeptUpToExists ==
  ASSUME NEW S, NEW list \in Seq(S), NEW F
  PROVE  KeptUpTo(list, F, Len(list)) # {}
<1> DEFINE D == {n \in Nat : n <= Len(list) => KeptUpTo(list, F, n) # {}}
           V == Seq(ToSet(list) \cap F)
<1>1. 0 \in D
  <2>1. [i \in 0 .. 0 |-> <<>>] \in KeptUpTo(list, F, 0)
    BY DEF KeptUpTo
  <2> QED
    BY <2>1
<1>2. ASSUME NEW n \in Nat, n \in D PROVE n + 1 \in D
  <2>1. SUFFICES ASSUME n + 1 <= Len(list) PROVE KeptUpTo(list, F, n + 1) # {}
    OBVIOUS
  <2>2. PICK k : k \in KeptUpTo(list, F, n)
    BY <1>2, <2>1
  <2>3. k \in [0 .. n -> V] /\ k[n] \in V
    BY <2>2 DEF KeptUpTo
  <2> DEFINE last == IF list[n + 1] \in F THEN Append(k[n], list[n + 1]) ELSE k[n]
             g == [i \in 0 .. n + 1 |-> IF i <= n THEN k[i] ELSE last]
  <2>4. last \in V
    <3>1. list[n + 1] \in ToSet(list)
      BY <2>1 DEF ToSet
    <3> QED
      BY <2>3, <3>1
  <2>5. g \in [0 .. n + 1 -> V]
    <3> HIDE DEF last, V
    <3> QED
      BY <2>3, <2>4
  <2>6. ASSUME NEW i \in 0 .. n + 1
        PROVE  g[i] = IF i = 0 THEN <<>>
                      ELSE IF list[i] \in F THEN Append(g[i - 1], list[i])
                      ELSE g[i - 1]
    <3> HIDE DEF last
    <3>1. CASE i <= n
      <4>1. i \in 0 .. n /\ (i # 0 => i - 1 \in 0 .. n)
        BY <3>1
      <4>2. g[i] = k[i] /\ (i # 0 => g[i - 1] = k[i - 1])
        BY <3>1, <4>1
      <4> QED
        BY <2>2, <4>1, <4>2 DEF KeptUpTo
    <3>2. CASE i = n + 1
      <4>1. g[i] = last /\ g[i - 1] = k[n] /\ i # 0
        BY <3>2
      <4> QED
        BY <3>2, <4>1 DEF last
    <3> QED
      BY <3>1, <3>2
  <2>7. g \in KeptUpTo(list, F, n + 1)
    <3> HIDE DEF g
    <3> QED
      BY <2>5, <2>6 DEF KeptUpTo
  <2> QED
    BY <2>7
<1>3. Nat \subseteq D
  <2> HIDE DEF D
  <2> QED
    BY <1>1, <1>2, SetInduction
<1> QED
  BY <1>3

(* What Kept returns: entries of list that are in F, and all of them. *)
LEMMA KeptProperties ==
  ASSUME NEW S, NEW list \in Seq(S), NEW F
  PROVE  /\ Kept(list, F) \in Seq(S)
         /\ ToSet(Kept(list, F)) = ToSet(list) \cap F
         /\ Len(Kept(list, F)) <= Len(list)
<1> DEFINE kept == CHOOSE k : k = [n \in 0 .. Len(list) |->
                     IF n = 0 THEN <<>>
                     ELSE IF list[n] \in F THEN Append(k[n - 1], list[n])
                     ELSE k[n - 1]]
           V == Seq(ToSet(list) \cap F)
<1>1. PICK g : g \in KeptUpTo(list, F, Len(list))
  BY KeptUpToExists
<1>2. g = [n \in 0 .. Len(list) |->
             IF n = 0 THEN <<>>
             ELSE IF list[n] \in F THEN Append(g[n - 1], list[n])
             ELSE g[n - 1]]
  BY <1>1 DEF KeptUpTo
<1>3. kept = [n \in 0 .. Len(list) |->
                IF n = 0 THEN <<>>
                ELSE IF list[n] \in F THEN Append(kept[n - 1], list[n])
                ELSE kept[n - 1]]
  BY <1>2
<1> HIDE DEF kept
<1>4. Kept(list, F) = kept[Len(list)]
  BY DEF Kept, kept
<1> DEFINE D == {n \in Nat : n <= Len(list) =>
                   /\ kept[n] \in V /\ Len(kept[n]) <= n
                   /\ ToSet(kept[n]) = {list[i] : i \in 1 .. n} \cap F}
<1>5. 0 \in D
  BY <1>3 DEF ToSet
<1>6. ASSUME NEW n \in Nat, n \in D PROVE n + 1 \in D
  <2>1. SUFFICES ASSUME n + 1 <= Len(list)
                 PROVE  /\ kept[n + 1] \in V /\ Len(kept[n + 1]) <= n + 1
                        /\ ToSet(kept[n + 1]) = {list[i] : i \in 1 .. n + 1} \cap F
    OBVIOUS
  <2>2. /\ kept[n] \in V /\ Len(kept[n]) <= n
        /\ ToSet(kept[n]) = {list[i] : i \in 1 .. n} \cap F
    BY <1>6, <2>1
  <2>3. kept[n + 1] = IF list[n + 1] \in F THEN Append(kept[n], list[n + 1]) ELSE kept[n]
    <3>1. n + 1 \in 0 .. Len(list) /\ n + 1 # 0 /\ (n + 1) - 1 = n
      BY <2>1
    <3> QED
      BY <1>3, <3>1
  <2>4. {list[i] : i \in 1 .. n + 1} = {list[i] : i \in 1 .. n} \cup {list[n + 1]}
    OBVIOUS
  <2>5. list[n + 1] \in ToSet(list)
    BY <2>1 DEF ToSet
  <2>6. CASE list[n + 1] \in F
    <3>1. ToSet(kept[n + 1]) = ToSet(kept[n]) \cup {list[n + 1]}
      <4>1. ToSet(Append(kept[n], list[n + 1])) = ToSet(kept[n]) \cup {list[n + 1]}
        BY <2>2, <2>5, <2>6, ToSetAppend
      <4> QED
        BY <2>3, <2>6, <4>1
    <3> QED
      BY <2>2, <2>3, <2>4, <2>5, <2>6, <3>1
  <2>7. CASE list[n + 1] \notin F
    BY <2>2, <2>3, <2>4, <2>7
  <2> QED
    BY <2>6, <2>7
<1>7. Nat \subseteq D
  <2> HIDE DEF D
  <2> QED
    BY <1>5, <1>6, SetInduction
<1>8. Len(list) \in D
  <2> HIDE DEF D
  <2> QED
    BY <1>7, LenProperties
<1>9. ToSet(list) \subseteq S /\ ToSet(list) = {list[i] : i \in 1 .. Len(list)}
  BY DEF ToSet
<1> QED
  BY <1>4, <1>8, <1>9, SeqMonotonic

(* Listed adds the entries that are missing. *)
LEMMA ListedProperties ==
  ASSUME NEW S, NEW list \in Seq(S), NEW F \in SUBSET S, IsFiniteSet(F)
  PROVE  /\ Listed(list, F) \in Seq(S)
         /\ ToSet(Listed(list, F)) = ToSet(list) \cup F
         /\ F = {} => Listed(list, F) = list
         /\ Len(Listed(list, F)) <= Len(list) + Cardinality(F)
<1> DEFINE G == F \ ToSet(list)
           t == SetToSeq(G)
<1>1. IsFiniteSet(G) /\ Cardinality(G) <= Cardinality(F)
  BY FS_Subset
<1>2. t \in Seq(S) /\ ToSet(t) = G /\ Len(t) = Cardinality(G)
  <2>1. t \in Seq(G) /\ ToSet(t) = G /\ Len(t) = Cardinality(G)
    BY <1>1, SetToSeqProperties
  <2> QED
    BY <2>1, SeqMonotonic
<1>3. Cardinality(G) \in Nat /\ Cardinality(F) \in Nat
  BY <1>1, FS_CardinalityType
<1> HIDE DEF t
<1>4. /\ list \o t \in Seq(S) /\ Len(list \o t) = Len(list) + Len(t)
      /\ ToSet(list \o t) = ToSet(list) \cup ToSet(t)
  BY <1>2, ConcatProperties, ToSetConcat
<1>5. F = {} => t = <<>>
  <2>1. F = {} => Cardinality(G) = 0
    BY FS_EmptySet
  <2> QED
    BY <1>2, <2>1, EmptySeq
<1>6. F = {} => list \o t = list
  BY <1>5, ConcatEmptySeq
<1>7. Listed(list, F) = list \o t
  BY DEF Listed, t
<1> QED
  BY <1>1, <1>2, <1>3, <1>4, <1>6, <1>7

(* A bound on all messages together leaves room for one more of each       *)
(* client.                                                                 *)
LEMMA BoundLeavesRoom ==
  ASSUME NEW C, IsFiniteSet(C), NEW bound \in Nat, NEW n \in [C -> 0 .. bound],
         Cardinality({m \in C \X (1 .. bound) : m[2] <= n[m[1]]}) < bound,
         NEW c \in C
  PROVE  n[c] + 1 \in 0 .. bound
<1> DEFINE All == {m \in C \X (1 .. bound) : m[2] <= n[m[1]]}
           Mine == {c} \X (1 .. bound)
<1>1. SUFFICES ASSUME n[c] = bound PROVE FALSE
  OBVIOUS
<1>2. Mine \subseteq All
  BY <1>1
<1>3. IsFiniteSet(All) /\ Cardinality(All) \in Nat
  <2> DEFINE Ks == 1 .. bound
  <2>1. IsFiniteSet(Ks)
    BY FS_Interval
  <2>2. All \subseteq C \X Ks
    OBVIOUS
  <2> HIDE DEF Ks, All
  <2>3. IsFiniteSet(C \X Ks)
    BY <2>1, FS_Product
  <2> QED
    BY <2>2, <2>3, FS_Subset, FS_CardinalityType
<1>4. Cardinality(Mine) = bound
  <2> DEFINE Ks == 1 .. bound
  <2>1. IsFiniteSet({c}) /\ Cardinality({c}) = 1
    BY FS_Singleton
  <2>2. IsFiniteSet(Ks) /\ Cardinality(Ks) = bound
    BY FS_Interval
  <2> HIDE DEF Ks
  <2>3. Cardinality({c} \X Ks) = 1 * bound
    BY <2>1, <2>2, FS_Product
  <2> QED
    BY <2>3 DEF Ks
<1>5. Cardinality(Mine) <= Cardinality(All)
  BY <1>2, <1>3, FS_Subset
<1> QED
  BY <1>3, <1>4, <1>5

-----------------------------------------------------------------------------
(***************************************************************************)
(* Linked lists.  A chain is the sequence of a list's nodes; a list that   *)
(* has one can be changed at its front, and nowhere else.                  *)
(***************************************************************************)
IsChain(c, start, next, null) ==
  /\ \A i, j \in 1 .. Len(c) : c[i] = c[j] => i = j
  /\ start = IF c = <<>> THEN null ELSE c[1]
  /\ \A i \in 1 .. Len(c) : next[c[i]] = IF i = Len(c) THEN null ELSE c[i + 1]

(* A walk goes through the chain, and then stays at null. *)
LEMMA WalkThroughChain ==
  ASSUME NEW S, NEW null, null \notin S, NEW start, NEW next, NEW steps \in Nat,
         NEW c \in Seq(S), IsChain(c, start, next, null)
  PROVE  \A n \in 0 .. steps :
           Walk(start, next, steps, null)[n] = IF n < Len(c) THEN c[n + 1] ELSE null
<1> DEFINE at == CHOOSE w : w = [n \in 0 .. steps |->
                   IF n = 0 THEN start ELSE IF w[n - 1] = null THEN null ELSE next[w[n - 1]]]
           g == [n \in 0 .. steps |-> IF n < Len(c) THEN c[n + 1] ELSE null]
<1>1. Len(c) \in Nat /\ start = g[0]
  <2>1. start = IF 0 < Len(c) THEN c[0 + 1] ELSE null
    BY EmptySeq DEF IsChain
  <2> QED
    BY <2>1
<1>2. ASSUME NEW n \in 0 .. steps, n # 0
      PROVE  g[n] = IF g[n - 1] = null THEN null ELSE next[g[n - 1]]
  <2>1. n - 1 \in 0 .. steps /\ (n - 1) + 1 = n
    BY <1>2
  <2>2. /\ g[n - 1] = IF n - 1 < Len(c) THEN c[n] ELSE null
        /\ g[n] = IF n < Len(c) THEN c[n + 1] ELSE null
    BY <2>1
  <2> HIDE DEF g
  <2>3. CASE n - 1 < Len(c)
    <3>1. n \in 1 .. Len(c) /\ c[n] \in S
      BY <1>1, <1>2, <2>3, ElementOfSeq
    <3>2. next[c[n]] = IF n = Len(c) THEN null ELSE c[n + 1]
      BY <3>1 DEF IsChain
    <3> QED
      BY <2>2, <2>3, <3>1, <3>2
  <2>4. CASE ~(n - 1 < Len(c))
    BY <1>1, <2>2, <2>4
  <2> QED
    BY <2>3, <2>4
<1> HIDE DEF g
<1>3. g = [n \in 0 .. steps |->
             IF n = 0 THEN start ELSE IF g[n - 1] = null THEN null ELSE next[g[n - 1]]]
  <2>1. g = [n \in 0 .. steps |-> g[n]]
    BY DEF g
  <2> QED
    BY <1>1, <1>2, <2>1
<1>4. at = [n \in 0 .. steps |->
              IF n = 0 THEN start ELSE IF at[n - 1] = null THEN null ELSE next[at[n - 1]]]
  BY <1>3
<1> HIDE DEF at
<1>5. Walk(start, next, steps, null) = at
  BY DEF Walk, at
<1> DEFINE D == {n \in Nat : n <= steps => at[n] = g[n]}
<1>6. 0 \in D
  BY <1>1, <1>4
<1>7. ASSUME NEW n \in Nat, n \in D PROVE n + 1 \in D
  <2>1. SUFFICES ASSUME n + 1 <= steps PROVE at[n + 1] = g[n + 1]
    OBVIOUS
  <2>2. n + 1 \in 0 .. steps /\ n + 1 # 0 /\ (n + 1) - 1 = n /\ at[n] = g[n]
    BY <1>7, <2>1
  <2>3. at[n + 1] = IF at[n] = null THEN null ELSE next[at[n]]
    BY <1>4, <2>2
  <2> QED
    BY <1>2, <2>2, <2>3
<1>8. Nat \subseteq D
  <2> HIDE DEF D
  <2> QED
    BY <1>6, <1>7, SetInduction
<1>9. \A n \in 0 .. steps : at[n] = g[n]
  <2>1. \A n \in 0 .. steps : n \in D
    BY <1>8
  <2> QED
    BY <2>1
<1>10. \A n \in 0 .. steps : g[n] = IF n < Len(c) THEN c[n + 1] ELSE null
  BY DEF g
<1> HIDE DEF D
<1> QED
  BY <1>5, <1>9, <1>10

(* A chain with one node more in front of it, and with its first removed.  *)
LEMMA LongerChain ==
  ASSUME NEW S, NEW null, NEW start, NEW next, NEW c \in Seq(S), IsChain(c, start, next, null),
         NEW b \in S, b \notin ToSet(c), next[b] = start
  PROVE  LET d == <<b>> \o c
         IN /\ d \in Seq(S) /\ Len(d) = Len(c) + 1 /\ d[1] = b /\ d # <<>>
            /\ \A i \in 1 .. Len(c) : d[i + 1] = c[i]
            /\ IsChain(d, b, next, null)
            /\ ToSet(d) = {b} \cup ToSet(c)
<1> DEFINE d == <<b>> \o c
<1>1. /\ d \in Seq(S) /\ Len(d) = Len(c) + 1 /\ d[1] = b /\ d # <<>>
      /\ \A i \in 1 .. Len(c) : d[i + 1] = c[i]
  <2>1. <<b>> \in Seq(S) /\ Len(<<b>>) = 1
    OBVIOUS
  <2>2. /\ d \in Seq(S) /\ Len(d) = Len(c) + 1
        /\ \A i \in 1 .. 1 : d[i] = <<b>>[i]
        /\ \A i \in 1 .. Len(c) : d[1 + i] = c[i]
    BY <2>1, ConcatProperties
  <2> HIDE DEF d
  <2>3. Len(c) \in Nat /\ d # <<>>
    BY <2>2
  <2> QED
    BY <2>2, <2>3
<1>2. Len(c) \in Nat
  OBVIOUS
<1> HIDE DEF d
<1>3. \A i \in 2 .. Len(d) : i - 1 \in 1 .. Len(c) /\ d[i] = c[i - 1]
  BY <1>1, <1>2
<1>4. \A i \in 1 .. Len(c) : c[i] # b
  BY ToSetOf
<1>5. ASSUME NEW i \in 1 .. Len(d), NEW j \in 1 .. Len(d), d[i] = d[j] PROVE i = j
  <2>1. CASE i = 1 /\ j = 1
    BY <2>1
  <2>2. CASE i = 1 /\ j # 1
    BY <1>1, <1>3, <1>4, <1>5, <2>2
  <2>3. CASE i # 1 /\ j = 1
    BY <1>1, <1>3, <1>4, <1>5, <2>3
  <2>4. CASE i # 1 /\ j # 1
    <3>1. i - 1 \in 1 .. Len(c) /\ j - 1 \in 1 .. Len(c) /\ c[i - 1] = c[j - 1]
      BY <1>3, <1>5, <2>4
    <3>2. i - 1 = j - 1
      BY <3>1 DEF IsChain
    <3> QED
      BY <3>2
  <2> QED
    BY <2>1, <2>2, <2>3, <2>4
<1>6. ASSUME NEW i \in 1 .. Len(d) PROVE next[d[i]] = IF i = Len(d) THEN null ELSE d[i + 1]
  <2>1. CASE i = 1
    <3>1. next[d[i]] = start
      BY <1>1, <2>1
    <3>2. CASE c = <<>>
      <4>1. Len(d) = 1
        BY <1>1, <3>2
      <4> QED
        BY <2>1, <3>1, <3>2, <4>1 DEF IsChain
    <3>3. CASE c # <<>>
      <4>1. 1 \in 1 .. Len(c) /\ Len(d) # 1
        BY <1>1, <1>2, <3>3, EmptySeq
      <4>2. d[2] = c[1] /\ start = c[1]
        BY <1>1, <3>3, <4>1 DEF IsChain
      <4> QED
        BY <2>1, <3>1, <4>1, <4>2
    <3> QED
      BY <3>2, <3>3
  <2>2. CASE i # 1
    <3>1. i - 1 \in 1 .. Len(c) /\ d[i] = c[i - 1]
      BY <1>3, <2>2
    <3>2. next[c[i - 1]] = IF i - 1 = Len(c) THEN null ELSE c[(i - 1) + 1]
      BY <3>1 DEF IsChain
    <3>3. CASE i = Len(d)
      BY <1>1, <1>2, <3>1, <3>2, <3>3
    <3>4. CASE i # Len(d)
      <4>1. i \in 1 .. Len(c) /\ i - 1 # Len(c) /\ (i - 1) + 1 = i
        BY <1>1, <1>2, <3>4
      <4>2. d[i + 1] = c[i]
        BY <1>1, <4>1
      <4> QED
        BY <3>1, <3>2, <3>4, <4>1, <4>2
    <3> QED
      BY <3>3, <3>4
  <2> QED
    BY <2>1, <2>2
<1>7. IsChain(d, b, next, null)
  BY <1>1, <1>5, <1>6 DEF IsChain
<1>8. ToSet(d) = {b} \cup ToSet(c)
  <2> DEFINE s == <<b>>
  <2>1. s \in Seq(S) /\ ToSet(s) = {b} /\ d = s \o c
    BY DEF ToSet, d
  <2> HIDE DEF s
  <2>2. ToSet(s \o c) = ToSet(s) \cup ToSet(c)
    BY <2>1, ToSetConcat
  <2> QED
    BY <2>1, <2>2
<1> QED
  BY <1>1, <1>7, <1>8 DEF d

LEMMA ShorterChain ==
  ASSUME NEW S, NEW null, NEW start, NEW next, NEW c \in Seq(S), IsChain(c, start, next, null),
         c # <<>>
  PROVE  LET d == Tail(c)
         IN /\ d \in Seq(S) /\ Len(d) = Len(c) - 1 /\ Len(c) \in Nat \ {0}
            /\ \A i \in 1 .. Len(d) : d[i] = c[i + 1]
            /\ start = c[1] /\ IsChain(d, next[start], next, null)
            /\ ToSet(d) = ToSet(c) \ {start} /\ start \in ToSet(c)
<1>1. c # <<>> /\ c[1] = start
  BY DEF IsChain
<1> DEFINE d == Tail(c)
<1>2. /\ d \in Seq(S) /\ Len(d) = Len(c) - 1 /\ Len(c) \in Nat \ {0}
      /\ \A i \in 1 .. Len(d) : d[i] = c[i + 1]
      /\ ToSet(c) = {c[1]} \cup ToSet(d) /\ c[1] \in ToSet(c)
  <2>1. Head(c) = c[1] /\ Len(c) \in Nat \ {0}
    BY <1>1, EmptySeq
  <2> QED
    BY <1>1, <2>1, ToSetTail, HeadTailProperties
<1> HIDE DEF d
<1>3. \A i \in 1 .. Len(d) : i + 1 \in 1 .. Len(c) /\ d[i] = c[i + 1]
  BY <1>2
<1>4. \A i, j \in 1 .. Len(d) : d[i] = d[j] => i = j
  <2>1. SUFFICES ASSUME NEW i \in 1 .. Len(d), NEW j \in 1 .. Len(d), c[i + 1] = c[j + 1] PROVE i = j
    BY <1>3
  <2>2. i + 1 = j + 1
    BY <1>3, <2>1 DEF IsChain
  <2> QED
    BY <2>2
<1>5. next[start] = IF d = <<>> THEN null ELSE d[1]
  <2>1. next[start] = IF Len(c) = 1 THEN null ELSE c[2]
    BY <1>1, <1>2 DEF IsChain
  <2>2. CASE d = <<>>
    BY <1>2, <2>1, <2>2, EmptySeq
  <2>3. CASE d # <<>>
    <3>1. 1 \in 1 .. Len(d) /\ Len(c) # 1
      BY <1>2, <2>3, EmptySeq
    <3> QED
      BY <1>2, <2>1, <2>3, <3>1
  <2> QED
    BY <2>2, <2>3
<1>6. ASSUME NEW i \in 1 .. Len(d) PROVE next[d[i]] = IF i = Len(d) THEN null ELSE d[i + 1]
  <2>1. next[c[i + 1]] = IF i + 1 = Len(c) THEN null ELSE c[(i + 1) + 1]
    BY <1>3 DEF IsChain
  <2>2. CASE i = Len(d)
    BY <1>2, <1>3, <2>1, <2>2
  <2>3. CASE i # Len(d)
    <3>1. i + 1 \in 1 .. Len(d) /\ i + 1 # Len(c)
      BY <1>2, <2>3
    <3>2. d[i + 1] = c[(i + 1) + 1]
      BY <1>2, <3>1
    <3> QED
      BY <1>3, <2>1, <2>3, <3>1, <3>2
  <2> QED
    BY <2>2, <2>3
<1>7. IsChain(d, next[start], next, null)
  BY <1>4, <1>5, <1>6 DEF IsChain
<1>8. start \notin ToSet(d)
  <2>1. SUFFICES ASSUME NEW i \in 1 .. Len(d), c[i + 1] = c[1] PROVE FALSE
    <3>1. \A x \in ToSet(d) : \E i \in 1 .. Len(d) : x = d[i]
      BY <1>2, ToSetOf
    <3> QED
      BY <1>1, <1>3, <3>1
  <2>2. 1 \in 1 .. Len(c) /\ i + 1 \in 1 .. Len(c)
    BY <1>2, <1>3
  <2>3. i + 1 = 1
    BY <2>1, <2>2 DEF IsChain
  <2> QED
    BY <2>3
<1> QED
  BY <1>1, <1>2, <1>7, <1>8 DEF d

(* A chain has no more nodes than there are. *)
LEMMA ChainIsShort ==
  ASSUME NEW S, IsFiniteSet(S), NEW c \in Seq(S),
         \A i, j \in 1 .. Len(c) : c[i] = c[j] => i = j
  PROVE  Len(c) <= Cardinality(S)
<1> DEFINE n == Len(c)
<1>1. n \in Nat /\ c \in [1 .. n -> S]
  OBVIOUS
<1>2. c \in Injection(1 .. n, S)
  BY <1>1 DEF Injection, IsInjective
<1>3. Cardinality(1 .. n) = n
  BY <1>1, FS_Interval
<1> HIDE DEF n
<1>4. Cardinality(1 .. n) <= Cardinality(S)
  BY <1>2, FS_Injection
<1> QED
  BY <1>3, <1>4 DEF n

LEMMA LinkedIsChain ==
  ASSUME NEW S, IsFiniteSet(S), NEW null, null \notin S, NEW start, NEW next,
         NEW c \in Seq(S), IsChain(c, start, next, null)
  PROVE  Linked(start, next, S, null) = ToSet(c)
<1> DEFINE k == Cardinality(S)
           at == Walk(start, next, k, null)
<1>1. k \in Nat /\ Len(c) \in Nat /\ Len(c) <= k
  BY FS_CardinalityType, ChainIsShort DEF IsChain
<1>2. \A n \in 0 .. k : at[n] = IF n < Len(c) THEN c[n + 1] ELSE null
  BY <1>1, WalkThroughChain
<1>3. Linked(start, next, S, null) = {at[n] : n \in 0 .. k} \ {null}
  BY DEF Linked
<1> HIDE DEF k, at
<1>4. ASSUME NEW n \in 0 .. k, at[n] # null PROVE at[n] \in ToSet(c)
  <2>1. n < Len(c) /\ at[n] = c[n + 1] /\ n + 1 \in 1 .. Len(c)
    BY <1>1, <1>2, <1>4
  <2> QED
    BY <2>1, ToSetOf
<1>5. ASSUME NEW x \in ToSet(c) PROVE x # null /\ \E n \in 0 .. k : at[n] = x
  <2>1. PICK i \in 1 .. Len(c) : x = c[i]
    BY ToSetOf
  <2>2. i - 1 \in 0 .. k /\ i - 1 < Len(c) /\ (i - 1) + 1 = i
    BY <1>1, <2>1
  <2>3. at[i - 1] = x
    BY <1>2, <2>1, <2>2
  <2>4. x \in S
    BY <2>1, ElementOfSeq
  <2> QED
    BY <2>2, <2>3, <2>4
<1> QED
  BY <1>3, <1>4, <1>5

(***************************************************************************)
(* What a step does to a list, said of the set of its nodes.               *)
(***************************************************************************)
HasChain(start, next, S, null) == \E c \in Seq(S) : IsChain(c, start, next, null)

LEMMA EmptyChain ==
  ASSUME NEW S, IsFiniteSet(S), NEW null, null \notin S, NEW next
  PROVE  HasChain(null, next, S, null) /\ Linked(null, next, S, null) = {}
<1>1. <<>> \in Seq(S) /\ IsChain(<<>>, null, next, null)
  BY DEF IsChain
<1>2. ToSet(<<>>) = {}
  BY DEF ToSet
<1> QED
  BY <1>1, <1>2, LinkedIsChain DEF HasChain

LEMMA ChainKept ==
  ASSUME NEW S, IsFiniteSet(S), NEW null, null \notin S, NEW start, NEW next, NEW next2,
         HasChain(start, next, S, null),
         \A x \in Linked(start, next, S, null) : next2[x] = next[x]
  PROVE  /\ HasChain(start, next2, S, null)
         /\ Linked(start, next2, S, null) = Linked(start, next, S, null)
<1>1. PICK c \in Seq(S) : IsChain(c, start, next, null)
  BY DEF HasChain
<1>2. Linked(start, next, S, null) = ToSet(c)
  BY <1>1, LinkedIsChain
<1>3. \A i \in 1 .. Len(c) : next2[c[i]] = next[c[i]]
  BY <1>2, ToSetOf
<1>4. IsChain(c, start, next2, null)
  BY <1>1, <1>3 DEF IsChain
<1> QED
  BY <1>2, <1>4, LinkedIsChain DEF HasChain

LEMMA ChainInFront ==
  ASSUME NEW S, IsFiniteSet(S), NEW null, null \notin S, NEW start, NEW next, NEW next2,
         HasChain(start, next, S, null),
         NEW b \in S, b \notin Linked(start, next, S, null), next2[b] = start,
         \A x \in Linked(start, next, S, null) : next2[x] = next[x]
  PROVE  /\ HasChain(b, next2, S, null)
         /\ Linked(b, next2, S, null) = Linked(start, next, S, null) \cup {b}
<1>1. PICK c \in Seq(S) : IsChain(c, start, next2, null)
  BY ChainKept DEF HasChain
<1>2. ToSet(c) = Linked(start, next, S, null)
  BY <1>1, LinkedIsChain, ChainKept
<1>3. PICK d \in Seq(S) : IsChain(d, b, next2, null) /\ ToSet(d) = {b} \cup ToSet(c)
  <2> DEFINE d == <<b>> \o c
  <2>1. b \notin ToSet(c)
    BY <1>2
  <2>2. d \in Seq(S) /\ IsChain(d, b, next2, null) /\ ToSet(d) = {b} \cup ToSet(c)
    BY <1>1, <2>1, LongerChain
  <2> HIDE DEF d
  <2> QED
    BY <2>2
<1> QED
  BY <1>2, <1>3, LinkedIsChain DEF HasChain

LEMMA ChainBehind ==
  ASSUME NEW S, IsFiniteSet(S), NEW null, null \notin S, NEW start \in S, NEW next,
         HasChain(start, next, S, null)
  PROVE  /\ start \in Linked(start, next, S, null)
         /\ HasChain(next[start], next, S, null)
         /\ Linked(next[start], next, S, null) = Linked(start, next, S, null) \ {start}
<1>1. PICK c \in Seq(S) : IsChain(c, start, next, null)
  BY DEF HasChain
<1>2. c # <<>>
  BY <1>1 DEF IsChain
<1>3. PICK d \in Seq(S) : /\ IsChain(d, next[start], next, null)
                           /\ ToSet(d) = ToSet(c) \ {start} /\ start \in ToSet(c)
  BY <1>1, <1>2, ShorterChain, ZenonT(30)
<1> QED
  BY <1>1, <1>3, LinkedIsChain DEF HasChain

-----------------------------------------------------------------------------
(***************************************************************************)
(* Places in sequences.                                                    *)
(***************************************************************************)
LEMMA FunctionIsSeq ==
  ASSUME NEW S, NEW n \in Nat, NEW f \in [1 .. n -> S]
  PROVE  f \in Seq(S) /\ Len(f) = n /\ DOMAIN f = 1 .. n
<1>1. f \in Seq(S)
  BY SeqDef
<1> QED
  BY <1>1, LenProperties

LEMMA ConcatPlaces ==
  ASSUME NEW S, NEW a \in Seq(S), NEW b \in Seq(S)
  PROVE  /\ a \o b \in Seq(S) /\ Len(a) \in Nat /\ Len(b) \in Nat
         /\ Len(a \o b) = Len(a) + Len(b)
         /\ \A k \in 1 .. Len(a) : (a \o b)[k] = a[k]
         /\ \A k \in 1 .. Len(b) : (a \o b)[Len(a) + k] = b[k]
<1>1. /\ a \o b \in Seq(S) /\ Len(a) \in Nat /\ Len(b) \in Nat
      /\ Len(a \o b) = Len(a) + Len(b)
      /\ \A i \in 1 .. Len(a) + Len(b) : (a \o b)[i] = IF i <= Len(a) THEN a[i] ELSE b[i - Len(a)]
  BY ConcatProperties, LenProperties
<1>2. ASSUME NEW k \in 1 .. Len(a) PROVE (a \o b)[k] = a[k]
  BY <1>1, k \in 1 .. Len(a) + Len(b)
<1>3. ASSUME NEW k \in 1 .. Len(b) PROVE (a \o b)[Len(a) + k] = b[k]
  <2>1. Len(a) + k \in 1 .. Len(a) + Len(b) /\ ~(Len(a) + k <= Len(a)) /\ Len(a) + k - Len(a) = k
    BY <1>1
  <2> QED
    BY <1>1, <2>1
<1> QED
  BY <1>1, <1>2, <1>3

LEMMA SubSeqPlaces ==
  ASSUME NEW S, NEW s \in Seq(S), NEW m \in Nat, NEW n \in Nat, m <= n, n <= Len(s)
  PROVE  /\ SubSeq(s, m + 1, n) \in Seq(S) /\ Len(SubSeq(s, m + 1, n)) = n - m
         /\ \A i \in 1 .. n - m : SubSeq(s, m + 1, n)[i] = s[m + i]
<1> DEFINE t == SubSeq(s, m + 1, n)
<1>1. Len(s) \in Nat
  BY LenProperties
<1>2. \A i \in m + 1 .. n : s[i] \in S
  BY <1>1, ElementOfSeq
<1>3. /\ t \in Seq(S) /\ Len(t) = IF m + 1 <= n THEN n - (m + 1) + 1 ELSE 0
      /\ \A i \in 1 .. n - (m + 1) + 1 : t[i] = s[m + 1 + i - 1]
  BY <1>2, SubSeqProperties
<1> HIDE DEF t
<1>4. /\ n - (m + 1) + 1 = n - m /\ (IF m + 1 <= n THEN n - m ELSE 0) = n - m
      /\ \A i \in 1 .. n - m : m + 1 + i - 1 = m + i
  OBVIOUS
<1> QED
  BY <1>3, <1>4 DEF t

LEMMA PairIsSuffix ==
  ASSUME NEW S, NEW s \in Seq(S), NEW x \in S, NEW y \in S
  PROVE  IsSuffix(<<x, y>>, s) <=> Len(s) >= 2 /\ s[Len(s) - 1] = x /\ s[Len(s)] = y
<1> DEFINE p == <<x, y>>
           a == Reverse(p)
           b == Reverse(s)
<1>1. Len(s) \in Nat /\ \A i \in 1 .. Len(s) : s[i] \in S
  BY LenProperties, ElementOfSeq
<1>2. /\ a = [i \in 1 .. 2 |-> p[2 - i + 1]] /\ a[1] = y /\ a[2] = x /\ Len(a) = 2
      /\ a \in Seq(S)
  <2>1. Len(p) = 2 /\ p[1] = x /\ p[2] = y
    OBVIOUS
  <2>2. a = [i \in 1 .. 2 |-> p[2 - i + 1]] /\ a[1] = y /\ a[2] = x
    BY <2>1 DEF Reverse
  <2> HIDE DEF p
  <2>3. a \in [1 .. 2 -> S]
    BY <2>1, <2>2
  <2> HIDE DEF a
  <2>4. a \in Seq(S)
    <3>1. a \in UNION {[1 .. n -> S] : n \in Nat}
      BY <2>3
    <3> QED
      BY <3>1, SeqDef
  <2>5. Len(a) = 2
    BY <2>3, <2>4, LenProperties
  <2> QED
    BY <2>2, <2>4, <2>5 DEF a
<1>3. b \in Seq(S) /\ Len(b) = Len(s) /\ \A i \in 1 .. Len(s) : b[i] = s[Len(s) - i + 1]
  <2>1. b \in [1 .. Len(s) -> S] /\ \A i \in 1 .. Len(s) : b[i] = s[Len(s) - i + 1]
    BY <1>1 DEF Reverse
  <2>2. b \in Seq(S)
    BY <1>1, <2>1, SeqDef
  <2> HIDE DEF b
  <2>3. Len(b) = Len(s)
    BY <1>1, <2>1, <2>2, LenProperties
  <2> QED
    BY <2>1, <2>2, <2>3
<1>4. IsSuffix(p, s) <=> 2 <= Len(s) /\ SubSeq(a, 1, 2) = SubSeq(b, 1, 2)
  BY <1>2, <1>3 DEF IsSuffix, IsPrefix
<1> HIDE DEF a, b, p
<1>5. SubSeq(a, 1, 2) = a
  BY <1>2, SubSeqFull
<1>6. ASSUME 2 <= Len(s)
      PROVE  SubSeq(b, 1, 2) = a <=> s[Len(s) - 1] = x /\ s[Len(s)] = y
  <2>1. \A i \in 1 .. 2 : b[i] \in S
    BY <1>1, <1>3, <1>6, ElementOfSeq
  <2>2. /\ SubSeq(b, 1, 2) \in Seq(S) /\ Len(SubSeq(b, 1, 2)) = 2
        /\ \A i \in 1 .. 2 : SubSeq(b, 1, 2)[i] = b[i]
    <3>1. /\ SubSeq(b, 1, 2) \in Seq(S)
          /\ Len(SubSeq(b, 1, 2)) = IF 1 <= 2 THEN 2 - 1 + 1 ELSE 0
          /\ \A i \in 1 .. 2 - 1 + 1 : SubSeq(b, 1, 2)[i] = b[1 + i - 1]
      BY <2>1, SubSeqProperties
    <3> QED
      BY <3>1
  <2>3. b[1] = s[Len(s)] /\ b[2] = s[Len(s) - 1]
    BY <1>1, <1>3, <1>6
  <2>4. SubSeq(b, 1, 2)[1] = s[Len(s)] /\ SubSeq(b, 1, 2)[2] = s[Len(s) - 1]
    BY <2>2, <2>3
  <2>5. SubSeq(b, 1, 2) = a => s[Len(s) - 1] = x /\ s[Len(s)] = y
    BY <1>2, <2>4
  <2>6. ASSUME s[Len(s) - 1] = x, s[Len(s)] = y PROVE SubSeq(b, 1, 2) = a
    <3>1. \A i \in 1 .. 2 : SubSeq(b, 1, 2)[i] = a[i]
      BY <1>2, <2>4, <2>6
    <3> QED
      BY <1>2, <2>2, <3>1, SeqEqual
  <2> QED
    BY <2>5, <2>6
<1> QED
  BY <1>1, <1>4, <1>5, <1>6 DEF p

-----------------------------------------------------------------------------
(***************************************************************************)
(* Sequences of sequences, glued together from the first on.               *)
(***************************************************************************)
(* What the first n of them come to. *)
Glued(ss) ==
  LET glued[n \in 0 .. Len(ss)] == IF n = 0 THEN <<>> ELSE glued[n - 1] \o ss[n]
  IN glued

LEMMA ElementOfSeqSeq ==
  ASSUME NEW S, NEW ss \in Seq(Seq(S))
  PROVE  /\ Len(ss) \in Nat /\ DOMAIN ss = 1 .. Len(ss)
         /\ \A n \in 1 .. Len(ss) : ss[n] \in Seq(S)
<1> DEFINE X == Seq(S)
<1>1. ss \in Seq(X)
  OBVIOUS
<1> HIDE DEF X
<1>2. \A n \in 1 .. Len(ss) : ss[n] \in X
  BY <1>1, ElementOfSeq
<1> QED
  BY <1>1, <1>2, LenProperties DEF X

LEMMA GluedStep ==
  ASSUME NEW S, NEW ss \in Seq(Seq(S))
  PROVE  /\ Glued(ss) \in [0 .. Len(ss) -> Seq(S)]
         /\ Glued(ss)[0] = <<>>
         /\ \A n \in 1 .. Len(ss) : Glued(ss)[n] = Glued(ss)[n - 1] \o ss[n]
<1> DEFINE k == Len(ss)
           X == Seq(S)
           step == [p \in (1 .. k) \X X |-> p[2] \o ss[p[1]]]
           glued == CHOOSE g : g = [n \in 0 .. k |-> IF n = 0 THEN <<>> ELSE g[n - 1] \o ss[n]]
<1>1. k \in Nat /\ <<>> \in X /\ \A n \in 1 .. k : ss[n] \in X
  BY ElementOfSeqSeq, EmptySeq
<1>0. \A x, y \in X : x \o y \in X
  BY ConcatProperties
<1>8. Glued(ss) = glued
  BY DEF Glued
<1> HIDE DEF X, k
<1>2. step \in [(1 .. k) \X X -> X]
  <2>1. ASSUME NEW n \in 1 .. k, NEW x \in X PROVE x \o ss[n] \in X
    BY <1>0, <1>1
  <2> QED
    BY <2>1
<1>3. PICK f \in [0 .. k -> X] : Recursion(f, k, <<>>, step)
  <2> HIDE DEF step
  <2> QED
    BY <1>1, <1>2, RecursionExists
<1>4. \A n \in 0 .. k : n # 0 => f[n] = f[n - 1] \o ss[n]
  <2> SUFFICES ASSUME NEW n \in 0 .. k, n # 0 PROVE f[n] = f[n - 1] \o ss[n]
    OBVIOUS
  <2>1. n - 1 \in 0 .. k /\ n \in 1 .. k
    BY <1>1
  <2>2. f[n] = step[<<n, f[n - 1]>>] /\ f[n - 1] \in X
    <3> HIDE DEF step
    <3> QED
      BY <1>3, <2>1 DEF Recursion
  <2> QED
    BY <2>1, <2>2
<1>5. f[0] = <<>>
  BY <1>1, <1>3 DEF Recursion
<1>6. f = [n \in 0 .. k |-> IF n = 0 THEN <<>> ELSE f[n - 1] \o ss[n]]
  BY <1>4, <1>5
<1>7. glued = [n \in 0 .. k |-> IF n = 0 THEN <<>> ELSE glued[n - 1] \o ss[n]]
  BY <1>6
<1> HIDE DEF glued
<1>10. glued[0] = <<>> /\ \A n \in 1 .. k : glued[n] = glued[n - 1] \o ss[n]
  <2>1. glued[0] = <<>>
    BY <1>1, <1>7
  <2>2. ASSUME NEW n \in 1 .. k PROVE glued[n] = glued[n - 1] \o ss[n]
    <3>1. n \in 0 .. k /\ n # 0
      BY <1>1
    <3> QED
      BY <1>7, <3>1
  <2> QED
    BY <2>1, <2>2
<1> DEFINE D == {n \in 0 .. k : glued[n] \in X}
<1>9. 0 .. k \subseteq D
  <2>1. 0 \in D
    BY <1>1, <1>10
  <2>2. ASSUME NEW n \in 1 .. k, n - 1 \in D PROVE n \in D
    BY <1>0, <1>1, <1>10, <2>2
  <2> HIDE DEF D
  <2> QED
    BY <1>1, <2>1, <2>2, IntervalInduction
<1>11. glued \in [0 .. k -> X]
  BY <1>7, <1>9
<1> QED
  BY <1>8, <1>10, <1>11 DEF X, k

(* What the first n come to does not depend on the others. *)
LEMMA GluedOfPrefix ==
  ASSUME NEW S, NEW ss \in Seq(Seq(S)), NEW tt \in Seq(Seq(S)), NEW m \in Nat,
         m <= Len(ss), m <= Len(tt), \A n \in 1 .. m : ss[n] = tt[n]
  PROVE  \A n \in 0 .. m : Glued(ss)[n] = Glued(tt)[n]
<1> DEFINE D == {n \in 0 .. m : Glued(ss)[n] = Glued(tt)[n]}
<1>1. /\ Glued(ss)[0] = <<>> /\ Glued(tt)[0] = <<>>
      /\ \A n \in 1 .. Len(ss) : Glued(ss)[n] = Glued(ss)[n - 1] \o ss[n]
      /\ \A n \in 1 .. Len(tt) : Glued(tt)[n] = Glued(tt)[n - 1] \o tt[n]
      /\ Len(ss) \in Nat /\ Len(tt) \in Nat
  BY GluedStep, ElementOfSeqSeq
<1>2. 0 \in D
  BY <1>1
<1>3. ASSUME NEW n \in 1 .. m, n - 1 \in D PROVE n \in D
  <2>1. n \in 1 .. Len(ss) /\ n \in 1 .. Len(tt) /\ n \in 0 .. m
    BY <1>1
  <2>2. Glued(ss)[n] = Glued(ss)[n - 1] \o ss[n] /\ Glued(tt)[n] = Glued(tt)[n - 1] \o tt[n]
    BY <1>1, <2>1
  <2> QED
    BY <1>3, <2>1, <2>2
<1> HIDE DEF D
<1>4. 0 .. m \subseteq D
  BY <1>2, <1>3, IntervalInduction
<1> QED
  BY <1>4 DEF D

LEMMA FlattenSeqIsGlued ==
  ASSUME NEW S, NEW ss \in Seq(Seq(S))
  PROVE  FlattenSeq(ss) = Glued(ss)[Len(ss)] /\ FlattenSeq(ss) \in Seq(S)
<1> DEFINE k == Len(ss)
           flat == CHOOSE g : g = [n \in 1 .. k |-> IF n = 1 THEN ss[n] ELSE g[n - 1] \o ss[n]]
           h == [n \in 1 .. k |-> Glued(ss)[n]]
<1>1. /\ k \in Nat /\ Glued(ss) \in [0 .. k -> Seq(S)] /\ Glued(ss)[0] = <<>>
      /\ \A n \in 1 .. k : Glued(ss)[n] = Glued(ss)[n - 1] \o ss[n] /\ ss[n] \in Seq(S)
  BY GluedStep, ElementOfSeqSeq
<1>2. CASE k = 0
  <2>1. ss = <<>>
    BY <1>2, EmptySeq
  <2>2. FlattenSeq(ss) = <<>>
    BY <1>2, <2>1 DEF FlattenSeq
  <2> QED
    BY <1>1, <1>2, <2>2
<1>3. CASE k # 0
  <2>1. FlattenSeq(ss) = flat[k]
    BY <1>3 DEF FlattenSeq
  <2> HIDE DEF k
  <2>2. ASSUME NEW n \in 1 .. k
        PROVE  h[n] = IF n = 1 THEN ss[n] ELSE h[n - 1] \o ss[n]
    <3>1. h[n] = Glued(ss)[n - 1] \o ss[n]
      BY <1>1 DEF k
    <3>2. CASE n = 1
      <4>1. <<>> \o ss[n] = ss[n]
        BY <1>1, ConcatEmptySeq
      <4>2. Glued(ss)[n - 1] = <<>>
        BY <1>1, <3>2
      <4>3. h[n] = ss[n]
        BY <3>1, <4>1, <4>2
      <4> HIDE DEF h
      <4> QED
        BY <3>2, <4>3
    <3>3. CASE n # 1
      <4>1. n - 1 \in 1 .. k
        BY <1>1, <3>3
      <4> QED
        BY <3>1, <3>3, <4>1
    <3> QED
      BY <3>2, <3>3
  <2>3. h = [n \in 1 .. k |-> IF n = 1 THEN ss[n] ELSE h[n - 1] \o ss[n]]
    BY <2>2
  <2> HIDE DEF h
  <2>4. flat = [n \in 1 .. k |-> IF n = 1 THEN ss[n] ELSE flat[n - 1] \o ss[n]]
    BY <2>3
  <2> HIDE DEF flat
  <2> DEFINE D == {n \in 0 .. k : n # 0 => flat[n] = Glued(ss)[n]}
  <2>5. 0 .. k \subseteq D
    <3>1. 0 \in D
      BY <1>1
    <3>2. ASSUME NEW n \in 1 .. k, n - 1 \in D PROVE n \in D
      <4>1. h[n] = Glued(ss)[n]
        BY DEF h
      <4>2. flat[n] = IF n = 1 THEN ss[n] ELSE flat[n - 1] \o ss[n]
        BY <2>4
      <4>3. CASE n = 1
        <5>1. h[n] = ss[n]
          BY <2>2, <4>3
        <5> QED
          BY <4>1, <4>2, <4>3, <5>1
      <4>4. CASE n # 1
        <5>1. n - 1 \in 1 .. k /\ n - 1 # 0
          BY <1>1, <4>4
        <5>2. flat[n - 1] = Glued(ss)[n - 1] /\ h[n - 1] = Glued(ss)[n - 1]
          BY <3>2, <5>1 DEF h
        <5>3. h[n] = h[n - 1] \o ss[n]
          BY <2>2, <4>4
        <5>4. n # 0 /\ flat[n] = Glued(ss)[n]
          <6>1. n # 0
            BY <1>1
          <6>2. flat[n] = Glued(ss)[n]
            BY <4>1, <4>2, <4>4, <5>2, <5>3
          <6> QED
            BY <6>1, <6>2
        <5> QED
          BY <1>1, <5>4
      <4> QED
        BY <4>3, <4>4
    <3> HIDE DEF D
    <3> QED
      BY <1>1, <3>1, <3>2, IntervalInduction
  <2>6. flat[k] = Glued(ss)[k]
    BY <1>1, <1>3, <2>5
  <2> QED
    BY <1>1, <2>1, <2>6 DEF k
<1> QED
  BY <1>2, <1>3

(* Where the next one stands, behind those before. *)
LEMMA GluedNext ==
  ASSUME NEW S, NEW ss \in Seq(Seq(S)), NEW j \in 1 .. Len(ss)
  PROVE  /\ Len(Glued(ss)[j - 1]) \in Nat /\ Len(ss[j]) \in Nat
         /\ Glued(ss)[j] \in Seq(S)
         /\ Len(Glued(ss)[j]) = Len(Glued(ss)[j - 1]) + Len(ss[j])
         /\ \A k \in 1 .. Len(Glued(ss)[j - 1]) : Glued(ss)[j][k] = Glued(ss)[j - 1][k]
         /\ \A k \in 1 .. Len(ss[j]) : Glued(ss)[j][Len(Glued(ss)[j - 1]) + k] = ss[j][k]
<1> DEFINE a == Glued(ss)[j - 1]
           b == ss[j]
<1>1. Glued(ss)[j] = a \o b /\ a \in Seq(S) /\ b \in Seq(S)
  <2>1. Len(ss) \in Nat /\ Glued(ss) \in [0 .. Len(ss) -> Seq(S)]
    BY GluedStep, ElementOfSeqSeq
  <2>2. j - 1 \in 0 .. Len(ss)
    BY <2>1
  <2>3. Glued(ss)[j] = a \o b /\ b \in Seq(S)
    BY GluedStep, ElementOfSeqSeq
  <2> QED
    BY <2>1, <2>2, <2>3
<1> HIDE DEF a, b
<1>2. /\ Len(a \o b) = Len(a) + Len(b) /\ Len(a) \in Nat /\ Len(b) \in Nat
      /\ a \o b \in Seq(S)
      /\ \A i \in 1 .. Len(a) + Len(b) : (a \o b)[i] = IF i <= Len(a) THEN a[i] ELSE b[i - Len(a)]
  BY <1>1, ConcatProperties, LenProperties
<1>3. /\ \A k \in 1 .. Len(a) : (a \o b)[k] = a[k]
      /\ \A k \in 1 .. Len(b) : (a \o b)[Len(a) + k] = b[k]
  <2>1. ASSUME NEW k \in 1 .. Len(a) PROVE (a \o b)[k] = a[k]
    BY <1>2, k \in 1 .. Len(a) + Len(b)
  <2>2. ASSUME NEW k \in 1 .. Len(b) PROVE (a \o b)[Len(a) + k] = b[k]
    <3>1. Len(a) + k \in 1 .. Len(a) + Len(b) /\ ~(Len(a) + k <= Len(a)) /\ Len(a) + k - Len(a) = k
      BY <1>2
    <3> QED
      BY <1>2, <3>1
  <2> QED
    BY <2>1, <2>2
<1> QED
  BY <1>1, <1>2, <1>3 DEF a, b

(* What is glued stands at its place in everything longer. *)
LEMMA GluedPlaces ==
  ASSUME NEW S, NEW ss \in Seq(Seq(S)), NEW j \in 0 .. Len(ss), NEW i \in 0 .. j
  PROVE  /\ Glued(ss)[i] \in Seq(S) /\ Glued(ss)[j] \in Seq(S)
         /\ Len(Glued(ss)[i]) \in Nat /\ Len(Glued(ss)[j]) \in Nat
         /\ Len(Glued(ss)[i]) <= Len(Glued(ss)[j])
         /\ \A k \in 1 .. Len(Glued(ss)[i]) : Glued(ss)[j][k] = Glued(ss)[i][k]
<1> DEFINE g == Glued(ss)
           D == {n \in 0 .. Len(ss) : i <= n =>
                   /\ Len(g[i]) <= Len(g[n])
                   /\ \A k \in 1 .. Len(g[i]) : g[n][k] = g[i][k]}
<1>1. Len(ss) \in Nat /\ \A n \in 0 .. Len(ss) : g[n] \in Seq(S)
  BY GluedStep, ElementOfSeqSeq
<1>2. \A n \in 0 .. Len(ss) : Len(g[n]) \in Nat
  BY <1>1, LenProperties
<1>3. \A n \in 1 .. Len(ss) :
        /\ Len(g[n - 1]) <= Len(g[n])
        /\ \A k \in 1 .. Len(g[n - 1]) : g[n][k] = g[n - 1][k]
  <2> SUFFICES ASSUME NEW n \in 1 .. Len(ss)
               PROVE  /\ Len(g[n - 1]) <= Len(g[n])
                      /\ \A k \in 1 .. Len(g[n - 1]) : g[n][k] = g[n - 1][k]
    OBVIOUS
  <2>1. /\ Len(g[n]) = Len(g[n - 1]) + Len(ss[n]) /\ Len(g[n - 1]) \in Nat /\ Len(ss[n]) \in Nat
        /\ \A k \in 1 .. Len(g[n - 1]) : g[n][k] = g[n - 1][k]
    BY GluedNext, ZenonT(30)
  <2>2. Len(g[n - 1]) <= Len(g[n])
    <3> DEFINE a == Len(g[n])
               b == Len(g[n - 1])
               c == Len(ss[n])
    <3>1. a = b + c /\ b \in Nat /\ c \in Nat
      BY <2>1
    <3> HIDE DEF a, b, c
    <3>2. b <= a
      BY <3>1
    <3> QED
      BY <3>2 DEF a, b
  <2> QED
    BY <2>1, <2>2
<1> HIDE DEF g
<1>4. i \in 0 .. Len(ss)
  BY <1>1
<1>5. 0 .. Len(ss) \subseteq D
  <2>1. 0 \in D
    BY <1>1, <1>2, <1>4
  <2>2. ASSUME NEW n \in 1 .. Len(ss), n - 1 \in D PROVE n \in D
    <3>1. CASE i <= n - 1
      <4>1. /\ Len(g[i]) <= Len(g[n - 1]) /\ Len(g[n - 1]) <= Len(g[n])
            /\ Len(g[i]) \in Nat /\ Len(g[n - 1]) \in Nat /\ Len(g[n]) \in Nat
        BY <1>2, <1>3, <1>4, <2>2, <3>1
      <4>2. ASSUME NEW k \in 1 .. Len(g[i]) PROVE g[n][k] = g[i][k]
        <5>1. k \in 1 .. Len(g[n - 1])
          BY <4>1
        <5>2. g[n][k] = g[n - 1][k]
          BY <1>3, <5>1
        <5> QED
          BY <2>2, <3>1, <5>2
      <4> QED
        BY <4>1, <4>2
    <3>2. CASE i > n - 1
      <4>1. i = n \/ i > n
        BY <3>2, <1>1
      <4> QED
        BY <1>1, <1>2, <4>1
    <3> QED
      BY <1>1, <3>1, <3>2
  <2> HIDE DEF D
  <2> QED
    BY <1>1, <2>1, <2>2, IntervalInduction
<1> QED
  BY <1>1, <1>2, <1>4, <1>5 DEF g
=============================================================================
