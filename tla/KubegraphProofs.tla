-------------------------- MODULE KubegraphProofs --------------------------
(***************************************************************************)
(* Theorems about the kubegraph VM: for any functions, the search for a    *)
(* plan is right; for any problems, connectors and types and any number of *)
(* changes and failures, what is in the database is owned by a loop, and   *)
(* what was solved reaches it.                                             *)
(***************************************************************************)
EXTENDS KubegraphVm, FiniteSetTheorems, SequenceTheorems, WellFoundedInduction, TLAPS

-----------------------------------------------------------------------------
(* A set of numbers has a least element. *)
LEMMA Least ==
  ASSUME NEW T \in SUBSET Nat, T # {}
  PROVE  \E n \in T : \A m \in T : n <= m
<1>1. PICK n \in T : \A m \in T : <<m, n>> \notin OpToRel(<, Nat)
  BY WFMin, NatLessThanWellFounded, Zenon
<1>2. \A m \in T : ~(m < n)
  BY <1>1, Zenon DEF OpToRel
<1>3. QED
  BY <1>2

(* Hence what holds of 0, and of n + 1 if it holds of n, holds of all numbers. *)
LEMMA Induction ==
  ASSUME NEW T, 0 \in T, \A n \in Nat : n \in T => n + 1 \in T
  PROVE  Nat \subseteq T
<1>1. SUFFICES ASSUME Nat \ T # {} PROVE FALSE
  OBVIOUS
<1>2. PICK n \in Nat \ T : \A m \in Nat \ T : n <= m
  BY <1>1, Least
<1>3. n # 0 /\ n - 1 \in Nat /\ ~(n <= n - 1)
  BY <1>2
<1>4. n - 1 \in T
  BY <1>2, <1>3
<1>5. n - 1 + 1 = n
  BY <1>3
<1>6. QED
  BY <1>2, <1>3, <1>4, <1>5

-----------------------------------------------------------------------------
(* The levels of the search: the recursive function in Travelled is one.     *)

Longer(fs, src, paths, n) ==
    {p \in Extensions(fs, src, paths) : ~Reaches(src, p) /\ (p[n] \in Final => n = 1)}

Levels(fs, src, k, g) ==
    g = [n \in 0 .. k |-> IF n = 0 THEN {<<>>} ELSE Longer(fs, src, g[n - 1], n)]

LEMMA LevelsExist ==
  ASSUME NEW fs, NEW src, NEW k \in Nat
  PROVE  \E g : Levels(fs, src, k, g)
<1> DEFINE T == {n \in Nat : \E g : Levels(fs, src, n, g)}
<1>1. 0 \in T
  <2> DEFINE g == [n \in 0 .. 0 |-> {<<>>}]
  <2>1. g = [n \in 0 .. 0 |-> IF n = 0 THEN {<<>>} ELSE Longer(fs, src, g[n - 1], n)]
    OBVIOUS
  <2>2. Levels(fs, src, 0, g)
    BY <2>1 DEF Levels
  <2>3. QED
    BY <2>2
<1>2. ASSUME NEW m \in Nat, m \in T PROVE m + 1 \in T
  <2>1. PICK g : Levels(fs, src, m, g)
    BY <1>2
  <2>2. \A n \in 0 .. m : g[n] = IF n = 0 THEN {<<>>} ELSE Longer(fs, src, g[n - 1], n)
    BY <2>1 DEF Levels
  <2> DEFINE h == [n \in 0 .. m + 1 |-> IF n = m + 1 THEN Longer(fs, src, g[m], n) ELSE g[n]]
  <2>3. \A n \in 0 .. m + 1 : h[n] = IF n = m + 1 THEN Longer(fs, src, g[m], n) ELSE g[n]
    OBVIOUS
  <2>4. h = [n \in 0 .. m + 1 |-> h[n]]
    OBVIOUS
  <2> HIDE DEF h
  <2>5. ASSUME NEW n \in 0 .. m + 1
        PROVE  h[n] = IF n = 0 THEN {<<>>} ELSE Longer(fs, src, h[n - 1], n)
    <3>1. CASE n = 0
      BY <2>2, <2>3, <3>1
    <3>2. CASE n # 0
      <4>1. n - 1 \in 0 .. m /\ h[n - 1] = g[n - 1]
        BY <2>3, <3>2
      <4>2. h[n] = Longer(fs, src, g[n - 1], n)
        <5>1. CASE n = m + 1
          BY <2>3, <5>1
        <5>2. CASE n # m + 1
          BY <2>2, <2>3, <3>2, <5>2
        <5>3. QED
          BY <5>1, <5>2
      <4>3. QED
        BY <3>2, <4>1, <4>2
    <3>3. QED
      BY <3>1, <3>2
  <2>6. h = [n \in 0 .. m + 1 |-> IF n = 0 THEN {<<>>} ELSE Longer(fs, src, h[n - 1], n)]
    BY <2>4, <2>5
  <2>7. QED
    BY <2>6 DEF Levels
<1>3. Nat \subseteq T
  <2> HIDE DEF T
  <2>1. QED
    BY <1>1, <1>2, Induction
<1>4. QED
  BY <1>3

LEMMA TravelledIs ==
  ASSUME NEW fs, NEW src, IsFiniteSet(fs), NEW n \in 0 .. Cardinality(fs)
  PROVE  Travelled(fs, src)[n] =
            IF n = 0 THEN {<<>>} ELSE Longer(fs, src, Travelled(fs, src)[n - 1], n)
<1>1. Cardinality(fs) \in Nat
  BY FS_CardinalityType
<1>2. PICK g : Levels(fs, src, Cardinality(fs), g)
  BY <1>1, LevelsExist
<1>3. Travelled(fs, src) = CHOOSE h : Levels(fs, src, Cardinality(fs), h)
  BY Zenon DEF Travelled, Levels, Longer
<1>4. Levels(fs, src, Cardinality(fs), Travelled(fs, src))
  BY <1>2, <1>3, Zenon
<1>5. QED
  BY <1>4 DEF Levels

-----------------------------------------------------------------------------
(* Paths.  Given is what Features says of a path, of the set of its functions. *)

Given(src, fs) == src \union UNION {Outputs(f) : f \in fs}
Before(p, i) == {p[j] : j \in 1 .. i - 1}

Walk(src, p) ==
    /\ \A i \in 1 .. Len(p) : Requirements[p[i]] \subseteq Given(src, Before(p, i))
    /\ \A i, j \in 1 .. Len(p) : p[i] = p[j] => i = j

LEMMA ElementsIs ==
  ASSUME NEW S, NEW p \in Seq(S)
  PROVE  Elements(p) = Before(p, Len(p) + 1) /\ Elements(p) \subseteq S
<1>1. DOMAIN p = 1 .. Len(p) /\ Len(p) \in Nat /\ \A i \in 1 .. Len(p) : p[i] \in S
  BY LenProperties, ElementOfSeq
<1>2. Len(p) + 1 - 1 = Len(p)
  BY <1>1
<1>3. QED
  BY <1>1, <1>2 DEF Elements, Before

(* The first n functions of a path. *)
LEMMA PrefixIs ==
  ASSUME NEW S, NEW p \in Seq(S), NEW n \in 0 .. Len(p)
  PROVE  /\ SubSeq(p, 1, n) \in Seq(S)
         /\ Len(SubSeq(p, 1, n)) = n
         /\ \A i \in 1 .. n : SubSeq(p, 1, n)[i] = p[i]
         /\ Elements(SubSeq(p, 1, n)) = Before(p, n + 1)
<1>1. Len(p) \in Nat /\ n \in Nat
  BY LenProperties
<1>2. \A i \in 1 .. n : p[i] \in S
  BY <1>1, ElementOfSeq
<1>3. /\ SubSeq(p, 1, n) \in Seq(S)
      /\ Len(SubSeq(p, 1, n)) = n
  BY <1>1, <1>2, SubSeqProperties
<1>4. ASSUME NEW i \in 1 .. n PROVE SubSeq(p, 1, n)[i] = p[i]
  <2>1. i \in 1 .. n - 1 + 1 /\ 1 + i - 1 = i
    BY <1>1
  <2>2. SubSeq(p, 1, n)[i] = p[1 + i - 1]
    BY <1>1, <1>2, <2>1, SubSeqProperties
  <2>3. QED
    BY <2>1, <2>2
<1>5. Elements(SubSeq(p, 1, n)) = Before(SubSeq(p, 1, n), n + 1)
  BY <1>3, ElementsIs
<1>6. n + 1 - 1 = n
  BY <1>1
<1>7. Before(SubSeq(p, 1, n), n + 1) = Before(p, n + 1)
  BY <1>4, <1>6 DEF Before
<1>8. QED
  BY <1>3, <1>4, <1>5, <1>7

LEMMA FeaturesIs ==
  ASSUME NEW S, NEW src, NEW p \in Seq(S)
  PROVE  Features(src, p) = Given(src, Before(p, Len(p) + 1))
BY ElementsIs, Zenon DEF Features, Given

LEMMA FeaturesBefore ==
  ASSUME NEW S, NEW src, NEW p \in Seq(S), NEW i \in 1 .. Len(p)
  PROVE  Features(src, SubSeq(p, 1, i - 1)) = Given(src, Before(p, i))
<1>1. i - 1 \in 0 .. Len(p) /\ i - 1 + 1 = i
  BY LenProperties
<1>2. Elements(SubSeq(p, 1, i - 1)) = Before(p, i)
  BY <1>1, PrefixIs
<1>3. QED
  BY <1>2, Zenon DEF Features, Given

(* One more function on a path. *)
LEMMA AppendIs ==
  ASSUME NEW S, NEW p \in Seq(S), NEW f \in S
  PROVE  /\ Append(p, f) \in Seq(S)
         /\ Len(Append(p, f)) = Len(p) + 1
         /\ \A i \in 1 .. Len(p) : Append(p, f)[i] = p[i]
         /\ Append(p, f)[Len(p) + 1] = f
         /\ \A i \in 1 .. Len(p) + 1 : Before(Append(p, f), i) = Before(p, i)
         /\ Elements(Append(p, f)) = Elements(p) \union {f}
<1>1. Len(p) \in Nat
  BY LenProperties
<1>2. /\ Append(p, f) \in Seq(S)
      /\ Len(Append(p, f)) = Len(p) + 1
      /\ \A i \in 1 .. Len(p) : Append(p, f)[i] = p[i]
      /\ Append(p, f)[Len(p) + 1] = f
  BY AppendProperties
<1>3. ASSUME NEW i \in 1 .. Len(p) + 1 PROVE Before(Append(p, f), i) = Before(p, i)
  <2>1. \A j \in 1 .. i - 1 : Append(p, f)[j] = p[j]
    BY <1>1, <1>2
  <2>2. QED
    BY <2>1 DEF Before
<1>4. DOMAIN p = 1 .. Len(p) /\ DOMAIN Append(p, f) = 1 .. Len(p) + 1
  BY <1>2, LenProperties
<1>5. 1 .. Len(p) + 1 = (1 .. Len(p)) \union {Len(p) + 1}
  BY <1>1
<1>6. Elements(Append(p, f)) = Elements(p) \union {f}
  BY <1>2, <1>4, <1>5 DEF Elements
<1>7. QED
  BY <1>2, <1>3, <1>6

LEMMA WalkGrows ==
  ASSUME NEW S, NEW src, NEW p \in Seq(S), NEW f \in S, Walk(src, p),
         f \notin Elements(p), Requirements[f] \subseteq Features(src, p)
  PROVE  Walk(src, Append(p, f))
<1>1. Len(p) \in Nat
  BY LenProperties
<1> DEFINE q == Append(p, f)
<1>2. /\ Len(q) = Len(p) + 1
      /\ \A i \in 1 .. Len(p) : q[i] = p[i]
      /\ q[Len(p) + 1] = f
      /\ \A i \in 1 .. Len(p) + 1 : Before(q, i) = Before(p, i)
  BY AppendIs
<1> HIDE DEF q
<1>3. ASSUME NEW i \in 1 .. Len(p) + 1 PROVE Requirements[q[i]] \subseteq Given(src, Before(q, i))
  <2>1. CASE i = Len(p) + 1
    BY <1>2, <2>1, FeaturesIs
  <2>2. CASE i \in 1 .. Len(p)
    BY <1>2, <2>2 DEF Walk
  <2>3. QED
    BY <1>1, <2>1, <2>2
<1>4. \A i \in 1 .. Len(p) : p[i] # f
  <2>1. Elements(p) = Before(p, Len(p) + 1) /\ Len(p) + 1 - 1 = Len(p)
    BY <1>1, ElementsIs
  <2>2. QED
    BY <2>1 DEF Before
<1>5. \A i, j \in 1 .. Len(p) + 1 : q[i] = q[j] => i = j
  BY <1>1, <1>2, <1>4 DEF Walk
<1>6. QED
  BY <1>2, <1>3, <1>5 DEF Walk, q

LEMMA WalkPrefix ==
  ASSUME NEW S, NEW src, NEW p \in Seq(S), Walk(src, p), NEW n \in 0 .. Len(p)
  PROVE  Walk(src, SubSeq(p, 1, n))
<1>1. Len(p) \in Nat /\ n \in Nat
  BY LenProperties
<1> DEFINE q == SubSeq(p, 1, n)
<1>2. Len(q) = n /\ \A i \in 1 .. n : q[i] = p[i]
  BY PrefixIs
<1> HIDE DEF q
<1>3. \A i \in 1 .. n : Before(q, i) = Before(p, i)
  BY <1>1, <1>2 DEF Before
<1>4. QED
  BY <1>1, <1>2, <1>3 DEF Walk, q

(* A path is no longer than there are functions. *)
LEMMA WalkLength ==
  ASSUME NEW fs, IsFiniteSet(fs), NEW src, NEW p \in Seq(fs), Walk(src, p)
  PROVE  Len(p) <= Cardinality(fs)
<1>1. Len(p) \in Nat /\ p \in [1 .. Len(p) -> fs]
  BY LenProperties
<1>2. p \in Injection(1 .. Len(p), fs)
  BY <1>1 DEF Walk, Injection, IsInjective
<1>3. Cardinality(1 .. Len(p)) <= Cardinality(fs)
  BY <1>2, FS_Injection
<1>4. Cardinality(1 .. Len(p)) = Len(p)
  BY <1>1, FS_Interval
<1>5. QED
  BY <1>3, <1>4

-----------------------------------------------------------------------------
(* What is in a level of the search. *)

OnLevel(fs, src, n, p) ==
    /\ p \in Seq(fs) /\ Len(p) = n
    /\ Walk(src, p)
    /\ \A i \in 1 .. n : p[i] \in Final => i = 1

LEMMA ExtensionsAre ==
  ASSUME NEW fs, NEW src, NEW n \in Nat, NEW paths, NEW q \in Extensions(fs, src, paths),
         \A p \in paths : OnLevel(fs, src, n, p)
  PROVE  /\ q \in Seq(fs) /\ Len(q) = n + 1
         /\ Walk(src, q)
         /\ \A i \in 1 .. n : q[i] \in Final => i = 1
<1>1. PICK pf \in paths \X fs : /\ q = Append(pf[1], pf[2])
                               /\ pf[2] \notin Elements(pf[1])
                               /\ Requirements[pf[2]] \subseteq Features(src, pf[1])
  BY DEF Extensions
<1>2. pf[1] \in paths /\ pf[2] \in fs
  OBVIOUS
<1>3. /\ pf[1] \in Seq(fs) /\ Len(pf[1]) = n /\ Walk(src, pf[1])
      /\ \A i \in 1 .. n : pf[1][i] \in Final => i = 1
  BY <1>2 DEF OnLevel
<1>4. Walk(src, q)
  BY <1>1, <1>2, <1>3, WalkGrows
<1>5. q \in Seq(fs) /\ Len(q) = n + 1 /\ \A i \in 1 .. n : q[i] = pf[1][i]
  BY <1>1, <1>2, <1>3, AppendIs
<1>6. QED
  BY <1>3, <1>4, <1>5

LEMMA TravelledAre ==
  ASSUME NEW fs, NEW src, IsFiniteSet(fs), NEW n \in 0 .. Cardinality(fs),
         NEW p \in Travelled(fs, src)[n]
  PROVE  OnLevel(fs, src, n, p)
<1> DEFINE T == {k \in Nat : k <= Cardinality(fs) =>
                    \A q \in Travelled(fs, src)[k] : OnLevel(fs, src, k, q)}
<1>1. Cardinality(fs) \in Nat
  BY FS_CardinalityType
<1>2. 0 \in T
  <2>1. Travelled(fs, src)[0] = {<<>>}
    BY <1>1, TravelledIs
  <2>2. OnLevel(fs, src, 0, <<>>)
    BY EmptySeq DEF OnLevel, Walk
  <2>3. QED
    BY <2>1, <2>2
<1>3. ASSUME NEW k \in Nat, k \in T PROVE k + 1 \in T
  <2>1. SUFFICES ASSUME k + 1 <= Cardinality(fs), NEW q \in Travelled(fs, src)[k + 1]
                 PROVE  OnLevel(fs, src, k + 1, q)
    OBVIOUS
  <2>2. k <= Cardinality(fs) /\ k + 1 \in 0 .. Cardinality(fs) /\ k + 1 # 0 /\ k + 1 - 1 = k
    BY <1>1, <2>1
  <2>3. q \in Longer(fs, src, Travelled(fs, src)[k], k + 1)
    BY <2>2, TravelledIs
  <2>4. \A r \in Travelled(fs, src)[k] : OnLevel(fs, src, k, r)
    BY <1>3, <2>2
  <2>5. q \in Extensions(fs, src, Travelled(fs, src)[k]) /\ (q[k + 1] \in Final => k + 1 = 1)
    BY <2>3 DEF Longer
  <2>6. /\ q \in Seq(fs) /\ Len(q) = k + 1 /\ Walk(src, q)
        /\ \A i \in 1 .. k : q[i] \in Final => i = 1
    BY <2>4, <2>5, ExtensionsAre
  <2>7. \A i \in 1 .. k + 1 : q[i] \in Final => i = 1
    BY <2>5, <2>6
  <2>8. QED
    BY <2>6, <2>7 DEF OnLevel
<1>4. Nat \subseteq T
  <2> HIDE DEF T
  <2>1. QED
    BY <1>2, <1>3, Induction
<1>5. n \in T /\ n <= Cardinality(fs)
  BY <1>1, <1>4
<1>6. QED
  BY <1>5

LEMMA ExtensionsHave ==
  ASSUME NEW fs, NEW src, NEW q \in Seq(fs), Walk(src, q), NEW m \in 1 .. Len(q), NEW paths,
         SubSeq(q, 1, m - 1) \in paths
  PROVE  SubSeq(q, 1, m) \in Extensions(fs, src, paths)
<1>1. Len(q) \in Nat /\ m \in Nat /\ m - 1 \in 0 .. Len(q) /\ m \in 0 .. Len(q)
  BY LenProperties
<1> DEFINE p == SubSeq(q, 1, m - 1)
<1>2. q[m] \in fs /\ p \in Seq(fs) /\ Len(p) = m - 1 /\ \A i \in 1 .. m - 1 : p[i] = q[i]
  BY <1>1, ElementOfSeq, PrefixIs
<1>3. Elements(p) = Before(q, m)
  <2>1. m - 1 + 1 = m
    BY <1>1
  <2>2. QED
    BY <1>1, <2>1, PrefixIs
<1>4. q[m] \notin Elements(p)
  <2>1. \A j \in 1 .. m - 1 : q[j] # q[m]
    BY <1>1 DEF Walk
  <2>2. QED
    BY <1>3, <2>1 DEF Before
<1>5. Requirements[q[m]] \subseteq Features(src, p)
  BY FeaturesBefore DEF Walk
<1>6. SubSeq(q, 1, m) = Append(p, q[m])
  <2>1. SubSeq(q, 1, m) \in Seq(fs) /\ Len(SubSeq(q, 1, m)) = m /\ \A i \in 1 .. m : SubSeq(q, 1, m)[i] = q[i]
    BY <1>1, PrefixIs
  <2> HIDE DEF p
  <2>2. /\ Append(p, q[m]) \in Seq(fs) /\ Len(Append(p, q[m])) = m
        /\ \A i \in 1 .. m - 1 : Append(p, q[m])[i] = q[i]
        /\ Append(p, q[m])[m] = q[m]
    <3>1. Len(p) + 1 = m
      BY <1>1, <1>2
    <3>2. QED
      BY <1>2, <3>1, AppendIs
  <2>3. \A i \in 1 .. m : SubSeq(q, 1, m)[i] = Append(p, q[m])[i]
    BY <1>1, <2>1, <2>2
  <2>4. QED
    BY <2>1, <2>2, <2>3, SeqEqual
<1>7. <<p, q[m]>> \in paths \X fs /\ <<p, q[m]>>[1] = p /\ <<p, q[m]>>[2] = q[m]
  BY <1>2
<1> HIDE DEF p
<1>8. Append(p, q[m]) \in Extensions(fs, src, paths)
  BY <1>4, <1>5, <1>7 DEF Extensions
<1>9. QED
  BY <1>6, <1>8

LEMMA TravelledHave ==
  ASSUME NEW fs, NEW src, IsFiniteSet(fs), NEW q \in Seq(fs), Walk(src, q), NEW m \in 0 .. Len(q),
         \A k \in 1 .. m : ~Reaches(src, SubSeq(q, 1, k)) /\ (q[k] \in Final => k = 1)
  PROVE  SubSeq(q, 1, m) \in Travelled(fs, src)[m]
<1> DEFINE T == {k \in Nat : k <= m => SubSeq(q, 1, k) \in Travelled(fs, src)[k]}
<1>1. Cardinality(fs) \in Nat /\ Len(q) \in Nat /\ Len(q) <= Cardinality(fs) /\ m \in Nat
  BY FS_CardinalityType, LenProperties, WalkLength
<1>2. 0 \in T
  <2>1. Travelled(fs, src)[0] = {<<>>}
    BY <1>1, TravelledIs
  <2>2. SubSeq(q, 1, 0) = <<>>
    BY SubSeqEmpty
  <2>3. QED
    BY <2>1, <2>2
<1>3. ASSUME NEW k \in Nat, k \in T PROVE k + 1 \in T
  <2>1. SUFFICES ASSUME k + 1 <= m PROVE SubSeq(q, 1, k + 1) \in Travelled(fs, src)[k + 1]
    OBVIOUS
  <2>2. /\ k <= m /\ k + 1 \in 1 .. m /\ k + 1 \in 1 .. Len(q)
        /\ k + 1 \in 0 .. Cardinality(fs) /\ k + 1 # 0 /\ k + 1 - 1 = k
    BY <1>1, <2>1
  <2>3. SubSeq(q, 1, k + 1 - 1) \in Travelled(fs, src)[k]
    BY <1>3, <2>2
  <2>4. SubSeq(q, 1, k + 1) \in Extensions(fs, src, Travelled(fs, src)[k])
    BY <2>2, <2>3, ExtensionsHave
  <2>5. SubSeq(q, 1, k + 1)[k + 1] = q[k + 1]
    <3>1. k + 1 \in 0 .. Len(q) /\ k + 1 \in 1 .. k + 1
      BY <1>1, <2>2
    <3>2. QED
      BY <3>1, PrefixIs
  <2>6. SubSeq(q, 1, k + 1) \in Longer(fs, src, Travelled(fs, src)[k], k + 1)
    BY <2>2, <2>4, <2>5 DEF Longer
  <2>7. QED
    BY <2>2, <2>6, TravelledIs
<1>4. Nat \subseteq T
  <2> HIDE DEF T
  <2>1. QED
    BY <1>2, <1>3, Induction
<1>5. m \in T /\ m <= m
  BY <1>1, <1>4
<1>6. QED
  BY <1>5

-----------------------------------------------------------------------------
(* Paths of one length are well ordered. *)

Agree(p, q, k) == \A j \in 1 .. k : p[j] = q[j]
Smaller(p, q, i) == p[i] < q[i] /\ Agree(p, q, i - 1)

LEMMA FirstPath ==
  ASSUME NEW n \in Nat, NEW S, S \subseteq Seq(Nat), S # {}, \A p \in S : Len(p) = n
  PROVE  \E p \in S : \A q \in S : Precedes(p, q)
<1> DEFINE First(p, k) == \A q \in S : Agree(p, q, k) \/ \E i \in 1 .. k : Smaller(p, q, i)
           T == {k \in Nat : k <= n => \E p \in S : First(p, k)}
<1>1. 0 \in T
  BY DEF Agree
<1>2. ASSUME NEW k \in Nat, k \in T PROVE k + 1 \in T
  <2>1. SUFFICES ASSUME k + 1 <= n PROVE \E p \in S : First(p, k + 1)
    OBVIOUS
  <2>2. PICK p \in S : First(p, k)
    BY <1>2, <2>1
  <2>3. PICK V : V = {q[k + 1] : q \in {q \in S : Agree(p, q, k)}}
    OBVIOUS
  <2>4. \A q \in S : q[k + 1] \in Nat
    <3>1. ASSUME NEW q \in S PROVE q[k + 1] \in Nat
      <4>1. q \in Seq(Nat) /\ k + 1 \in 1 .. Len(q)
        BY <2>1
      <4>2. QED
        BY <4>1, ElementOfSeq
    <3>2. QED
      BY <3>1
  <2>5. V \in SUBSET Nat /\ V # {}
    <3>1. Agree(p, p, k)
      BY DEF Agree
    <3>2. QED
      BY <2>3, <2>4, <3>1
  <2>6. PICK v \in V : \A w \in V : v <= w
    BY <2>5, Least
  <2>7. PICK r \in S : Agree(p, r, k) /\ r[k + 1] = v
    BY <2>3, <2>6
  <2>8. ASSUME NEW q \in S PROVE Agree(r, q, k + 1) \/ \E i \in 1 .. k + 1 : Smaller(r, q, i)
    <3>1. CASE Agree(p, q, k)
      <4>1. v <= q[k + 1] /\ v \in Nat /\ q[k + 1] \in Nat
        BY <2>3, <2>4, <2>5, <2>6, <3>1
      <4>2. Agree(r, q, k)
        BY <2>7, <3>1 DEF Agree
      <4>3. CASE v = q[k + 1]
        BY <2>7, <4>2, <4>3 DEF Agree
      <4>4. CASE v < q[k + 1]
        <5>1. k + 1 - 1 = k /\ k + 1 \in 1 .. k + 1
          OBVIOUS
        <5>2. Smaller(r, q, k + 1)
          BY <2>7, <4>2, <4>4, <5>1 DEF Smaller
        <5>3. QED
          BY <5>1, <5>2
      <4>5. QED
        BY <4>1, <4>3, <4>4
    <3>2. CASE \E i \in 1 .. k : Smaller(p, q, i)
      <4>1. PICK i \in 1 .. k : Smaller(p, q, i)
        BY <3>2
      <4>2. Smaller(r, q, i)
        BY <2>7, <4>1 DEF Smaller, Agree
      <4>3. i \in 1 .. k + 1
        OBVIOUS
      <4>4. QED
        BY <4>2, <4>3
    <3>3. QED
      BY <2>2, <3>1, <3>2
  <2>9. First(r, k + 1)
    BY <2>8
  <2>10. QED
    BY <2>9
<1>3. n \in T
  <2> HIDE DEF T
  <2>1. QED
    BY <1>1, <1>2, Induction
<1>4. PICK p \in S : First(p, n)
  BY <1>3
<1>5. ASSUME NEW q \in S PROVE Precedes(p, q)
  <2>1. p \in Seq(Nat) /\ q \in Seq(Nat) /\ Len(p) = n /\ Len(q) = n /\ DOMAIN p = 1 .. n
    BY LenProperties
  <2>2. CASE Agree(p, q, n)
    <3>1. p = q
      BY <2>1, <2>2, SeqEqual DEF Agree
    <3>2. QED
      BY <3>1 DEF Precedes
  <2>3. CASE \E i \in 1 .. n : Smaller(p, q, i)
    BY <2>1, <2>3 DEF Smaller, Agree, Precedes
  <2>4. QED
    BY <1>4, <2>2, <2>3
<1>6. QED
  BY <1>5

-----------------------------------------------------------------------------
(* The search returns the first of the paths that reach the sink.            *)

FoundIn(fs, src, n) ==
    {p \in Extensions(fs, src, Travelled(fs, src)[n - 1]) : Reaches(src, p)}
Lengths(fs, src) == {n \in 1 .. Cardinality(fs) : FoundIn(fs, src, n) # {}}
Shortest(fs, src) ==
    CHOOSE n \in Lengths(fs, src) : \A m \in Lengths(fs, src) : n <= m

LEMMA FoundAre ==
  ASSUME NEW fs, NEW src, IsFiniteSet(fs), NEW n \in 1 .. Cardinality(fs),
         NEW p \in FoundIn(fs, src, n)
  PROVE  /\ p \in Seq(fs) /\ Len(p) = n
         /\ Walk(src, p) /\ Reaches(src, p)
         /\ \A i \in 1 .. n : p[i] \in Final => i \in {1, n}
<1>1. PICK k \in Nat : k = n - 1 /\ n = k + 1 /\ k \in 0 .. Cardinality(fs)
  BY FS_CardinalityType
<1>2. p \in Extensions(fs, src, Travelled(fs, src)[k]) /\ Reaches(src, p)
  BY <1>1 DEF FoundIn
<1>3. \A r \in Travelled(fs, src)[k] : OnLevel(fs, src, k, r)
  BY <1>1, TravelledAre
<1>4. /\ p \in Seq(fs) /\ Len(p) = n /\ Walk(src, p)
      /\ \A i \in 1 .. k : p[i] \in Final => i = 1
  BY <1>1, <1>2, <1>3, ExtensionsAre
<1>5. \A i \in 1 .. n : p[i] \in Final => i \in {1, n}
  BY <1>1, <1>4
<1>6. QED
  BY <1>2, <1>4, <1>5

LEMMA ShortestIs ==
  ASSUME NEW fs, NEW src, IsFiniteSet(fs), Lengths(fs, src) # {}
  PROVE  /\ Shortest(fs, src) \in Lengths(fs, src)
         /\ \A m \in Lengths(fs, src) : Shortest(fs, src) <= m
<1>1. Lengths(fs, src) \in SUBSET Nat
  BY FS_CardinalityType DEF Lengths
<1>2. \E n \in Lengths(fs, src) : \A m \in Lengths(fs, src) : n <= m
  BY <1>1, Least
<1>3. QED
  BY <1>2, Zenon DEF Shortest

LEMMA PipelineIs ==
  ASSUME NEW fs \in SUBSET Function, NEW src
  PROVE  /\ IsFiniteSet(fs)
         /\ Sink \subseteq src \/ Lengths(fs, src) = {} => BuildPipeline(fs, src) = <<>>
         /\ ~(Sink \subseteq src) /\ Lengths(fs, src) # {} =>
                BuildPipeline(fs, src) \in FoundIn(fs, src, Shortest(fs, src))
<1>1. IsFiniteSet(fs) /\ fs \subseteq Nat
  BY DependencyAssumption, FS_Subset
<1> DEFINE S == FoundIn(fs, src, Shortest(fs, src))
<1>2. BuildPipeline(fs, src) =
        IF Sink \subseteq src \/ Lengths(fs, src) = {} THEN <<>>
        ELSE CHOOSE p \in S : \A q \in S : Precedes(p, q)
  BY Zenon DEF BuildPipeline, FoundIn, Lengths, Shortest
<1>3. ASSUME Lengths(fs, src) # {} PROVE \E p \in S : \A q \in S : Precedes(p, q)
  <2>1. Shortest(fs, src) \in 1 .. Cardinality(fs) /\ S # {}
    BY <1>1, <1>3, ShortestIs DEF Lengths
  <2>2. ASSUME NEW p \in S PROVE p \in Seq(fs) /\ Len(p) = Shortest(fs, src)
    <3>1. Shortest(fs, src) \in 1 .. Cardinality(fs)
      BY <2>1
    <3>2. QED
      BY <1>1, <3>1, FoundAre
  <2> HIDE DEF S
  <2>3. S \subseteq Seq(Nat)
    BY <1>1, <2>2, SeqMonotonic
  <2>4. Shortest(fs, src) \in Nat
    BY <1>1, <2>1, FS_CardinalityType
  <2>5. QED
    BY <2>1, <2>2, <2>3, <2>4, FirstPath
<1> HIDE DEF S
<1>4. Lengths(fs, src) # {} => (CHOOSE p \in S : \A q \in S : Precedes(p, q)) \in S
  BY <1>3, Zenon
<1>5. QED
  BY <1>1, <1>2, <1>4, Zenon DEF S

LEMMA WalkIsPlan ==
  ASSUME NEW S, NEW src, NEW p \in Seq(S), Walk(src, p), Reaches(src, p),
         \A i \in 1 .. Len(p) : p[i] \in Final => i \in {1, Len(p)}
  PROVE  IsPlan(src, p)
<1>1. DOMAIN p = 1 .. Len(p)
  BY LenProperties
<1>2. \A i \in 1 .. Len(p) : Requirements[p[i]] \subseteq Features(src, SubSeq(p, 1, i - 1))
  BY FeaturesBefore DEF Walk
<1>3. QED
  BY <1>1, <1>2 DEF IsPlan, Walk

(* What the search returns is a plan over the functions it is given. *)
LEMMA PipelineIsPlan ==
  ASSUME NEW fs \in SUBSET Function, NEW src, BuildPipeline(fs, src) # <<>>
  PROVE  BuildPipeline(fs, src) \in Seq(fs) /\ IsPlan(src, BuildPipeline(fs, src))
<1> DEFINE p == BuildPipeline(fs, src)
           n == Shortest(fs, src)
<1>1. /\ IsFiniteSet(fs) /\ ~(Sink \subseteq src) /\ Lengths(fs, src) # {}
      /\ p \in FoundIn(fs, src, n)
  BY PipelineIs
<1>2. n \in 1 .. Cardinality(fs)
  BY <1>1, ShortestIs DEF Lengths
<1> HIDE DEF p, n
<1>3. /\ p \in Seq(fs) /\ Len(p) = n
      /\ Walk(src, p) /\ Reaches(src, p)
      /\ \A i \in 1 .. n : p[i] \in Final => i \in {1, n}
  BY <1>1, <1>2, FoundAre
<1>4. IsPlan(src, p)
  BY <1>3, WalkIsPlan
<1>5. QED
  BY <1>3, <1>4 DEF p

(* The search finds a plan if there is one, and none that is longer. *)
LEMMA PipelineIsShortest ==
  ASSUME NEW fs \in SUBSET Function, NEW src, ~(Sink \subseteq src),
         NEW q \in Seq(fs), IsPlan(src, q)
  PROVE  BuildPipeline(fs, src) # <<>> /\ Len(BuildPipeline(fs, src)) <= Len(q)
<1>0. Len(q) \in Nat
  BY LenProperties
<1>1. IsFiniteSet(fs) /\ Cardinality(fs) \in Nat /\ Len(q) \in Nat /\ DOMAIN q = 1 .. Len(q)
  BY PipelineIs, FS_CardinalityType, LenProperties
<1>2. Walk(src, q)
  <2>1. \A i \in 1 .. Len(q) : Requirements[q[i]] \subseteq Given(src, Before(q, i))
    BY <1>1, FeaturesBefore DEF IsPlan
  <2>2. QED
    BY <1>1, <2>1 DEF IsPlan, Walk
<1>3. Len(q) <= Cardinality(fs)
  BY <1>1, <1>2, WalkLength
<1> DEFINE Ends == {k \in 0 .. Len(q) : Reaches(src, SubSeq(q, 1, k))}
<1>4. PICK m \in Ends : \A k \in Ends : m <= k
  <2>1. Len(q) \in Ends
    <3>1. SubSeq(q, 1, Len(q)) = q
      BY SubSeqFull
    <3>2. Reaches(src, q)
      BY DEF IsPlan
    <3>3. Len(q) \in 0 .. Len(q)
      BY <1>0
    <3>4. QED
      BY <3>1, <3>2, <3>3, Zenon
  <2>2. Ends \in SUBSET Nat
    BY <1>1
  <2>3. QED
    BY <2>1, <2>2, Least
<1>a. m \in 0 .. Len(q) /\ Reaches(src, SubSeq(q, 1, m))
  OBVIOUS
<1>b. \A k \in 0 .. Len(q) : Reaches(src, SubSeq(q, 1, k)) => m <= k
  BY <1>4
<1> HIDE DEF Ends
<1>5. m # 0
  <2>1. SubSeq(q, 1, 0) = <<>> /\ Elements(<<>>) = {}
    BY SubSeqEmpty DEF Elements
  <2>2. ~Reaches(src, <<>>)
    BY <2>1, Zenon DEF Reaches, Features
  <2>3. QED
    BY <1>a, <2>1, <2>2
<1>6. m \in 1 .. Len(q) /\ m - 1 \in 0 .. Len(q) /\ m \in 1 .. Cardinality(fs)
  BY <1>1, <1>a, <1>3, <1>5
<1>7. ASSUME NEW k \in 1 .. m - 1 PROVE ~Reaches(src, SubSeq(q, 1, k)) /\ (q[k] \in Final => k = 1)
  <2>1. k \in 0 .. Len(q) /\ ~(m <= k) /\ k \in 1 .. Len(q) /\ k # Len(q)
    <3>1. m \in Nat /\ m <= Len(q) /\ k \in Nat /\ 1 <= k /\ k <= m - 1
      BY <1>0, <1>6
    <3>2. QED
      BY <1>0, <3>1
  <2>2. ~Reaches(src, SubSeq(q, 1, k))
    BY <1>b, <2>1
  <2>3. q[k] \in Final => k = 1
    BY <1>1, <2>1 DEF IsPlan
  <2>4. QED
    BY <2>1, <2>2, <2>3
<1>8. SubSeq(q, 1, m - 1) \in Travelled(fs, src)[m - 1]
  BY <1>1, <1>2, <1>6, <1>7, TravelledHave
<1>9. SubSeq(q, 1, m) \in FoundIn(fs, src, m)
  BY <1>2, <1>a, <1>6, <1>8, ExtensionsHave DEF FoundIn
<1>10. m \in Lengths(fs, src)
  BY <1>6, <1>9 DEF Lengths
<1>11. /\ BuildPipeline(fs, src) \in FoundIn(fs, src, Shortest(fs, src))
       /\ Shortest(fs, src) \in 1 .. Cardinality(fs) /\ Shortest(fs, src) <= m
  BY <1>1, <1>10, PipelineIs, ShortestIs DEF Lengths
<1>12. /\ BuildPipeline(fs, src) \in Seq(fs)
       /\ Len(BuildPipeline(fs, src)) = Shortest(fs, src)
  BY <1>1, <1>11, FoundAre
<1>13. Len(BuildPipeline(fs, src)) # 0
  BY <1>1, <1>11, <1>12
<1>14. BuildPipeline(fs, src) # <<>>
  BY <1>13, EmptySeq
<1>15. QED
  BY <1>1, <1>6, <1>11, <1>12, <1>14

-----------------------------------------------------------------------------
(* Where annotations can add what a final function needs, there is a plan.   *)

Added(fs, cols) == UNION {Outputs(f) : f \in {f \in fs \ Final : Requirements[f] \subseteq cols}}
Wider(fs, cols) == cols \union Added(fs, cols)

Grows(fs, src, k, g) == g = [n \in 0 .. k |-> IF n = 0 THEN src ELSE Wider(fs, g[n - 1])]

LEMMA GrowsExist ==
  ASSUME NEW fs, NEW src, NEW k \in Nat
  PROVE  \E g : Grows(fs, src, k, g)
<1> DEFINE T == {n \in Nat : \E g : Grows(fs, src, n, g)}
<1>1. 0 \in T
  <2> DEFINE g == [n \in 0 .. 0 |-> src]
  <2>1. g = [n \in 0 .. 0 |-> IF n = 0 THEN src ELSE Wider(fs, g[n - 1])]
    OBVIOUS
  <2>2. Grows(fs, src, 0, g)
    BY <2>1 DEF Grows
  <2>3. QED
    BY <2>2
<1>2. ASSUME NEW m \in Nat, m \in T PROVE m + 1 \in T
  <2>1. PICK g : Grows(fs, src, m, g)
    BY <1>2
  <2>2. \A n \in 0 .. m : g[n] = IF n = 0 THEN src ELSE Wider(fs, g[n - 1])
    BY <2>1 DEF Grows
  <2> DEFINE h == [n \in 0 .. m + 1 |-> IF n = m + 1 THEN Wider(fs, g[m]) ELSE g[n]]
  <2>3. \A n \in 0 .. m + 1 : h[n] = IF n = m + 1 THEN Wider(fs, g[m]) ELSE g[n]
    OBVIOUS
  <2>4. h = [n \in 0 .. m + 1 |-> h[n]]
    OBVIOUS
  <2> HIDE DEF h
  <2>5. ASSUME NEW n \in 0 .. m + 1
        PROVE  h[n] = IF n = 0 THEN src ELSE Wider(fs, h[n - 1])
    <3>1. CASE n = 0
      BY <2>2, <2>3, <3>1
    <3>2. CASE n # 0
      <4>1. n - 1 \in 0 .. m /\ h[n - 1] = g[n - 1]
        BY <2>3, <3>2
      <4>2. h[n] = Wider(fs, g[n - 1])
        <5>1. CASE n = m + 1
          BY <2>3, <5>1
        <5>2. CASE n # m + 1
          BY <2>2, <2>3, <3>2, <5>2
        <5>3. QED
          BY <5>1, <5>2
      <4>3. QED
        BY <3>2, <4>1, <4>2
    <3>3. QED
      BY <3>1, <3>2
  <2>6. h = [n \in 0 .. m + 1 |-> IF n = 0 THEN src ELSE Wider(fs, h[n - 1])]
    BY <2>4, <2>5
  <2>7. QED
    BY <2>6 DEF Grows
<1>3. Nat \subseteq T
  <2> HIDE DEF T
  <2>1. QED
    BY <1>1, <1>2, Induction
<1>4. QED
  BY <1>3

(* What is closed under the annotations contains the closure. *)
LEMMA ClosureIsLeast ==
  ASSUME NEW fs, NEW src, IsFiniteSet(fs), NEW cols, src \subseteq cols, Added(fs, cols) \subseteq cols
  PROVE  Closure(fs, src) \subseteq cols
<1>1. Cardinality(fs) \in Nat
  BY FS_CardinalityType
<1>2. PICK g : /\ Grows(fs, src, Cardinality(fs), g)
              /\ Closure(fs, src) = g[Cardinality(fs)]
  <2>1. PICK g : g = CHOOSE h : Grows(fs, src, Cardinality(fs), h)
    OBVIOUS
  <2>2. Grows(fs, src, Cardinality(fs), g)
    BY <1>1, <2>1, GrowsExist, Zenon
  <2>3. Closure(fs, src) = g[Cardinality(fs)]
    BY <2>1, Zenon DEF Closure, Grows, Wider, Added
  <2>4. QED
    BY <2>2, <2>3
<1>3. \A n \in 0 .. Cardinality(fs) : g[n] = IF n = 0 THEN src ELSE Wider(fs, g[n - 1])
  BY <1>2 DEF Grows
<1> DEFINE T == {n \in Nat : n <= Cardinality(fs) => g[n] \subseteq cols}
<1>4. 0 \in T
  BY <1>1, <1>3
<1>5. ASSUME NEW n \in Nat, n \in T PROVE n + 1 \in T
  <2>1. SUFFICES ASSUME n + 1 <= Cardinality(fs) PROVE g[n + 1] \subseteq cols
    OBVIOUS
  <2>2. n + 1 \in 0 .. Cardinality(fs) /\ n + 1 # 0 /\ n + 1 - 1 = n /\ n <= Cardinality(fs)
    BY <1>1, <2>1
  <2>3. g[n + 1] = Wider(fs, g[n]) /\ g[n] \subseteq cols
    BY <1>3, <1>5, <2>2
  <2>4. Added(fs, g[n]) \subseteq Added(fs, cols)
    BY <2>3 DEF Added
  <2>5. QED
    BY <2>3, <2>4 DEF Wider
<1>6. Nat \subseteq T
  <2> HIDE DEF T
  <2>1. QED
    BY <1>4, <1>5, Induction
<1>7. Cardinality(fs) \in T
  BY <1>1, <1>6
<1>8. QED
  BY <1>1, <1>2, <1>7

(* A longest path of annotations: nothing that could be called is missing. *)
LEMMA LongestPath ==
  ASSUME NEW fs, IsFiniteSet(fs), NEW src
  PROVE  \E p \in Seq(fs) : /\ Walk(src, p)
                           /\ \A f \in fs : Requirements[f] \subseteq Features(src, p) => f \in Elements(p)
<1>1. Cardinality(fs) \in Nat
  BY FS_CardinalityType
<1>2. PICK W : W = {p \in Seq(fs) : Walk(src, p)}
  OBVIOUS
<1>3. ASSUME NEW p \in W PROVE Cardinality(fs) - Len(p) \in Nat /\ Len(p) \in Nat
  <2>1. Len(p) \in Nat
    BY <1>2, LenProperties
  <2>2. Len(p) <= Cardinality(fs)
    BY <1>2, WalkLength
  <2>3. QED
    BY <1>1, <2>1, <2>2
<1>4. PICK R : R = {Cardinality(fs) - Len(p) : p \in W}
  OBVIOUS
<1>5. R \in SUBSET Nat /\ R # {}
  <2>1. <<>> \in W
    BY <1>2, EmptySeq DEF Walk
  <2>2. QED
    BY <1>3, <1>4, <2>1
<1>6. PICK r \in R : \A s \in R : r <= s
  BY <1>5, Least
<1>7. PICK p \in W : r = Cardinality(fs) - Len(p)
  BY <1>4, <1>6
<1>8. ASSUME NEW f \in fs, Requirements[f] \subseteq Features(src, p), f \notin Elements(p) PROVE FALSE
  <2>1. Append(p, f) \in W
    BY <1>2, <1>8, WalkGrows, AppendIs
  <2>2. Len(Append(p, f)) = Len(p) + 1
    BY <1>2, AppendIs
  <2>3. Cardinality(fs) - Len(Append(p, f)) \in R
    BY <1>4, <2>1
  <2>4. r <= Cardinality(fs) - (Len(p) + 1)
    BY <1>6, <2>2, <2>3
  <2>5. QED
    BY <1>1, <1>3, <1>7, <2>4
<1>9. QED
  BY <1>2, <1>7, <1>8

LEMMA FeasibleHasPlan ==
  ASSUME NEW fs \in SUBSET Function, NEW src, Feasible(fs, src)
  PROVE  \E q \in Seq(fs) : IsPlan(src, q) /\ Len(q) <= Cardinality(fs)
<1>1. IsFiniteSet(fs) /\ IsFiniteSet(fs \ Final)
  BY PipelineIs, FS_Subset
<1>2. PICK f \in fs \intersect Final : /\ Requirements[f] \subseteq Closure(fs, src)
                                     /\ Sink \subseteq Closure(fs, src) \union Outputs(f)
  BY DEF Feasible
<1>3. PICK p \in Seq(fs \ Final) :
        /\ Walk(src, p)
        /\ \A h \in fs \ Final : Requirements[h] \subseteq Features(src, p) => h \in Elements(p)
  BY <1>1, LongestPath
<1>4. Closure(fs, src) \subseteq Features(src, p)
  <2>1. src \subseteq Features(src, p)
    BY DEF Features
  <2>2. Added(fs, Features(src, p)) \subseteq Features(src, p)
    BY <1>3 DEF Added, Features
  <2>3. QED
    BY <1>1, <2>1, <2>2, ClosureIsLeast
<1>5. p \in Seq(fs) /\ Elements(p) \subseteq fs \ Final
  BY SeqMonotonic, ElementsIs
<1> DEFINE q == Append(p, f)
<1>6. /\ q \in Seq(fs) /\ Len(q) = Len(p) + 1 /\ \A i \in 1 .. Len(p) : q[i] = p[i]
      /\ Elements(q) = Elements(p) \union {f}
  BY <1>5, AppendIs
<1>7. Walk(src, q)
  BY <1>2, <1>3, <1>4, <1>5, WalkGrows
<1> HIDE DEF q
<1>8. Reaches(src, q)
  <2>1. Features(src, q) = Features(src, p) \union Outputs(f)
    BY <1>6 DEF Features
  <2>2. QED
    BY <1>2, <1>4, <2>1 DEF Reaches
<1>9. \A i \in 1 .. Len(q) : q[i] \in Final => i \in {1, Len(q)}
  <2>1. Len(p) \in Nat /\ \A i \in 1 .. Len(p) : p[i] \notin Final
    BY LenProperties, ElementOfSeq
  <2>2. QED
    BY <1>6, <2>1
<1>10. IsPlan(src, q)
  BY <1>6, <1>7, <1>8, <1>9, WalkIsPlan
<1>11. Len(q) <= Cardinality(fs)
  BY <1>1, <1>6, <1>7, WalkLength
<1>12. QED
  BY <1>6, <1>10, <1>11

(* GraphPipelineBuilder::build_pipeline: whatever functions there are and whatever
   columns the nodes have, what the search returns is a plan, it returns one
   whenever some of the functions can make one, and none longer than that takes. *)
THEOREM SearchIsRight ==
  ASSUME NEW fs \in SUBSET Function, NEW src
  PROVE  SearchFinds(fs, src)
<1> DEFINE plan == BuildPipeline(fs, src)
<1>1. plan # <<>> => IsPlan(src, plan)
  BY PipelineIsPlan
<1>2. ASSUME NEW sub \in SUBSET fs, Feasible(sub, src), ~(Sink \subseteq src)
      PROVE  plan # <<>> /\ Len(plan) <= Cardinality(sub)
  <2>1. sub \in SUBSET Function
    OBVIOUS
  <2>2. PICK q \in Seq(sub) : IsPlan(src, q) /\ Len(q) <= Cardinality(sub)
    BY <1>2, <2>1, FeasibleHasPlan
  <2>3. q \in Seq(fs)
    BY SeqMonotonic
  <2>4. plan # <<>> /\ Len(plan) <= Len(q)
    BY <1>2, <2>2, <2>3, PipelineIsShortest
  <2>5. Len(plan) \in Nat /\ Len(q) \in Nat /\ Cardinality(sub) \in Nat
    <3>1. IsFiniteSet(sub) /\ plan \in Seq(fs)
      BY <2>1, <2>4, PipelineIs, PipelineIsPlan
    <3>2. QED
      BY <3>1, LenProperties, FS_CardinalityType
  <2>6. QED
    BY <2>2, <2>4, <2>5
<1> HIDE DEF plan
<1>3. QED
  BY <1>1, <1>2 DEF SearchFinds, plan

-----------------------------------------------------------------------------
(* The invariant.                                                            *)

EventType == [scope : Connector, object : Object \union {None}]
LoopType == [scopes : [Connector -> 0 .. Limit + 1], next : [Connector -> 0 .. Limit + 1],
             todo : SUBSET Connector, ended : BOOLEAN]
SnapType == [Connector -> Graph \union {None}]
JobType == [pc : {"start", "run", "done"}, snap : SnapType \union {<<>>},
            used : SUBSET Function, todo : SUBSET (Connector \X Function), alone : BOOLEAN]

GraphsTyped ==
    /\ GraphsTypeOK
    /\ spent \in 0 .. Limit
    /\ events \in Seq(EventType)
    /\ loops \in [Type -> LoopType]

(* What a problem's functions have written is still there while nobody else has
   written: every graph is to be written, or has the flows of the only function. *)
AppliedTo(j, c) == graphs[c] = [j.snap[c] EXCEPT !.flows = @ \union j.used]

Only(j, f) ==
    /\ j.used \subseteq {f}
    /\ j.todo \subseteq Connector \X {f}
    /\ \A c \in Live(j.snap) : <<c, f>> \in j.todo \/ AppliedTo(j, c)

Spawning(j) ==
    j.pc = "run" =>
        /\ j.snap \in SnapType
        /\ j.todo \subseteq Live(j.snap) \X Function
        /\ j.alone => \E f \in Function : Only(j, f)

Ended(j) ==
    j.pc = "done" /\ j.alone =>
        \A c \in Live(j.snap) : graphs[c] # None /\ graphs[c].flows = j.snap[c].flows \union j.used

Jobs == job \in [Problem -> JobType] /\ \A p \in Problem : Spawning(job[p]) /\ Ended(job[p])

Inv ==
    /\ GraphsTyped
    /\ vm \in States \union Stopped
    /\ result \in States
    /\ Owned
    /\ Jobs

LEMMA InvIsSafe == Inv => Safe
<1>1. SUFFICES ASSUME Inv PROVE Safe
  OBVIOUS
<1>2. TypeOK
  BY <1>1 DEF Inv, Jobs, GraphsTyped, TypeOK, JobType
<1>3. Owned
  BY <1>1 DEF Inv
<1>4. Applied
  BY <1>1 DEF Inv, Jobs, Ended, Applied
<1>5. QED
  BY <1>2, <1>3, <1>4 DEF Safe

-----------------------------------------------------------------------------
(* The cluster, the watch and LocalResourceDB keep the types.                *)

LEMMA SpendType == ASSUME GraphsTyped, Spend PROVE spent' \in 0 .. Limit /\ spent < Limit
BY GraphsAssumption DEF GraphsTyped, Spend

LEMMA ChangeTyped ==
  ASSUME GraphsTyped, NEW c \in Connector, NEW object \in Object \union {None}, Change(c, object)
  PROVE  GraphsTyped'
<1>1. spent' \in 0 .. Limit
  BY SpendType DEF Change
<1>2. Event(c, object) \in EventType
  BY DEF Event, EventType
<1>3. events' \in Seq(EventType)
  BY <1>2, AppendProperties DEF Change, GraphsTyped
<1>4. api' \in [Connector -> Object \union {None}]
  BY DEF Change, GraphsTyped, GraphsTypeOK
<1>5. UNCHANGED <<connectors, updated, functions, loops, graphs>>
  BY DEF Change, db
<1>6. QED
  BY <1>1, <1>3, <1>4, <1>5 DEF GraphsTyped, GraphsTypeOK

LEMMA WatchTyped == ASSUME GraphsTyped, Watch PROVE GraphsTyped'
<1> DEFINE live == {c \in Connector : api[c] # None}
           E == {Event(c, api[c]) : c \in live}
<1>1. IsFiniteSet(live)
  BY GraphsAssumption, FS_Subset
<1>2. Cardinality(live) \in Nat /\ ExistsBijection(1 .. Cardinality(live), live)
  BY <1>1, FS_CardinalityType
<1>3. PICK b \in [1 .. Cardinality(live) -> live] : \A c \in live : \E i \in 1 .. Cardinality(live) : b[i] = c
  BY <1>2 DEF ExistsBijection, Bijection, Surjection
<1> DEFINE Lists(seq) == {seq[i].scope : i \in DOMAIN seq} = live
<1>4. \E seq \in [1 .. Cardinality(live) -> E] : Lists(seq)
  <2> DEFINE seq == [i \in 1 .. Cardinality(live) |-> Event(b[i], api[b[i]])]
  <2>1. seq \in [1 .. Cardinality(live) -> E] /\ DOMAIN seq = 1 .. Cardinality(live)
    BY <1>3
  <2>2. \A i \in 1 .. Cardinality(live) : seq[i].scope = b[i] /\ b[i] \in live
    BY <1>3 DEF Event
  <2>3. {seq[i].scope : i \in DOMAIN seq} = live
    <3> HIDE DEF seq
    <3>1. QED
      BY <1>3, <2>1, <2>2
  <2>4. QED
    BY <2>1, <2>3
<1>5. E \subseteq EventType
  BY DEF GraphsTyped, GraphsTypeOK, Event, EventType
<1>6. events' = CHOOSE seq \in [1 .. Cardinality(live) -> E] : Lists(seq)
  BY Zenon DEF Watch
<1> HIDE DEF live, E, Lists
<1>7. events' \in [1 .. Cardinality(live) -> E]
  BY <1>4, <1>6, Zenon
<1>8. events' \in Seq(EventType)
  BY <1>2, <1>5, <1>7
<1>9. UNCHANGED <<api, spent, connectors, updated, functions, loops, graphs>>
  BY DEF Watch, db
<1>10. QED
  BY <1>8, <1>9 DEF GraphsTyped, GraphsTypeOK

LEMMA WatchFailsTyped == ASSUME GraphsTyped, WatchFails PROVE GraphsTyped'
<1>1. spent' \in 0 .. Limit
  BY SpendType DEF WatchFails
<1>2. events' \in Seq(EventType)
  BY EmptySeq DEF WatchFails
<1>3. UNCHANGED <<api, connectors, updated, functions, loops, graphs>>
  BY DEF WatchFails, db
<1>4. QED
  BY <1>1, <1>2, <1>3 DEF GraphsTyped, GraphsTypeOK

LEMMA RaiseType ==
  ASSUME GraphsTyped, NEW t \in Type
  PROVE  Raise(t) \in [Type -> BOOLEAN \union {None}]
BY DEF GraphsTyped, GraphsTypeOK, Raise

LEMMA HandleEventTyped == ASSUME GraphsTyped, HandleEvent PROVE GraphsTyped'
<1>1. events \in Seq(EventType) /\ events # <<>>
  BY DEF GraphsTyped, HandleEvent
<1>2. PICK e \in EventType : e = Head(events)
  BY <1>1, HeadTailProperties
<1>3. events' \in Seq(EventType)
  BY <1>1, HeadTailProperties DEF HandleEvent
<1>4. IF e.object = None THEN DeleteConnector(e.scope) ELSE InsertConnector(e.scope, e.object)
  BY <1>2, Zenon DEF HandleEvent
<1>5. e.scope \in Connector /\ e.object \in Object \union {None}
  BY <1>2 DEF EventType
<1>6. connectors \in [Connector -> Object \union {None}] /\ updated \in [Type -> BOOLEAN \union {None}]
  BY DEF GraphsTyped, GraphsTypeOK
<1>7. /\ connectors' \in [Connector -> Object \union {None}]
      /\ updated' \in [Type -> BOOLEAN \union {None}]
  <2>1. CASE e.object = None
    <3>1. DeleteConnector(e.scope)
      BY <1>4, <2>1
    <3>2. connectors[e.scope] # None => connectors[e.scope].type \in Type
      BY <1>5, <1>6 DEF Object
    <3>3. QED
      BY <1>5, <1>6, <3>1, <3>2, RaiseType DEF DeleteConnector
  <2>2. CASE e.object # None
    <3>1. InsertConnector(e.scope, e.object)
      BY <1>4, <2>2
    <3>2. e.object \in Object /\ e.object.type \in Type
      BY <1>5, <2>2 DEF Object
    <3>3. QED
      BY <1>5, <1>6, <3>1, <3>2, RaiseType DEF InsertConnector
  <2>3. QED
    BY <2>1, <2>2
<1>8. UNCHANGED <<api, spent, functions, loops, graphs>>
  BY DEF HandleEvent
<1>9. QED
  BY <1>3, <1>7, <1>8 DEF GraphsTyped, GraphsTypeOK

-----------------------------------------------------------------------------
(* The loops.                                                                *)

NextScopes(t) ==
    [c \in Connector |-> IF connectors[c] # None /\ connectors[c].type = t
                         THEN connectors[c].version ELSE 0]

Pulled(t, S) ==
    [scopes |-> IF S = {} THEN NextScopes(t) ELSE loops[t].scopes,
     next |-> NextScopes(t), todo |-> S, ended |-> AfterList]

(* What List does to a loop: it stores S and removes what is gone, or nothing. *)
LEMMA ListWays ==
  ASSUME GraphsTyped, NEW t \in Type, List(t)
  PROVE  /\ ~Busy(t) /\ spent' \in 0 .. Limit
         /\ updated' = [updated EXCEPT ![t] = FALSE]
         /\ UNCHANGED <<api, events, connectors, functions, graphs, stray, policy>>
         /\ \/ \E S \in SUBSET Connector :
                   /\ loops' = [loops EXCEPT ![t] = Pulled(t, S)]
                   /\ \A c \in Connector : loops[t].scopes[c] # 0 => NextScopes(t)[c] # 0 \/ c \in S
            \/ loops' = [loops EXCEPT ![t].ended = AfterList]
<1> DEFINE next == NextScopes(t)
           new == {c \in Connector : IsNew(t, c, next)}
           removed == {c \in Connector : IsRemoved(t, c, next)}
<1>1. /\ ~Busy(t)
      /\ updated' = [updated EXCEPT ![t] = FALSE]
      /\ UNCHANGED <<api, events, connectors, functions, graphs, stray, policy>>
  BY DEF List, watch
<1>2. \/ \E loaded \in SUBSET new :
            /\ IF loaded = new THEN UNCHANGED <<spent, lag>>
               ELSE Spend /\ lag' = lag \union (new \ loaded)
            /\ loops' = [loops EXCEPT ![t] =
                    [scopes |-> IF loaded \union removed = {} THEN next ELSE @.scopes,
                     next |-> next, todo |-> loaded \union removed,
                     ended |-> AfterList]]
      \/ /\ Spend
         /\ lag' = lag \union new \union removed
         /\ loops' = [loops EXCEPT ![t].ended = AfterList]
  BY Zenon DEF List, NextScopes
<1>3. CASE \E loaded \in SUBSET new :
            /\ IF loaded = new THEN UNCHANGED <<spent, lag>>
               ELSE Spend /\ lag' = lag \union (new \ loaded)
            /\ loops' = [loops EXCEPT ![t] =
                    [scopes |-> IF loaded \union removed = {} THEN next ELSE @.scopes,
                     next |-> next, todo |-> loaded \union removed,
                     ended |-> AfterList]]
  <2> HIDE DEF next
  <2>1. PICK loaded \in SUBSET new :
            /\ IF loaded = new THEN UNCHANGED <<spent, lag>>
               ELSE Spend /\ lag' = lag \union (new \ loaded)
            /\ loops' = [loops EXCEPT ![t] =
                    [scopes |-> IF loaded \union removed = {} THEN next ELSE @.scopes,
                     next |-> next, todo |-> loaded \union removed,
                     ended |-> AfterList]]
    BY <1>3
  <2> DEFINE S == loaded \union removed
  <2>2. S \in SUBSET Connector
    OBVIOUS
  <2>3. loops' = [loops EXCEPT ![t] = Pulled(t, S)]
    BY <2>1 DEF Pulled, next, GraphsTyped
  <2>4. \A c \in Connector : loops[t].scopes[c] # 0 => next[c] # 0 \/ c \in S
    BY DEF IsRemoved
  <2>5. spent' \in 0 .. Limit
    <3>1. CASE loaded = new
      BY <2>1, <3>1 DEF GraphsTyped
    <3>2. CASE loaded # new
      BY <2>1, <3>2, SpendType
    <3>3. QED
      BY <3>1, <3>2
  <2> HIDE DEF S
  <2>6. QED
    BY <1>1, <2>2, <2>3, <2>4, <2>5 DEF next
<1>4. CASE Spend /\ lag' = lag \union new \union removed /\ loops' = [loops EXCEPT ![t].ended = AfterList]
  BY <1>1, <1>4, SpendType
<1>5. QED
  BY <1>2, <1>3, <1>4

LEMMA NextScopesType ==
  ASSUME GraphsTyped, NEW t \in Type
  PROVE  NextScopes(t) \in [Connector -> 0 .. Limit + 1]
<1>1. ASSUME NEW c \in Connector, connectors[c] # None PROVE connectors[c].version \in 0 .. Limit + 1
  BY <1>1 DEF GraphsTyped, GraphsTypeOK, Object
<1>2. 0 \in 0 .. Limit + 1
  BY GraphsAssumption
<1>3. QED
  BY <1>1, <1>2 DEF NextScopes

(* One loop changes. *)
LEMMA LoopTyped ==
  ASSUME GraphsTyped, NEW t \in Type, NEW l \in LoopType, loops' = [loops EXCEPT ![t] = l],
         spent' \in 0 .. Limit, updated' \in [Type -> BOOLEAN \union {None}],
         graphs' \in [Connector -> Graph \union {None}],
         UNCHANGED <<api, events, connectors, functions>>
  PROVE  GraphsTyped'
<1>1. loops' \in [Type -> LoopType]
  BY DEF GraphsTyped
<1>2. \A u \in Type : loops'[u].scopes \in [Connector -> 0 .. Limit + 1]
  BY <1>1 DEF LoopType
<1>3. QED
  BY <1>1, <1>2 DEF GraphsTyped, GraphsTypeOK

LEMMA PulledIs ==
  ASSUME GraphsTyped, NEW t \in Type, NEW S \in SUBSET Connector
  PROVE  /\ Pulled(t, S) \in LoopType
         /\ Pulled(t, S).todo = S /\ Pulled(t, S).next = NextScopes(t)
         /\ Pulled(t, S).scopes = IF S = {} THEN NextScopes(t) ELSE loops[t].scopes
<1>1. NextScopes(t) \in [Connector -> 0 .. Limit + 1]
  BY NextScopesType
<1>2. loops[t].scopes \in [Connector -> 0 .. Limit + 1]
  BY DEF GraphsTyped, GraphsTypeOK
<1>3. AfterList \in BOOLEAN
  BY DEF AfterList
<1>4. QED
  BY <1>1, <1>2, <1>3 DEF Pulled, LoopType

LEMMA ListTyped ==
  ASSUME GraphsTyped, NEW t \in Type, List(t)
  PROVE  GraphsTyped'
<1>1. /\ spent' \in 0 .. Limit
      /\ updated' = [updated EXCEPT ![t] = FALSE]
      /\ UNCHANGED <<api, events, connectors, functions, graphs>>
  BY ListWays
<1>2. updated' \in [Type -> BOOLEAN \union {None}] /\ graphs' \in [Connector -> Graph \union {None}]
  BY <1>1 DEF GraphsTyped, GraphsTypeOK
<1>3. ASSUME NEW S \in SUBSET Connector, loops' = [loops EXCEPT ![t] = Pulled(t, S)]
      PROVE  GraphsTyped'
  BY <1>1, <1>2, <1>3, PulledIs, LoopTyped
<1>4. ASSUME loops' = [loops EXCEPT ![t].ended = AfterList] PROVE GraphsTyped'
  <2>1. loops[t] \in LoopType /\ AfterList \in BOOLEAN
    BY DEF GraphsTyped, AfterList
  <2>2. [loops[t] EXCEPT !.ended = AfterList] \in LoopType
    BY <2>1 DEF LoopType
  <2>3. loops' = [loops EXCEPT ![t] = [loops[t] EXCEPT !.ended = AfterList]]
    BY <1>4
  <2>4. QED
    BY <1>1, <1>2, <2>2, <2>3, LoopTyped
<1>5. QED
  BY <1>3, <1>4, ListWays

(* One loop changes, and keeps at least the graphs it kept; D are the connectors
   whose graphs it writes. *)
LEMMA OwnedStays ==
  ASSUME GraphsTyped, Owned, NEW t \in Type, loops' = [loops EXCEPT ![t] = loops'[t]],
         NEW D, D \subseteq Connector, stray \ D \subseteq stray',
         \A c \in (Connector \ D) \ stray' : graphs[c] # None /\ Keeps(t, c) => Keeps(t, c)',
         \A c \in Connector \ D : graphs'[c] = graphs[c],
         \A c \in D \ stray' : graphs'[c] # None => Keeps(t, c)'
  PROVE  Owned'
<1>1. \A u \in Type : u # t => loops'[u] = loops[u]
  BY DEF GraphsTyped
<1>2. ASSUME NEW u \in Type, u # t, NEW c, Keeps(u, c) PROVE Keeps(u, c)'
  BY <1>1, <1>2 DEF Keeps, Busy
<1>3. ASSUME NEW c \in Connector \ stray', graphs'[c] # None PROVE \E u \in Type : Keeps(u, c)'
  <2>1. CASE c \in D
    BY <1>3, <2>1
  <2>2. CASE c \notin D
    <3>1. c \notin stray /\ graphs[c] # None
      BY <1>3, <2>2
    <3>2. PICK u \in Type : Keeps(u, c)
      BY <3>1 DEF Owned
    <3>3. CASE u = t
      BY <2>2, <3>1, <3>2, <3>3
    <3>4. CASE u # t
      BY <1>2, <3>2, <3>4
    <3>5. QED
      BY <3>3, <3>4
  <2>3. QED
    BY <2>1, <2>2
<1>4. QED
  BY <1>3 DEF Owned

LEMMA OwnedStaysAll ==
  ASSUME GraphsTyped, Owned, NEW t \in Type, loops' = [loops EXCEPT ![t] = loops'[t]],
         stray \subseteq stray', graphs' = graphs,
         \A c \in Connector \ stray' : graphs[c] # None /\ Keeps(t, c) => Keeps(t, c)'
  PROVE  Owned'
<1>1. PICK D : D = {}
  OBVIOUS
<1>2. /\ D \subseteq Connector /\ stray \ D \subseteq stray'
      /\ \A c \in (Connector \ D) \ stray' : graphs[c] # None /\ Keeps(t, c) => Keeps(t, c)'
      /\ \A c \in Connector \ D : graphs'[c] = graphs[c]
      /\ \A c \in D \ stray' : graphs'[c] # None => Keeps(t, c)'
  BY <1>1
<1>3. QED
  BY <1>2, OwnedStays

LEMMA ListOwned ==
  ASSUME GraphsTyped, Owned, NEW t \in Type, List(t)
  PROVE  Owned'
<1>1. ~Busy(t) /\ stray' = stray /\ graphs' = graphs
  BY ListWays
<1>2. loops \in [Type -> LoopType] /\ loops[t] \in LoopType
  BY DEF GraphsTyped
<1>3. ASSUME NEW S \in SUBSET Connector,
             loops' = [loops EXCEPT ![t] = Pulled(t, S)],
             \A c \in Connector : loops[t].scopes[c] # 0 => NextScopes(t)[c] # 0 \/ c \in S
      PROVE  Owned'
  <2>1. loops'[t] = Pulled(t, S) /\ loops' = [loops EXCEPT ![t] = loops'[t]]
    BY <1>2, <1>3
  <2>2. /\ loops'[t].todo = S /\ loops'[t].next = NextScopes(t)
        /\ loops'[t].scopes = IF S = {} THEN NextScopes(t) ELSE loops[t].scopes
    BY <2>1, PulledIs
  <2>3. ASSUME NEW c \in Connector, Keeps(t, c) PROVE Keeps(t, c)'
    <3>1. loops[t].scopes[c] # 0
      BY <1>1, <2>3 DEF Keeps
    <3>2. NextScopes(t)[c] # 0 \/ c \in S
      BY <1>3, <3>1
    <3>3. QED
      BY <2>2, <3>1, <3>2 DEF Keeps, Busy
  <2>4. QED
    BY <1>1, <2>1, <2>3, OwnedStaysAll
<1>4. ASSUME loops' = [loops EXCEPT ![t].ended = AfterList] PROVE Owned'
  <2>1. /\ loops' = [loops EXCEPT ![t] = loops'[t]]
        /\ loops'[t] = [loops[t] EXCEPT !.ended = AfterList]
    BY <1>2, <1>4
  <2>2. /\ loops'[t].todo = loops[t].todo /\ loops'[t].next = loops[t].next
        /\ loops'[t].scopes = loops[t].scopes
    BY <1>2, <2>1 DEF LoopType
  <2>3. \A c \in Connector : Keeps(t, c) => Keeps(t, c)'
    BY <2>2 DEF Keeps, Busy
  <2>4. QED
    BY <1>1, <2>1, <2>3, OwnedStaysAll
<1>5. QED
  BY <1>3, <1>4, ListWays

LEMMA StoreIs ==
  ASSUME GraphsTyped, NEW t \in Type, NEW c \in Connector, Store(t, c)
  PROVE  /\ c \in loops[t].todo
         /\ loops' = [loops EXCEPT ![t] = loops'[t]]
         /\ loops'[t] \in LoopType
         /\ loops'[t].todo = loops[t].todo \ {c} /\ loops'[t].next = loops[t].next
         /\ loops'[t].scopes = IF loops[t].todo = {c} THEN loops[t].next ELSE loops[t].scopes
         /\ graphs' \in [Connector -> Graph \union {None}]
         /\ \A d \in Connector \ {c} : graphs'[d] = graphs[d]
         /\ loops[t].next[c] = 0 => graphs'[c] = None
         /\ stray' = stray \ {c}
         /\ UNCHANGED <<api, spent, events, connectors, updated, functions>>
<1>1. /\ c \in loops[t].todo
      /\ loops' = [loops EXCEPT ![t].todo = loops[t].todo \ {c},
                               ![t].scopes = IF loops[t].todo \ {c} = {} THEN loops[t].next ELSE @]
      /\ graphs' = [graphs EXCEPT ![c] =
            IF loops[t].next[c] = 0 THEN None ELSE [version |-> loops[t].next[c], flows |-> {}]]
      /\ stray' = stray \ {c}
      /\ UNCHANGED <<api, spent, events, connectors, updated, functions>>
  BY Zenon DEF Store, watch, db
<1>2. loops \in [Type -> LoopType] /\ loops[t] \in LoopType /\ graphs \in [Connector -> Graph \union {None}]
  BY DEF GraphsTyped, GraphsTypeOK
<1>3. loops[t].todo \ {c} = {} <=> loops[t].todo = {c}
  BY <1>1
<1> DEFINE l == [loops[t] EXCEPT !.todo = loops[t].todo \ {c},
                                 !.scopes = IF loops[t].todo \ {c} = {} THEN loops[t].next ELSE loops[t].scopes]
<1>4. l \in LoopType /\ l.todo = loops[t].todo \ {c} /\ l.next = loops[t].next
      /\ l.scopes = IF loops[t].todo \ {c} = {} THEN loops[t].next ELSE loops[t].scopes
  BY <1>2 DEF LoopType
<1>5. loops' = [loops EXCEPT ![t] = l] /\ loops'[t] = l
  BY <1>1, <1>2
<1>6. loops[t].next[c] # 0 => [version |-> loops[t].next[c], flows |-> {}] \in Graph
  BY <1>2, GraphsAssumption DEF LoopType, Graph
<1>7. /\ graphs' \in [Connector -> Graph \union {None}]
      /\ \A d \in Connector \ {c} : graphs'[d] = graphs[d]
      /\ loops[t].next[c] = 0 => graphs'[c] = None
  BY <1>1, <1>2, <1>6
<1> HIDE DEF l
<1>8. QED
  BY <1>1, <1>3, <1>4, <1>5, <1>7

LEMMA StoreTyped ==
  ASSUME GraphsTyped, NEW t \in Type, NEW c \in Connector, Store(t, c)
  PROVE  GraphsTyped'
<1>1. spent' \in 0 .. Limit /\ updated' \in [Type -> BOOLEAN \union {None}]
  BY StoreIs DEF GraphsTyped, GraphsTypeOK
<1>2. QED
  BY <1>1, StoreIs, LoopTyped

LEMMA StoreOwned ==
  ASSUME GraphsTyped, Owned, NEW t \in Type, NEW c \in Connector, Store(t, c)
  PROVE  Owned'
<1> DEFINE l == loops[t]
<1>1. /\ c \in l.todo
      /\ loops' = [loops EXCEPT ![t] = loops'[t]]
      /\ loops'[t].todo = l.todo \ {c} /\ loops'[t].next = l.next
      /\ loops'[t].scopes = IF l.todo = {c} THEN l.next ELSE l.scopes
      /\ \A d \in Connector \ {c} : graphs'[d] = graphs[d]
      /\ l.next[c] = 0 => graphs'[c] = None
      /\ stray' = stray \ {c}
  BY StoreIs
<1>2. ASSUME NEW d \in Connector \ {c}, Keeps(t, d) PROVE Keeps(t, d)'
  <2>1. IF d \in l.todo THEN l.scopes[d] # 0 ELSE l.next[d] # 0
    BY <1>1, <1>2 DEF Keeps, Busy
  <2>2. CASE l.todo = {c}
    BY <1>1, <2>1, <2>2 DEF Keeps, Busy
  <2>3. CASE l.todo # {c}
    BY <1>1, <2>1, <2>3 DEF Keeps, Busy
  <2>4. QED
    BY <2>2, <2>3
<1>3. graphs'[c] # None => Keeps(t, c)'
  <2>1. CASE l.todo = {c}
    BY <1>1, <2>1 DEF Keeps, Busy
  <2>2. CASE l.todo # {c}
    BY <1>1, <2>2 DEF Keeps, Busy
  <2>3. QED
    BY <2>1, <2>2
<1> HIDE DEF l
<1>4. PICK D : D = {c}
  OBVIOUS
<1>5. /\ D \subseteq Connector /\ stray \ D \subseteq stray'
      /\ \A d \in (Connector \ D) \ stray' : graphs[d] # None /\ Keeps(t, d) => Keeps(t, d)'
      /\ \A d \in Connector \ D : graphs'[d] = graphs[d]
      /\ \A d \in D \ stray' : graphs'[d] # None => Keeps(t, d)'
  BY <1>1, <1>2, <1>3, <1>4
<1>6. QED
  BY <1>1, <1>5, OwnedStays

LEMMA StoreFailsIs ==
  ASSUME GraphsTyped, NEW t \in Type, StoreFails(t)
  PROVE  /\ Busy(t) /\ spent' \in 0 .. Limit
         /\ loops' = [loops EXCEPT ![t] = loops'[t]]
         /\ loops'[t] \in LoopType
         /\ loops'[t].todo = {} /\ loops'[t].next = loops[t].next /\ loops'[t].scopes = loops[t].scopes
         /\ stray' = stray \union Stored(t)
         /\ UNCHANGED <<api, events, connectors, updated, functions, graphs>>
<1>1. /\ Busy(t) /\ Spend
      /\ stray' = stray \union Stored(t)
      /\ loops' = [loops EXCEPT ![t].todo = {}]
      /\ UNCHANGED <<api, events, connectors, updated, functions, graphs>>
  BY DEF StoreFails, watch, db
<1>2. loops \in [Type -> LoopType] /\ loops[t] \in LoopType
  BY DEF GraphsTyped
<1> DEFINE l == [loops[t] EXCEPT !.todo = {}]
<1>3. l \in LoopType /\ l.todo = {} /\ l.next = loops[t].next /\ l.scopes = loops[t].scopes
  BY <1>2 DEF LoopType
<1>4. loops' = [loops EXCEPT ![t] = l] /\ loops'[t] = l
  BY <1>1, <1>2
<1> HIDE DEF l
<1>5. QED
  BY <1>1, <1>3, <1>4, SpendType

LEMMA StoreFailsTyped ==
  ASSUME GraphsTyped, NEW t \in Type, StoreFails(t)
  PROVE  GraphsTyped'
<1>1. updated' \in [Type -> BOOLEAN \union {None}] /\ graphs' \in [Connector -> Graph \union {None}]
  BY StoreFailsIs DEF GraphsTyped, GraphsTypeOK
<1>2. QED
  BY <1>1, StoreFailsIs, LoopTyped

LEMMA StoreFailsOwned ==
  ASSUME GraphsTyped, Owned, NEW t \in Type, StoreFails(t)
  PROVE  Owned'
<1>1. /\ Busy(t) /\ stray' = stray \union Stored(t) /\ graphs' = graphs
      /\ loops' = [loops EXCEPT ![t] = loops'[t]]
      /\ loops'[t].todo = {} /\ loops'[t].scopes = loops[t].scopes
  BY StoreFailsIs
<1>2. ASSUME NEW c \in Connector \ stray', graphs[c] # None, Keeps(t, c) PROVE Keeps(t, c)'
  <2>1. IF c \in loops[t].todo THEN loops[t].scopes[c] # 0 ELSE loops[t].next[c] # 0
    BY <1>1, <1>2 DEF Keeps
  <2>2. c \notin Stored(t)
    BY <1>1, <1>2
  <2>3. loops[t].scopes[c] # 0
    BY <1>2, <2>1, <2>2 DEF Stored
  <2>4. QED
    BY <1>1, <2>3 DEF Keeps, Busy
<1>3. QED
  BY <1>1, <1>2, OwnedStaysAll

LEMMA GraphsStepInv ==
  ASSUME GraphsTyped, Owned, GraphsStep
  PROVE  GraphsTyped' /\ Owned'
<1>1. ASSUME GraphsTyped', UNCHANGED <<loops, graphs, stray>> PROVE GraphsTyped' /\ Owned'
  BY <1>1 DEF Owned, Keeps, Busy
<1>2. ASSUME NEW c \in Connector, Change(c, None) PROVE GraphsTyped' /\ Owned'
  BY <1>1, <1>2, ChangeTyped DEF Change
<1>3. ASSUME NEW c \in Connector, NEW t \in Type, Change(c, [type |-> t, version |-> spent + 2])
      PROVE  GraphsTyped' /\ Owned'
  <2>1. spent < Limit /\ spent \in Nat /\ Limit \in Nat
    BY <1>3, SpendType, GraphsAssumption DEF Change, GraphsTyped
  <2>2. spent + 2 \in 1 .. Limit + 1
    BY <2>1
  <2>3. [type |-> t, version |-> spent + 2] \in Object
    BY <2>2 DEF Object
  <2>4. QED
    BY <1>1, <1>3, <2>3, ChangeTyped DEF Change
<1>4. ASSUME NEW f \in Function, ChangeFunction(f) PROVE GraphsTyped' /\ Owned'
  <2>1. spent' \in 0 .. Limit
    BY <1>4, SpendType DEF ChangeFunction
  <2>2. functions' \subseteq Function
    BY <1>4 DEF ChangeFunction, GraphsTyped, GraphsTypeOK
  <2>3. UNCHANGED <<api, events, connectors, updated, loops, graphs, stray>>
    BY <1>4 DEF ChangeFunction, watch, db
  <2>4. GraphsTyped'
    BY <2>1, <2>2, <2>3 DEF GraphsTyped, GraphsTypeOK
  <2>5. QED
    BY <1>1, <2>3, <2>4
<1>5. CASE WatchFails
  BY <1>1, <1>5, WatchFailsTyped DEF WatchFails
<1>6. CASE Watch
  BY <1>1, <1>6, WatchTyped DEF Watch
<1>7. CASE HandleEvent
  BY <1>1, <1>7, HandleEventTyped DEF HandleEvent
<1>8. ASSUME NEW t \in Type, List(t) PROVE GraphsTyped' /\ Owned'
  BY <1>8, ListTyped, ListOwned
<1>9. ASSUME NEW t \in Type, StoreFails(t) PROVE GraphsTyped' /\ Owned'
  BY <1>9, StoreFailsTyped, StoreFailsOwned
<1>10. ASSUME NEW t \in Type, NEW c \in Connector, Store(t, c) PROVE GraphsTyped' /\ Owned'
  BY <1>10, StoreTyped, StoreOwned
<1>11. QED
  BY <1>2, <1>3, <1>4, <1>5, <1>6, <1>7, <1>8, <1>9, <1>10, Zenon DEF GraphsStep

-----------------------------------------------------------------------------
(* The machine.                                                              *)

(* What is planned are final functions that there are: SearchIsRight at work. *)
LEMMA PlannedIs ==
  ASSUME functions \subseteq Function
  PROVE  Planned \subseteq functions \intersect Final
<1> DEFINE plan(fs) == <<fs, Elements(BuildPipeline(fs, Columns)) \intersect Final>>
<1>1. plan(functions) \in Plans /\ plan(functions)[1] = functions
  BY DEF Plans
<1>2. PICK chosen : /\ chosen = CHOOSE q \in Plans : q[1] = functions
                   /\ chosen \in Plans /\ chosen[1] = functions
  BY <1>1, Zenon
<1>3. PICK fs \in SUBSET Function : chosen = plan(fs)
  BY <1>2, Zenon DEF Plans
<1> HIDE DEF plan
<1>a. \A gs : plan(gs)[1] = gs /\ plan(gs)[2] = Elements(BuildPipeline(gs, Columns)) \intersect Final
  BY DEF plan
<1>b. chosen[1] = functions
  BY <1>2
<1>4. fs = functions /\ chosen[2] = Elements(BuildPipeline(functions, Columns)) \intersect Final
  BY <1>3, <1>a, <1>b
<1>5. Planned = Elements(BuildPipeline(functions, Columns)) \intersect Final
  BY <1>2, <1>4, Zenon DEF Planned
<1>6. Elements(BuildPipeline(functions, Columns)) \subseteq functions
  <2>1. CASE BuildPipeline(functions, Columns) = <<>>
    BY <2>1 DEF Elements
  <2>2. CASE BuildPipeline(functions, Columns) # <<>>
    <3>1. BuildPipeline(functions, Columns) \in Seq(functions)
      BY <2>2, PipelineIsPlan
    <3>2. QED
      BY <3>1, ElementsIs
  <2>3. QED
    BY <2>1, <2>2
<1>7. QED
  BY <1>5, <1>6

LEMMA StartType ==
  /\ Start \in JobType /\ Finished \in JobType
  /\ Start.pc = "start" /\ Finished.pc = "done" /\ ~Finished.alone
  /\ Spawning(Start) /\ Ended(Start) /\ Spawning(Finished) /\ Ended(Finished)
BY DEF Start, Finished, JobType, Spawning, Ended

LEMMA StartStays == \A k : k = Start => Spawning(k)' /\ Ended(k)'
BY DEF Start, Spawning, Ended

LEMMA FinishedStays == \A k : k = Finished => Spawning(k)' /\ Ended(k)'
<1>1. \A k : k = Finished => k.pc = "done" /\ ~k.alone
  BY StartType
<1>2. QED
  BY <1>1 DEF Spawning, Ended

(* Nobody else's functions are in the way of a future that is not alone. *)
LEMMA AloneNoMore ==
  ASSUME NEW j \in JobType, Spawning(j), NEW k, k = [j EXCEPT !.alone = FALSE]
  PROVE  k \in JobType /\ Spawning(k)' /\ Ended(k)'
<1>1. /\ k \in JobType /\ ~k.alone /\ k.pc = j.pc
      /\ k.snap = j.snap /\ k.todo = j.todo
  BY DEF JobType
<1>2. QED
  BY <1>1 DEF Spawning, Ended

LEMMA OverlapIs ==
  ASSUME Jobs, NEW p, NEW js, js = Overlap(job, p)
  PROVE  /\ js \in [Problem -> JobType]
         /\ p \in Problem => js[p] = job[p]
         /\ \A q \in Problem \ {p} : Spawning(js[q])' /\ Ended(js[q])'
<1>1. \A q \in Problem :
        js[q] = CASE q = p -> job[q]
                  [] q # p /\ job[q].pc = "done" -> Finished
                  [] OTHER -> [job[q] EXCEPT !.alone = FALSE]
  BY DEF Overlap
<1>2. ASSUME NEW q \in Problem PROVE job[q] \in JobType /\ Spawning(job[q])
  BY DEF Jobs
<1>3. ASSUME NEW q \in Problem \ {p}
      PROVE  js[q] \in JobType /\ Spawning(js[q])' /\ Ended(js[q])'
  <2>1. CASE job[q].pc = "done"
    <3>1. js[q] = Finished
      BY <1>1, <2>1
    <3>2. QED
      BY <3>1, StartType, FinishedStays
  <2>2. CASE job[q].pc # "done"
    <3>1. js[q] = [job[q] EXCEPT !.alone = FALSE]
      BY <1>1, <2>2
    <3>2. PICK j \in JobType : j = job[q] /\ Spawning(j)
      BY <1>2
    <3>3. QED
      BY <3>1, <3>2, AloneNoMore
  <2>3. QED
    BY <2>1, <2>2
<1>4. p \in Problem => js[p] = job[p]
  BY <1>1
<1>5. \A q \in Problem : js[q] \in JobType
  BY <1>2, <1>3, <1>4
<1>6. js = [q \in Problem |-> js[q]]
  BY DEF Overlap
<1>7. js \in [Problem -> JobType]
  BY <1>5, <1>6
<1>8. QED
  BY <1>3, <1>4, <1>7

(* Where every write is by the functions of one problem, its flows are there. *)
LEMMA OnlyEnds ==
  ASSUME NEW j, NEW f \in Function, Only(j, f), j.todo = {}, j.snap \in SnapType
  PROVE  Ended(j)
<1>1. SUFFICES ASSUME NEW c \in Live(j.snap)
               PROVE  graphs[c] # None /\ graphs[c].flows = j.snap[c].flows \union j.used
  BY DEF Ended
<1>2. graphs[c] = [j.snap[c] EXCEPT !.flows = @ \union j.used]
  BY DEF Only, AppliedTo
<1>3. j.snap[c] \in Graph
  BY DEF Live, SnapType
<1>4. j.snap[c].flows \union j.used \subseteq Function
  BY <1>3 DEF Graph, Only
<1>5. graphs[c] \in Graph /\ graphs[c].flows = j.snap[c].flows \union j.used
  BY <1>2, <1>3, <1>4 DEF Graph
<1>6. QED
  BY <1>5, GraphsAssumption

LEMMA OnlyEndsNext ==
  ASSUME NEW j, NEW f \in Function, Only(j, f)', j.todo = {}, j.snap \in SnapType
  PROVE  Ended(j)'
BY OnlyEnds, PTL

LEMMA InitInv == Init => Inv
<1>1. SUFFICES ASSUME Init PROVE Inv
  OBVIOUS
<1>2. GraphsTyped
  <2>1. 0 \in 0 .. Limit /\ 0 \in 0 .. Limit + 1 /\ 1 \in 1 .. Limit + 1
    BY GraphsAssumption
  <2>2. api \in [Connector -> Object \union {None}]
    BY <1>1, <2>1, GraphsAssumption DEF Init, GraphsInit, Object
  <2>3. Idle \in LoopType
    BY <2>1 DEF Idle, LoopType
  <2>4. loops \in [Type -> LoopType]
    BY <1>1, <2>3 DEF Init, GraphsInit
  <2>5. \A t \in Type : loops[t].scopes \in [Connector -> 0 .. Limit + 1]
    BY <2>4 DEF LoopType
  <2>6. events \in Seq(EventType)
    BY <1>1, EmptySeq DEF Init, GraphsInit
  <2>7. QED
    BY <1>1, <2>1, <2>2, <2>4, <2>5, <2>6 DEF Init, GraphsInit, GraphsTyped, GraphsTypeOK
<1>3. Owned
  BY <1>1 DEF Init, GraphsInit, Owned, Idle
<1>4. Jobs
  BY <1>1, StartType DEF Init, Jobs, Pull
<1>5. QED
  BY <1>1, <1>2, <1>3, <1>4 DEF Init, Inv, States, Stopped, Default

(* The future of one problem changes; the graphs stay. *)
LEMMA JobMoves ==
  ASSUME Jobs, NEW p \in Problem, NEW j \in JobType, Spawning(j)', Ended(j)',
         job' = [job EXCEPT ![p] = j], graphs' = graphs
  PROVE  Jobs'
<1>1. \A q \in Problem : job[q] \in JobType /\ Spawning(job[q]) /\ Ended(job[q])
  BY DEF Jobs
<1>2. ASSUME NEW k, Spawning(k), Ended(k) PROVE Spawning(k)' /\ Ended(k)'
  BY <1>2 DEF Spawning, Ended, Only, AppliedTo
<1>3. job' \in [Problem -> JobType] /\ job'[p] = j /\ \A q \in Problem \ {p} : job'[q] = job[q]
  BY DEF Jobs
<1>4. ASSUME NEW q \in Problem PROVE (Spawning(job[q]) /\ Ended(job[q]))'
  <2>1. CASE q = p
    BY <1>3, <2>1 DEF Spawning, Ended, Only, AppliedTo
  <2>2. CASE q # p
    <3>1. PICK k : k = job[q]
      OBVIOUS
    <3>2. Spawning(k)' /\ Ended(k)' /\ job'[q] = k
      BY <1>1, <1>2, <1>3, <2>2, <3>1
    <3>3. QED
      BY <3>2 DEF Spawning, Ended, Only, AppliedTo
  <2>3. QED
    BY <2>1, <2>2
<1>5. QED
  BY <1>3, <1>4 DEF Jobs

(* The graphs stay, and so does what is known of them. *)
LEMMA GraphsStay ==
  ASSUME GraphsTyped, Owned, UNCHANGED graphVars
  PROVE  GraphsTyped' /\ Owned'
BY DEF graphVars, watch, db, GraphsTyped, GraphsTypeOK, Owned, Keeps, Busy

LEMMA LookInv ==
  ASSUME Inv, NEW p \in Problem, Look(p)
  PROVE  Inv'
<1>1. /\ job' = [job EXCEPT ![p] = Finished]
      /\ result' \in {"Empty", "Ready"}
      /\ UNCHANGED graphVars /\ graphs' = graphs /\ vm' = vm
  BY DEF Look, Done, graphVars
<1>2. Jobs'
  BY <1>1, StartType, FinishedStays, JobMoves DEF Inv
<1>3. QED
  BY <1>1, <1>2, GraphsStay DEF Inv, States

LEMMA RegisterInv ==
  ASSUME Inv, NEW p \in Problem, Register(p)
  PROVE  Inv'
<1>1. UNCHANGED <<graphVars, result, job>> /\ graphs' = graphs /\ vm' = "Panicked"
  BY DEF Register, graphVars
<1>2. Jobs'
  BY <1>1 DEF Inv, Jobs, Spawning, Ended, Only, AppliedTo
<1>3. QED
  BY <1>1, <1>2, GraphsStay DEF Inv, Stopped

LEMMA SolveInv ==
  ASSUME Inv, NEW p \in Problem, Solve(p)
  PROVE  Inv'
<1>1. PICK used \in {{}, Planned} :
        job' = [job EXCEPT ![p] =
            [pc |-> "run", snap |-> graphs, used |-> used,
             todo |-> Live(graphs) \X (functions \intersect Final),
             alone |-> Cardinality(functions \intersect Final) = 1]]
  BY DEF Solve
<1>2. UNCHANGED graphVars /\ graphs' = graphs /\ vm' = vm /\ result' = result
  BY DEF Solve, graphVars
<1>3. graphs \in SnapType /\ functions \subseteq Function /\ IsFiniteSet(functions \intersect Final)
  BY DependencyAssumption, FS_Subset DEF Inv, GraphsTyped, GraphsTypeOK, SnapType
<1>4. used \subseteq functions \intersect Final
  BY <1>3, PlannedIs
<1>5. Live(graphs) \subseteq Connector
  BY <1>3 DEF Live, SnapType
<1>6. PICK j : j = [pc |-> "run", snap |-> graphs, used |-> used,
                    todo |-> Live(graphs) \X (functions \intersect Final),
                    alone |-> Cardinality(functions \intersect Final) = 1]
  OBVIOUS
<1>7. /\ j.pc = "run" /\ j.snap = graphs /\ j.used = used
      /\ j.todo = Live(graphs) \X (functions \intersect Final)
      /\ j.alone <=> Cardinality(functions \intersect Final) = 1
  BY <1>6
<1>8. j \in JobType
  <2>1. Live(graphs) \X (functions \intersect Final) \in SUBSET (Connector \X Function)
    BY <1>3, <1>5
  <2>2. used \in SUBSET Function /\ (Cardinality(functions \intersect Final) = 1) \in BOOLEAN
    BY <1>3, <1>4
  <2>3. QED
    BY <1>3, <1>6, <2>1, <2>2 DEF JobType
<1>9. Spawning(j)'
  <2>1. ASSUME j.alone PROVE \E f \in Function : Only(j, f)'
    <3>1. PICK f : functions \intersect Final = {f}
      BY <1>3, <1>7, <2>1, FS_Singleton
    <3>2. f \in Function
      BY <1>3, <3>1
    <3>3. /\ j.used \subseteq {f}
          /\ j.todo \subseteq Connector \X {f}
          /\ \A c \in Live(j.snap) : <<c, f>> \in j.todo
      BY <1>4, <1>5, <1>7, <3>1
    <3>4. QED
      BY <3>2, <3>3 DEF Only
  <2>2. j.todo \subseteq Live(j.snap) \X Function
    BY <1>3, <1>7
  <2>3. QED
    BY <1>3, <1>7, <2>1, <2>2 DEF Spawning
<1>10. Ended(j)'
  BY <1>7 DEF Ended
<1>11. Jobs'
  BY <1>1, <1>2, <1>6, <1>8, <1>9, <1>10, JobMoves DEF Inv
<1>12. QED
  BY <1>2, <1>11, GraphsStay DEF Inv

(* What Insert leaves of the problem's future. *)
LEMMA LeftIs ==
  ASSUME NEW j \in JobType, Spawning(j), j.pc = "run",
         NEW c, NEW f, <<c, f>> \in j.todo, NEW k, k = Left(j, <<c, f>>),
         graphs \in SnapType,
         graphs' = [graphs EXCEPT ![c] = [j.snap[c] EXCEPT !.flows = @ \union (j.used \intersect {f})]]
  PROVE  /\ graphs' \in SnapType
         /\ c \in Connector /\ \A d \in Connector \ {c} : graphs'[d] = graphs[d]
         /\ k \in JobType /\ Spawning(k)' /\ Ended(k)'
<1>1. /\ j.snap \in SnapType
      /\ c \in Live(j.snap) /\ f \in Function
      /\ j.todo \subseteq Live(j.snap) \X Function
  BY DEF Spawning
<1>2. c \in Connector /\ j.snap[c] \in Graph
  BY <1>1 DEF Live, SnapType
<1>3. j.used \subseteq Function
  BY DEF JobType
<1>4. [j.snap[c] EXCEPT !.flows = @ \union (j.used \intersect {f})] \in Graph
  BY <1>2, <1>3 DEF Graph
<1>5. graphs' \in SnapType /\ \A d \in Connector \ {c} : graphs'[d] = graphs[d]
  BY <1>2, <1>4 DEF SnapType
<1>6. CASE j.todo = {<<c, f>>} /\ ~j.alone
  BY <1>2, <1>5, <1>6, StartType, FinishedStays DEF Left
<1>7. CASE ~(j.todo = {<<c, f>>} /\ ~j.alone)
  <2>1. k = [j EXCEPT !.todo = j.todo \ {<<c, f>>}, !.pc = IF j.todo = {<<c, f>>} THEN "done" ELSE "run"]
    BY <1>7 DEF Left
  <2>2. /\ k \in JobType
        /\ k.pc = IF j.todo = {<<c, f>>} THEN "done" ELSE "run"
        /\ k.todo = j.todo \ {<<c, f>>}
        /\ k.snap = j.snap /\ k.used = j.used /\ k.alone = j.alone
    <3>1. PICK t : t = j.todo \ {<<c, f>>}
      OBVIOUS
    <3>2. PICK pc : pc = IF j.todo = {<<c, f>>} THEN "done" ELSE "run"
      OBVIOUS
    <3>3. t \in SUBSET (Connector \X Function)
      BY <3>1 DEF JobType
    <3>4. k = [j EXCEPT !.todo = t, !.pc = pc]
      BY <2>1, <3>1, <3>2
    <3>5. /\ k \in JobType /\ k.pc = pc /\ k.todo = t
          /\ k.snap = j.snap /\ k.used = j.used /\ k.alone = j.alone
      BY <3>2, <3>3, <3>4 DEF JobType
    <3>6. QED
      BY <3>1, <3>2, <3>5
  <2>3. ASSUME k.alone PROVE Only(k, f)'
    <3>1. PICK g \in Function : Only(j, g)
      BY <2>2, <2>3 DEF Spawning
    <3>2. g = f
      BY <3>1 DEF Only
    <3>3. /\ k.used \subseteq {f} /\ k.todo \subseteq Connector \X {f}
          /\ \A d \in Live(j.snap) : <<d, f>> \in j.todo \/ AppliedTo(j, d)
      BY <2>2, <3>1, <3>2 DEF Only
    <3>4. j.used \intersect {f} = j.used
      BY <2>2, <3>3
    <3>5. graphs'[c] = [k.snap[c] EXCEPT !.flows = @ \union k.used]
      BY <1>2, <2>2, <3>4 DEF SnapType
    <3>6. ASSUME NEW d \in Live(k.snap) PROVE <<d, f>> \in k.todo \/ AppliedTo(k, d)'
      <4>1. CASE d = c
        BY <3>5, <4>1 DEF AppliedTo
      <4>2. CASE d # c
        <5>1. d \in Connector /\ <<d, f>> # <<c, f>>
          BY <1>1, <2>2, <4>2 DEF Live, SnapType
        <5>2. graphs'[d] = graphs[d]
          BY <1>5, <4>2, <5>1
        <5>3. <<d, f>> \in j.todo \/ graphs[d] = [j.snap[d] EXCEPT !.flows = @ \union j.used]
          BY <2>2, <3>3 DEF AppliedTo
        <5>4. QED
          BY <2>2, <5>1, <5>2, <5>3 DEF AppliedTo
      <4>3. QED
        BY <4>1, <4>2
    <3>7. QED
      BY <3>3, <3>6 DEF Only
  <2>4. Spawning(k)'
    BY <1>1, <2>2, <2>3 DEF Spawning
  <2>5. Ended(k)'
    <3>1. CASE k.alone /\ k.pc = "done"
      <4>1. k.todo = {} /\ Only(k, f)' /\ k.snap \in SnapType
        BY <1>1, <2>2, <2>3, <3>1
      <4>2. QED
        BY <1>1, <4>1, OnlyEndsNext
    <3>2. CASE ~(k.alone /\ k.pc = "done")
      BY <3>2 DEF Ended
    <3>3. QED
      BY <3>1, <3>2
  <2>6. QED
    BY <1>2, <1>5, <2>2, <2>4, <2>5
<1>8. QED
  BY <1>6, <1>7

(* The futures after a step, each with what is to be shown of it. *)
LEMMA JobsNext ==
  ASSUME NEW js \in [Problem -> JobType], job' = js,
         \A q \in Problem : Spawning(js[q])' /\ Ended(js[q])'
  PROVE  Jobs'
<1>1. \A q \in Problem : job'[q] = js[q]
  OBVIOUS
<1>2. ASSUME NEW q \in Problem PROVE (Spawning(job[q]) /\ Ended(job[q]))'
  <2>1. PICK k : k = js[q] /\ Spawning(k)' /\ Ended(k)'
    OBVIOUS
  <2>2. job'[q] = k
    BY <1>1, <2>1
  <2>3. Spawning(job[q])'
    BY <2>1, <2>2 DEF Spawning, Only, AppliedTo
  <2>4. Ended(job[q])'
    BY <2>1, <2>2 DEF Ended
  <2>5. QED
    BY <2>3, <2>4
<1>3. QED
  BY <1>2 DEF Jobs

LEMMA InsertInv ==
  ASSUME Inv, NEW p \in Problem, NEW c \in Connector, NEW f \in Function, Insert(p, c, f)
  PROVE  Inv'
<1>1. PICK js : js = Overlap(job, p)
  OBVIOUS
<1>2. /\ js \in [Problem -> JobType]
      /\ js[p] = job[p]
      /\ \A q \in Problem \ {p} : Spawning(js[q])' /\ Ended(js[q])'
  BY <1>1, OverlapIs DEF Inv
<1>3. PICK j \in JobType : j = job[p] /\ Spawning(j)
  BY DEF Inv, Jobs
<1>4. PICK k : k = Left(j, <<c, f>>)
  OBVIOUS
<1>5. /\ j.pc = "run" /\ <<c, f>> \in j.todo
      /\ graphs' = [graphs EXCEPT ![c] = [j.snap[c] EXCEPT !.flows = @ \union (j.used \intersect {f})]]
      /\ stray' = IF graphs[c] = None THEN stray \union {c} ELSE stray
      /\ result' \in {"Completed", result}
      /\ UNCHANGED <<watch, spent, db, functions, loops, policy, vm>>
  BY <1>3 DEF Insert, Spawned
<1>6. job' = [js EXCEPT ![p] = k]
  BY <1>1, <1>2, <1>3, <1>4 DEF Insert
<1>7. graphs \in SnapType
  BY DEF Inv, GraphsTyped, GraphsTypeOK, SnapType
<1>8. /\ graphs' \in SnapType
      /\ \A d \in Connector \ {c} : graphs'[d] = graphs[d]
      /\ k \in JobType /\ Spawning(k)' /\ Ended(k)'
  BY <1>3, <1>4, <1>5, <1>7, LeftIs
<1>9. Jobs'
  <2>1. PICK ks : ks = [js EXCEPT ![p] = k]
    OBVIOUS
  <2>2. /\ ks \in [Problem -> JobType] /\ ks[p] = k
        /\ \A q \in Problem \ {p} : ks[q] = js[q]
    BY <1>2, <1>8, <2>1
  <2>3. ASSUME NEW q \in Problem PROVE Spawning(ks[q])' /\ Ended(ks[q])'
    <3>1. CASE q = p
      BY <1>8, <2>2, <3>1
    <3>2. CASE q # p
      BY <1>2, <2>2, <3>2
    <3>3. QED
      BY <3>1, <3>2
  <2>4. QED
    BY <1>6, <2>1, <2>2, <2>3, JobsNext
<1>10. GraphsTyped'
  BY <1>5, <1>8 DEF Inv, GraphsTyped, GraphsTypeOK, SnapType, watch, db
<1>11. Owned'
  <2>1. ASSUME NEW d \in Connector \ stray', graphs'[d] # None
        PROVE  \E t \in Type : Keeps(t, d)
    <3>1. d \notin stray /\ graphs[d] # None
      BY <1>5, <1>8, <2>1
    <3>2. QED
      BY <3>1 DEF Inv, Owned
  <2>2. QED
    BY <1>5, <2>1 DEF Owned, Keeps, Busy
<1>12. QED
  BY <1>5, <1>9, <1>10, <1>11 DEF Inv, States

LEMMA BeginIs ==
  ASSUME Begin
  PROVE  Jobs' /\ result' \in {"Ready", "Completed"}
<1>1. PICK problems \in SUBSET Problem : result' = Default(problems) /\ job' = Pull(problems)
  BY DEF Begin
<1>2. PICK js : js = Pull(problems)
  OBVIOUS
<1>3. js \in [Problem -> JobType] /\ \A q \in Problem : js[q] \in {Start, Finished}
  BY <1>2, StartType DEF Pull
<1>4. \A q \in Problem : Spawning(js[q])' /\ Ended(js[q])'
  BY <1>3, StartStays, FinishedStays
<1>5. QED
  BY <1>1, <1>2, <1>3, <1>4, JobsNext DEF Default

LEMMA StepFailsInv ==
  ASSUME Inv, StepFails
  PROVE  Inv'
<1>1. /\ spent' \in 0 .. Limit
      /\ vm' = "Pending" /\ result' \in {"Ready", "Completed"}
      /\ UNCHANGED <<watch, db, functions, loops, graphs, stray>>
  BY SpendType, BeginIs DEF StepFails, Inv
<1>2. GraphsTyped' /\ Owned'
  BY <1>1 DEF Inv, watch, db, GraphsTyped, GraphsTypeOK, Owned, Keeps, Busy
<1>3. Jobs'
  BY BeginIs DEF StepFails
<1>4. QED
  BY <1>1, <1>2, <1>3 DEF Inv, States

LEMMA StepInv ==
  ASSUME Inv, Step
  PROVE  Inv'
<1>1. /\ vm' \in {result, "Ended"} /\ result' \in {"Ready", "Completed"}
      /\ UNCHANGED graphVars
  BY BeginIs DEF Step
<1>2. GraphsTyped' /\ Owned'
  BY <1>1, GraphsStay DEF Inv
<1>3. Jobs'
  BY BeginIs DEF Step
<1>4. QED
  BY <1>1, <1>2, <1>3 DEF Inv, States, Stopped

LEMMA BesideInv ==
  ASSUME Inv, Beside(GraphsStep)
  PROVE  Inv'
<1>1. /\ GraphsStep
      /\ job' = IF graphs' = graphs THEN job ELSE Overlap(job, None)
      /\ UNCHANGED <<vm, result>>
  BY DEF Beside
<1>2. GraphsTyped' /\ Owned'
  BY <1>1, GraphsStepInv DEF Inv
<1>3. CASE graphs' = graphs
  <2>1. Jobs'
    BY <1>1, <1>3 DEF Inv, Jobs, Spawning, Ended, Only, AppliedTo
  <2>2. QED
    BY <1>1, <1>2, <2>1 DEF Inv
<1>4. CASE graphs' # graphs
  <2>1. PICK js : js = Overlap(job, None)
    OBVIOUS
  <2>2. /\ js \in [Problem -> JobType]
        /\ \A q \in Problem : Spawning(js[q])' /\ Ended(js[q])'
    BY <2>1, OverlapIs, VmAssumption DEF Inv
  <2>3. Jobs'
    BY <1>1, <1>4, <2>1, <2>2, JobsNext
  <2>4. QED
    BY <1>1, <1>2, <2>3 DEF Inv
<1>5. QED
  BY <1>3, <1>4

LEMMA NextInv == Inv /\ [Next]_vars => Inv'
<1>1. SUFFICES ASSUME Inv, [Next]_vars PROVE Inv'
  OBVIOUS
<1>2. CASE Beside(GraphsStep)
  BY <1>1, <1>2, BesideInv
<1>3. ASSUME NEW p \in Problem, Look(p) \/ Register(p) \/ Solve(p) PROVE Inv'
  BY <1>1, <1>3, LookInv, RegisterInv, SolveInv
<1>4. ASSUME NEW p \in Problem, NEW c \in Connector, NEW f \in Function, Insert(p, c, f)
      PROVE  Inv'
  BY <1>1, <1>4, InsertInv
<1>5. CASE StepFails
  BY <1>1, <1>5, StepFailsInv
<1>6. CASE Step
  BY <1>1, <1>6, StepInv
<1>7. CASE UNCHANGED vars
  <2>1. UNCHANGED graphVars /\ UNCHANGED <<graphs, vm, result, job>>
    BY <1>7 DEF vars, graphVars
  <2>2. Jobs'
    BY <1>1, <2>1 DEF Inv, Jobs, Spawning, Ended, Only, AppliedTo
  <2>3. QED
    BY <1>1, <2>1, <2>2, GraphsStay DEF Inv
<1>8. QED
  BY <1>1, <1>2, <1>3, <1>4, <1>5, <1>6, <1>7 DEF Next

(* While the loops, the watch and the functions write the same graphs, and some of
   those writes fail, every graph in the database is looked after by a loop that will
   remove it with its object (resource.rs, connector/mod.rs), except the graphs that a
   loop had stored when a later store of the same list failed (connector/mod.rs) and
   those that a function wrote back after they were removed (polars.rs); and where one
   function is spawned for a graph and nobody else writes, the flows that were
   solved are in the graph when the problem is done (vm.rs). *)
THEOREM VmSafe == Spec => []Safe
<1>1. Inv => Safe
  BY InvIsSafe
<1>2. QED
  BY <1>1, InitInv, NextInv, PTL DEF Spec
=============================================================================
