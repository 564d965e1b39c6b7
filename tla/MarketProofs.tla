---------------------------- MODULE MarketProofs ----------------------------
(***************************************************************************)
(* Theorems about Market, for any products, prices, offers, callers and    *)
(* trades and any number of disturbances.  Of the solver: that matching    *)
(* ends, and that its trades suit both sides and clear the list, however   *)
(* long; hence that what it plans clears what the agent has listed, and    *)
(* that its trades are fair when they commit.  Of the gateway, where the   *)
(* database serialises its transactions: that it implements the Ledger.    *)
(*                                                                         *)
(* Match is a recursive function.  BookInduction stands for induction over *)
(* its argument: a set that contains whatever ends the loop, and whatever  *)
(* a round of the loop takes into it, contains every pair of queues, for   *)
(* otherwise there were one outside it of least size.                      *)
(***************************************************************************)
EXTENDS Market, FiniteSetTheorems, WellFoundedInduction, TLAPS

-----------------------------------------------------------------------------
(* A set of numbers has a least element, and a greatest one if it is finite. *)
LEMMA Least ==
  ASSUME NEW T \in SUBSET Nat, T # {}
  PROVE  \E n \in T : \A m \in T : n <= m
<1>1. PICK n \in T : \A m \in T : <<m, n>> \notin OpToRel(<, Nat)
  BY WFMin, NatLessThanWellFounded, Zenon
<1>2. \A m \in T : ~(m < n)
  BY <1>1, Zenon DEF OpToRel
<1>3. QED
  BY <1>2

LEMMA Greatest ==
  ASSUME NEW T \in SUBSET Nat, T # {}, IsFiniteSet(T)
  PROVE  \E n \in T : \A m \in T : m <= n
<1> DEFINE Above(n) == {m \in T : m > n}
           Sizes == {Cardinality(Above(n)) : n \in T}
<1>1. \A n \in T : IsFiniteSet(Above(n)) /\ Cardinality(Above(n)) \in Nat
  BY FS_Subset, FS_CardinalityType
<1>2. PICK n \in T : \A m \in T : Cardinality(Above(n)) <= Cardinality(Above(m))
  <2>1. Sizes \in SUBSET Nat /\ Sizes # {}
    BY <1>1
  <2>2. PICK k \in Sizes : \A l \in Sizes : k <= l
    BY <2>1, Least
  <2>3. QED
    BY <2>2
<1>3. ASSUME NEW m \in T, m > n PROVE FALSE
  <2>1. Above(m) \subseteq Above(n)
    <3>1. SUFFICES ASSUME NEW k \in Above(m) PROVE k \in Above(n)
      OBVIOUS
    <3>2. k \in Nat /\ m \in Nat /\ n \in Nat /\ k > m
      OBVIOUS
    <3>3. k > n
      BY <1>3, <3>2
    <3>4. QED
      BY <3>3
  <2>2. m \in Above(n) /\ m \notin Above(m)
    BY <1>3
  <2>3. /\ Cardinality(Above(m)) <= Cardinality(Above(n))
        /\ Cardinality(Above(m)) # Cardinality(Above(n))
    BY <1>1, <2>1, <2>2, FS_Subset
  <2>4. QED
    BY <1>1, <1>2, <2>3
<1>4. QED
  BY <1>3

LEMMA ImageFinite ==
  ASSUME NEW f, IsFiniteSet(DOMAIN f), f = [x \in DOMAIN f |-> f[x]]
  PROVE  IsFiniteSet({f[x] : x \in DOMAIN f})
<1>1. f \in Surjection(DOMAIN f, {f[x] : x \in DOMAIN f})
  BY DEF Surjection
<1>2. QED
  BY <1>1, FS_Surjection

-----------------------------------------------------------------------------
(* The heads of the queues. *)
LEMMA FirstPubIs ==
  ASSUME NEW S \in Queue, S # {}
  PROVE  FirstPub(S) \in S /\ \A y \in S : FirstPub(S).cost <= y.cost
<1> DEFINE Cheap == {x \in S : \A y \in S : x.cost <= y.cost}
           Best(x) == \A y \in S : x.cost < y.cost \/ (x.cost = y.cost /\ x.at <= y.at)
<1>1. \A x \in S : x.cost \in Nat /\ x.at \in Nat
  BY MarketAssumption DEF Queue, PriceItem
<1>2. Cheap # {}
  <2>1. {x.cost : x \in S} \in SUBSET Nat /\ {x.cost : x \in S} # {}
    BY <1>1
  <2>2. PICK n \in {x.cost : x \in S} : \A m \in {x.cost : x \in S} : n <= m
    BY <2>1, Least
  <2>3. QED
    BY <2>2
<1>3. PICK x \in Cheap : \A y \in Cheap : x.at <= y.at
  <2>1. {x.at : x \in Cheap} \in SUBSET Nat /\ {x.at : x \in Cheap} # {}
    BY <1>1, <1>2
  <2>2. PICK n \in {x.at : x \in Cheap} : \A m \in {x.at : x \in Cheap} : n <= m
    BY <2>1, Least
  <2>3. QED
    BY <2>2
<1>4. Best(x) /\ x \in S
  <2>1. SUFFICES ASSUME NEW y \in S PROVE x.cost < y.cost \/ (x.cost = y.cost /\ x.at <= y.at)
    OBVIOUS
  <2>2. x.cost <= y.cost
    OBVIOUS
  <2>3. CASE x.cost = y.cost
    <3>1. y \in Cheap
      BY <2>3
    <3>2. QED
      BY <1>3, <2>3, <3>1
  <2>4. QED
    BY <1>1, <2>2, <2>3
<1>5. FirstPub(S) \in S /\ Best(FirstPub(S))
  BY <1>4 DEF FirstPub
<1>6. QED
  BY <1>1, <1>5

LEMMA FirstSubIs ==
  ASSUME NEW S \in Queue, S # {}
  PROVE  FirstSub(S) \in S /\ \A y \in S : FirstSub(S).cost >= y.cost
<1> DEFINE Dear == {x \in S : \A y \in S : x.cost >= y.cost}
           Best(x) == \A y \in S : x.cost > y.cost \/ (x.cost = y.cost /\ x.at <= y.at)
<1>1. \A x \in S : x.cost \in Nat /\ x.at \in Nat
  BY MarketAssumption DEF Queue, PriceItem
<1>2. Dear # {}
  <2>1. {x.cost : x \in S} \in SUBSET Nat /\ {x.cost : x \in S} # {}
    BY <1>1
  <2>2. IsFiniteSet({x.cost : x \in S})
    <3> DEFINE f == [x \in S |-> x.cost]
    <3>1. IsFiniteSet({f[x] : x \in DOMAIN f})
      BY ImageFinite DEF Queue
    <3>2. QED
      BY <3>1
  <2>3. PICK n \in {x.cost : x \in S} : \A m \in {x.cost : x \in S} : m <= n
    BY <2>1, <2>2, Greatest
  <2>4. PICK x \in S : x.cost = n
    BY <2>3
  <2>5. \A y \in S : x.cost >= y.cost
    BY <1>1, <2>3, <2>4
  <2>6. QED
    BY <2>5
<1>3. PICK x \in Dear : \A y \in Dear : x.at <= y.at
  <2>1. {x.at : x \in Dear} \in SUBSET Nat /\ {x.at : x \in Dear} # {}
    BY <1>1, <1>2
  <2>2. PICK n \in {x.at : x \in Dear} : \A m \in {x.at : x \in Dear} : n <= m
    BY <2>1, Least
  <2>3. QED
    BY <2>2
<1>4. Best(x) /\ x \in S
  <2>1. SUFFICES ASSUME NEW y \in S PROVE x.cost > y.cost \/ (x.cost = y.cost /\ x.at <= y.at)
    OBVIOUS
  <2>2. x.cost >= y.cost
    OBVIOUS
  <2>3. CASE x.cost = y.cost
    <3>1. y \in Dear
      BY <2>3
    <3>2. QED
      BY <1>3, <2>3, <3>1
  <2>4. QED
    BY <1>1, <2>2, <2>3
<1>5. FirstSub(S) \in S /\ Best(FirstSub(S))
  BY <1>4 DEF FirstSub
<1>6. QED
  BY <1>1, <1>5

-----------------------------------------------------------------------------
(* One round of the solver's loop. *)
LEMMA QuantityIs ==
  ASSUME NEW q \in Book, ~Done(q)
  PROVE  LET p == FirstPub(q.pub)
             s == FirstSub(q.sub)
         IN  /\ p \in q.pub /\ s \in q.sub /\ p \in PriceItem /\ s \in PriceItem
             /\ p.cost <= s.cost
             /\ Quantity(q) \in Count /\ Quantity(q) <= p.count /\ Quantity(q) <= s.count
             /\ Quantity(q) = p.count \/ Quantity(q) = s.count
<1> DEFINE p == FirstPub(q.pub)
           s == FirstSub(q.sub)
<1>1. q.pub \in Queue /\ q.sub \in Queue /\ q.pub # {} /\ q.sub # {} /\ ~(p.cost > s.cost)
  BY DEF Book, Done
<1>2. p \in q.pub /\ s \in q.sub
  BY <1>1, FirstPubIs, FirstSubIs
<1>3. p \in PriceItem /\ s \in PriceItem
  BY <1>1, <1>2 DEF Queue
<1>4. p.cost \in Nat /\ s.cost \in Nat /\ p.count \in Count /\ s.count \in Count
  BY <1>3, MarketAssumption DEF PriceItem
<1>5. p.count \in Nat /\ s.count \in Nat
  BY <1>4, MarketAssumption DEF Count
<1> HIDE DEF p, s
<1>6. Quantity(q) = Min({p.count, s.count})
  BY DEF Quantity, p, s
<1>7. Quantity(q) = IF p.count <= s.count THEN p.count ELSE s.count
  BY <1>5, <1>6 DEF Min
<1>8. QED
  BY <1>1, <1>2, <1>3, <1>4, <1>5, <1>7 DEF p, s

LEMMA WithdrawIs ==
  ASSUME NEW S \in Queue, NEW x \in S, NEW n \in Count, n <= x.count
  PROVE  /\ Withdraw(S, x, n) \in Queue
         /\ Cardinality(S) \in Nat /\ Cardinality(Withdraw(S, x, n)) \in Nat
         /\ Cardinality(Withdraw(S, x, n)) <= Cardinality(S)
         /\ x.count = n => Cardinality(Withdraw(S, x, n)) < Cardinality(S)
<1> DEFINE y == [x EXCEPT !.count = @ - n]
           R == S \ {x}
<1>1. IsFiniteSet(S) /\ S \subseteq PriceItem /\ x \in PriceItem
  BY DEF Queue
<1>2. y \in PriceItem
  <2>1. x.count - n \in Count
    BY <1>1, MarketAssumption DEF PriceItem, Count
  <2>2. QED
    BY <1>1, <2>1 DEF PriceItem
<1> HIDE DEF y
<1>3. IsFiniteSet(R) /\ Cardinality(R) = Cardinality(S) - 1
  BY <1>1, FS_RemoveElement
<1>4. IsFiniteSet(R \union {y})
      /\ Cardinality(R \union {y}) = IF y \in R THEN Cardinality(R) ELSE Cardinality(R) + 1
  BY <1>3, FS_AddElement
<1>5. Cardinality(S) \in Nat /\ Cardinality(R) \in Nat
  BY <1>1, <1>3, FS_CardinalityType
<1>6. Withdraw(S, x, n) = IF x.count = n THEN R ELSE R \union {y}
  BY DEF Withdraw, y
<1> HIDE DEF R
<1>7. R \subseteq PriceItem
  BY <1>1 DEF R
<1>8. QED
  BY <1>2, <1>3, <1>4, <1>5, <1>6, <1>7 DEF Queue

Size(q) == Cardinality(q.pub) + Cardinality(q.sub)

LEMMA AfterIs ==
  ASSUME NEW q \in Book, ~Done(q)
  PROVE  After(q) \in Book /\ Size(After(q)) < Size(q)
<1> DEFINE p == FirstPub(q.pub)
           s == FirstSub(q.sub)
           n == Quantity(q)
<1>1. /\ q.pub \in Queue /\ q.sub \in Queue /\ p \in q.pub /\ s \in q.sub
      /\ n \in Count /\ n <= p.count /\ n <= s.count /\ (p.count = n \/ s.count = n)
  BY QuantityIs DEF Book
<1>2. After(q) = [pub |-> Withdraw(q.pub, p, n), sub |-> Withdraw(q.sub, s, n)]
  BY DEF After
<1> HIDE DEF p, s, n
<1>3. /\ Withdraw(q.pub, p, n) \in Queue /\ Withdraw(q.sub, s, n) \in Queue
      /\ Cardinality(q.pub) \in Nat /\ Cardinality(Withdraw(q.pub, p, n)) \in Nat
      /\ Cardinality(q.sub) \in Nat /\ Cardinality(Withdraw(q.sub, s, n)) \in Nat
      /\ Cardinality(Withdraw(q.pub, p, n)) <= Cardinality(q.pub)
      /\ Cardinality(Withdraw(q.sub, s, n)) <= Cardinality(q.sub)
      /\ p.count = n => Cardinality(Withdraw(q.pub, p, n)) < Cardinality(q.pub)
      /\ s.count = n => Cardinality(Withdraw(q.sub, s, n)) < Cardinality(q.sub)
  BY <1>1, WithdrawIs
<1>4. After(q) \in Book
  BY <1>2, <1>3 DEF Book
<1>5. Size(After(q)) < Size(q)
  BY <1>1, <1>2, <1>3 DEF Size
<1>6. QED
  BY <1>4, <1>5

LEMMA SizeType == ASSUME NEW q \in Book PROVE Size(q) \in Nat
  BY FS_CardinalityType DEF Book, Queue, Size

(* What holds when there is nothing to match, and holds before a round if it
   holds after, holds of all there is to match. *)
LEMMA BookInduction ==
  ASSUME NEW T, \A q \in Book : (Done(q) \/ After(q) \in T) => q \in T
  PROVE  Book \subseteq T
<1> DEFINE Sizes == {Size(q) : q \in Book \ T}
<1>1. SUFFICES ASSUME Book \ T # {} PROVE FALSE
  OBVIOUS
<1>2. Sizes \in SUBSET Nat /\ Sizes # {}
  BY <1>1, SizeType
<1>3. PICK k \in Sizes : \A l \in Sizes : k <= l
  BY <1>2, Least
<1>4. PICK q \in Book \ T : Size(q) = k
  BY <1>3
<1>5. ~Done(q) /\ After(q) \notin T
  OBVIOUS
<1>6. After(q) \in Book \ T /\ Size(After(q)) < Size(q)
  BY <1>5, AfterIs
<1>7. k <= Size(After(q)) /\ k \in Nat /\ Size(After(q)) \in Nat
  BY <1>2, <1>3, <1>6
<1>8. QED
  BY <1>4, <1>6, <1>7

-----------------------------------------------------------------------------
(* There is a function that the recursive definition of Match defines: one for
   each number of prices, of which each extends the one before. *)
Solves(g, D) == g = [q \in D |-> IF Done(q) THEN <<>> ELSE <<Deal(q)>> \o g[After(q)]]
UpTo(n) == {q \in Book : Size(q) <= n}

LEMMA SolvesIs ==
  ASSUME NEW g, NEW D, Solves(g, D), NEW q \in D
  PROVE  g[q] = IF Done(q) THEN <<>> ELSE <<Deal(q)>> \o g[After(q)]
<1> DEFINE G == [r \in D |-> IF Done(r) THEN <<>> ELSE <<Deal(r)>> \o g[After(r)]]
<1>1. g = G
  BY DEF Solves
<1>2. G[q] = IF Done(q) THEN <<>> ELSE <<Deal(q)>> \o g[After(q)]
  OBVIOUS
<1> HIDE DEF G
<1>3. QED
  BY <1>1, <1>2

LEMMA SolvesExtends ==
  ASSUME NEW n \in Nat, NEW m \in Nat, n <= m, NEW g, NEW h,
         Solves(g, UpTo(n)), Solves(h, UpTo(m)), NEW q \in UpTo(n)
  PROVE  g[q] = h[q]
<1> DEFINE T == {r \in Book : Size(r) <= n => g[r] = h[r]}
<1>1. ASSUME NEW r \in Book, Done(r) \/ After(r) \in T PROVE r \in T
  <2>1. SUFFICES ASSUME Size(r) <= n PROVE g[r] = h[r]
    OBVIOUS
  <2>2. r \in UpTo(n) /\ r \in UpTo(m)
    BY <2>1, SizeType DEF UpTo
  <2>3. /\ g[r] = IF Done(r) THEN <<>> ELSE <<Deal(r)>> \o g[After(r)]
        /\ h[r] = IF Done(r) THEN <<>> ELSE <<Deal(r)>> \o h[After(r)]
    BY <2>2, SolvesIs
  <2>4. CASE ~Done(r)
    <3>1. After(r) \in Book /\ Size(After(r)) < Size(r)
      BY <2>4, AfterIs
    <3>2. Size(After(r)) <= n
      BY <2>1, <3>1, SizeType
    <3>3. g[After(r)] = h[After(r)]
      BY <1>1, <2>4, <3>2
    <3>4. QED
      BY <2>3, <3>3
  <2>5. QED
    BY <2>3, <2>4
<1>2. Book \subseteq T
  <2> HIDE DEF T
  <2>1. QED
    BY <1>1, BookInduction
<1>3. QED
  BY <1>2 DEF UpTo

LEMMA SolvesExists == ASSUME NEW n \in Nat PROVE \E g : Solves(g, UpTo(n))
<1> DEFINE Bad == {k \in Nat : ~ \E g : Solves(g, UpTo(k))}
<1>1. SUFFICES ASSUME Bad # {} PROVE FALSE
  OBVIOUS
<1>2. PICK k \in Bad : \A l \in Bad : k <= l
  BY <1>1, Least
<1>3. PICK f : k > 0 => Solves(f, UpTo(k - 1))
  <2>1. CASE k > 0
    <3>1. k - 1 \in Nat /\ ~(k <= k - 1)
      BY <2>1
    <3>2. k - 1 \notin Bad
      BY <1>2, <3>1
    <3>3. QED
      BY <3>1, <3>2
  <2>2. QED
    BY <2>1
<1> PICK g : g = [q \in UpTo(k) |-> IF Done(q) THEN <<>> ELSE <<Deal(q)>> \o f[After(q)]]
  OBVIOUS
<1>4. ASSUME NEW q \in UpTo(k), ~Done(q) PROVE f[After(q)] = g[After(q)]
  <2>1. q \in Book /\ After(q) \in Book /\ Size(After(q)) < Size(q) /\ Size(q) <= k
    BY <1>4, AfterIs DEF UpTo
  <2>2. Size(q) \in Nat /\ Size(After(q)) \in Nat /\ k \in Nat
    BY <2>1, SizeType
  <2>3. k > 0 /\ Size(After(q)) <= k - 1 /\ Size(After(q)) <= k
    BY <2>1, <2>2
  <2>4. After(q) \in UpTo(k - 1) /\ After(q) \in UpTo(k)
    BY <2>1, <2>3 DEF UpTo
  <2>5. f[After(q)] = IF Done(After(q)) THEN <<>> ELSE <<Deal(After(q))>> \o f[After(After(q))]
    BY <1>3, <2>3, <2>4, SolvesIs
  <2>6. QED
    BY <2>4, <2>5
<1>5. g = [q \in UpTo(k) |-> IF Done(q) THEN <<>> ELSE <<Deal(q)>> \o g[After(q)]]
  BY <1>4
<1>6. Solves(g, UpTo(k))
  BY <1>5 DEF Solves
<1>7. QED
  BY <1>2, <1>6

LEMMA MatchIs ==
  ASSUME NEW q \in Book
  PROVE  Match[q] = IF Done(q) THEN <<>> ELSE <<Deal(q)>> \o Match[After(q)]
<1>1. PICK G : G = [n \in Nat |-> CHOOSE g : Solves(g, UpTo(n))]
  OBVIOUS
<1>2. ASSUME NEW n \in Nat PROVE Solves(G[n], UpTo(n))
  <2>1. G[n] = CHOOSE g : Solves(g, UpTo(n))
    BY <1>1
  <2>2. QED
    BY <2>1, SolvesExists
<1>3. PICK M : M = [r \in Book |-> G[Size(r)][r]]
  OBVIOUS
<1>4. ASSUME NEW r \in Book
      PROVE  G[Size(r)][r] = IF Done(r) THEN <<>> ELSE <<Deal(r)>> \o M[After(r)]
  <2>1. Size(r) \in Nat /\ r \in UpTo(Size(r))
    BY SizeType DEF UpTo
  <2>2. G[Size(r)][r] = IF Done(r) THEN <<>> ELSE <<Deal(r)>> \o G[Size(r)][After(r)]
    BY <1>2, <2>1, SolvesIs
  <2>3. ASSUME ~Done(r) PROVE G[Size(r)][After(r)] = M[After(r)]
    <3>1. After(r) \in Book /\ Size(After(r)) \in Nat /\ Size(After(r)) <= Size(r)
      BY <2>1, <2>3, AfterIs, SizeType
    <3>2. After(r) \in UpTo(Size(After(r)))
      BY <3>1 DEF UpTo
    <3>3. G[Size(After(r))][After(r)] = G[Size(r)][After(r)]
      BY <1>2, <2>1, <3>1, <3>2, SolvesExtends
    <3>4. QED
      BY <1>3, <3>1, <3>3
  <2>4. QED
    BY <2>2, <2>3
<1>5. M = [r \in Book |-> IF Done(r) THEN <<>> ELSE <<Deal(r)>> \o M[After(r)]]
  BY <1>3, <1>4
<1>6. Match = [r \in Book |-> IF Done(r) THEN <<>> ELSE <<Deal(r)>> \o Match[After(r)]]
  BY <1>5 DEF Match
<1>7. Solves(Match, Book)
  BY <1>6 DEF Solves
<1>8. QED
  BY <1>7, SolvesIs

-----------------------------------------------------------------------------
(* Sums. *)
SumsTo(f, c, n) == f = [k \in 0 .. n |-> IF k = 0 THEN 0 ELSE f[k - 1] + c[k]]

LEMMA SumsToExists == ASSUME NEW c, NEW n \in Nat PROVE \E f : SumsTo(f, c, n)
<1> DEFINE Bad == {k \in Nat : ~ \E f : SumsTo(f, c, k)}
<1>1. SUFFICES ASSUME Bad # {} PROVE FALSE
  OBVIOUS
<1>2. PICK k \in Bad : \A l \in Bad : k <= l
  BY <1>1, Least
<1>3. PICK f : k > 0 => SumsTo(f, c, k - 1)
  <2>1. CASE k > 0
    <3>1. k - 1 \in Nat /\ ~(k <= k - 1)
      BY <2>1
    <3>2. k - 1 \notin Bad
      BY <1>2, <3>1
    <3>3. QED
      BY <3>1, <3>2
  <2>2. QED
    BY <2>1
<1> PICK g : g = [j \in 0 .. k |-> IF j = 0 THEN 0 ELSE f[j - 1] + c[j]]
  OBVIOUS
<1>4. ASSUME NEW j \in 0 .. k, j # 0 PROVE f[j - 1] = g[j - 1]
  <2>1. j - 1 \in 0 .. k /\ j - 1 \in 0 .. k - 1 /\ k > 0
    BY <1>4
  <2>2. f = [i \in 0 .. k - 1 |-> IF i = 0 THEN 0 ELSE f[i - 1] + c[i]]
    BY <1>3, <2>1 DEF SumsTo
  <2>3. f[j - 1] = IF j - 1 = 0 THEN 0 ELSE f[j - 1 - 1] + c[j - 1]
    BY <2>1, <2>2
  <2>4. g[j - 1] = IF j - 1 = 0 THEN 0 ELSE f[j - 1 - 1] + c[j - 1]
    BY <2>1
  <2>5. QED
    BY <2>3, <2>4
<1>5. g = [j \in 0 .. k |-> IF j = 0 THEN 0 ELSE g[j - 1] + c[j]]
  BY <1>4
<1>6. QED
  BY <1>2, <1>5 DEF SumsTo

LEMMA TotalDef ==
  ASSUME NEW c \in Seq(Nat)
  PROVE  \E f : SumsTo(f, c, Len(c)) /\ Total(c) = f[Len(c)]
<1> DEFINE upTo == CHOOSE f : f = [k \in 0 .. Len(c) |-> IF k = 0 THEN 0 ELSE f[k - 1] + c[k]]
<1>1. PICK g : g = [k \in 0 .. Len(c) |-> IF k = 0 THEN 0 ELSE g[k - 1] + c[k]]
  BY SumsToExists DEF SumsTo
<1>2. Total(c) = upTo[Len(c)]
  BY DEF Total
<1>3. upTo = [k \in 0 .. Len(c) |-> IF k = 0 THEN 0 ELSE upTo[k - 1] + c[k]]
  BY <1>1
<1> HIDE DEF upTo
<1>4. QED
  BY <1>2, <1>3 DEF SumsTo

LEMMA SumsIs ==
  ASSUME NEW f, NEW c, NEW n \in Nat, SumsTo(f, c, n), NEW k \in 0 .. n
  PROVE  f[k] = IF k = 0 THEN 0 ELSE f[k - 1] + c[k]
<1> DEFINE F == [j \in 0 .. n |-> IF j = 0 THEN 0 ELSE f[j - 1] + c[j]]
<1>1. f = F
  BY DEF SumsTo
<1>2. F[k] = IF k = 0 THEN 0 ELSE f[k - 1] + c[k]
  OBVIOUS
<1> HIDE DEF F
<1>3. QED
  BY <1>1, <1>2

LEMMA TotalIs ==
  ASSUME NEW c \in Seq(Nat), NEW n \in Nat
  PROVE  /\ Total(c) \in Nat
         /\ Total(<<n>> \o c) = n + Total(c)
<1> DEFINE d == <<n>> \o c
<1>1. d \in Seq(Nat) /\ Len(d) = Len(c) + 1 /\ Len(c) \in Nat /\ d[1] = n
      /\ \A k \in 1 .. Len(c) : d[k + 1] = c[k] /\ c[k] \in Nat
  OBVIOUS
<1> HIDE DEF d
<1>2. PICK f : SumsTo(f, c, Len(c)) /\ Total(c) = f[Len(c)]
  BY TotalDef
<1>3. PICK g : SumsTo(g, d, Len(d)) /\ Total(d) = g[Len(d)]
  BY <1>1, TotalDef
<1> DEFINE Bad == {k \in 0 .. Len(c) : ~(f[k] \in Nat /\ g[k + 1] = n + f[k])}
<1>4. Bad = {}
  <2>1. SUFFICES ASSUME Bad # {} PROVE FALSE
    OBVIOUS
  <2> HIDE DEF Bad
  <2>2. PICK k \in Bad : \A l \in Bad : k <= l
    <3>1. Bad \in SUBSET Nat
      BY <1>1 DEF Bad
    <3>2. QED
      BY <2>1, <3>1, Least
  <2> USE DEF Bad
  <2>3. k \in 0 .. Len(c) /\ k + 1 \in 0 .. Len(d) /\ 0 \in 0 .. Len(d)
    BY <1>1
  <2>4. f[k] = IF k = 0 THEN 0 ELSE f[k - 1] + c[k]
    BY <1>1, <1>2, <2>3, SumsIs
  <2>5. g[0] = 0
    BY <1>1, <1>3, <2>3, SumsIs
  <2>6. g[k + 1] = g[k] + d[k + 1]
    <3> DEFINE j == k + 1
    <3>1. j \in 0 .. Len(d) /\ j # 0 /\ j - 1 = k /\ Len(d) \in Nat
      BY <1>1, <2>3
    <3> HIDE DEF j
    <3>2. g[j] = IF j = 0 THEN 0 ELSE g[j - 1] + d[j]
      BY <1>3, <3>1, SumsIs
    <3>3. g[j] = g[k] + d[j]
      BY <3>1, <3>2
    <3>4. QED
      BY <3>3 DEF j
  <2>7. CASE k = 0
    <3>1. k + 1 \in 1 .. Len(d) /\ d[k + 1] = n
      BY <1>1, <2>7
    <3>2. f[k] = 0 /\ g[k + 1] = n
      BY <2>4, <2>5, <2>6, <2>7, <3>1
    <3>3. QED
      BY <3>2
  <2>8. CASE k # 0
    <3>1. k - 1 \in 0 .. Len(c) /\ ~(k <= k - 1) /\ k \in 1 .. Len(c) /\ k - 1 + 1 = k
      BY <2>3, <2>8
    <3>2. f[k - 1] \in Nat /\ g[k] = n + f[k - 1]
      BY <2>2, <3>1
    <3>3. d[k + 1] = c[k] /\ c[k] \in Nat
      BY <1>1, <3>1
    <3>4. f[k] = f[k - 1] + c[k] /\ g[k + 1] = (n + f[k - 1]) + c[k]
      BY <2>4, <2>6, <2>8, <3>2, <3>3
    <3>5. f[k] \in Nat /\ g[k + 1] = n + f[k]
      BY <3>2, <3>3, <3>4
    <3>6. QED
      BY <3>5
  <2>9. QED
    BY <2>7, <2>8
<1>5. f[Len(c)] \in Nat /\ g[Len(c) + 1] = n + f[Len(c)]
  BY <1>1, <1>4
<1>6. QED
  BY <1>1, <1>2, <1>3, <1>5 DEF d

LEMMA TotalNone == Total(<<>>) = 0
<1>1. PICK f : SumsTo(f, <<>>, 0) /\ Total(<<>>) = f[0]
  <2>1. <<>> \in Seq(Nat) /\ Len(<<>>) = 0
    OBVIOUS
  <2>2. QED
    BY <2>1, TotalDef
<1>2. QED
  BY <1>1 DEF SumsTo

-----------------------------------------------------------------------------
(* What a plan takes from a price. *)
Deals == [pub : Id, sub : Id, cost : Cost, count : Count]

LEMMA DealIs == ASSUME NEW q \in Book, ~Done(q) PROVE Deal(q) \in Deals
  BY QuantityIs DEF Deal, Deals, PriceItem

LEMMA TakenIs ==
  ASSUME NEW d \in Deals, NEW plan \in Seq(Deals), NEW i
  PROVE  /\ Taken(plan, i) \in Nat
         /\ Taken(<<d>> \o plan, i) =
              (IF i \in {d.pub, d.sub} THEN d.count ELSE 0) + Taken(plan, i)
<1> DEFINE n == IF i \in {d.pub, d.sub} THEN d.count ELSE 0
           all == <<d>> \o plan
<1>1. n \in Nat /\ \A k \in 1 .. Len(plan) : plan[k] \in Deals /\ plan[k].count \in Nat
  <2>1. \A e \in Deals : e.count \in Nat
    BY MarketAssumption DEF Deals, Count
  <2>2. \A k \in 1 .. Len(plan) : plan[k] \in Deals
    OBVIOUS
  <2>3. QED
    BY <2>1, <2>2
<1>2. Amounts(plan, i) \in Seq(Nat) /\ Len(Amounts(plan, i)) = Len(plan)
  BY <1>1 DEF Amounts
<1>3. Len(all) = Len(plan) + 1 /\ all[1] = d /\ \A k \in 1 .. Len(plan) : all[k + 1] = plan[k]
  OBVIOUS
<1> HIDE DEF all, n
<1>4. Amounts(all, i) = <<n>> \o Amounts(plan, i)
  <2> DEFINE S == <<n>> \o Amounts(plan, i)
  <2>1. S \in Seq(Nat) /\ Len(S) = Len(plan) + 1 /\ S[1] = n
        /\ \A k \in 1 .. Len(plan) : S[k + 1] = Amounts(plan, i)[k]
    BY <1>1, <1>2
  <2> HIDE DEF S
  <2>2. ASSUME NEW k \in 1 .. Len(plan) + 1 PROVE Amounts(all, i)[k] = S[k]
    <3>1. CASE k = 1
      BY <1>3, <2>1, <3>1 DEF Amounts, n
    <3>2. CASE k # 1
      <4>1. PICK j \in 1 .. Len(plan) : k = j + 1
        <5>1. k - 1 \in 1 .. Len(plan) /\ k = (k - 1) + 1
          BY <3>2
        <5>2. QED
          BY <5>1
      <4>2. all[k] = plan[j] /\ S[k] = Amounts(plan, i)[j]
        BY <1>3, <2>1, <4>1
      <4>3. Amounts(all, i)[k] = IF i \in {all[k].pub, all[k].sub} THEN all[k].count ELSE 0
        BY <1>3 DEF Amounts
      <4>4. Amounts(plan, i)[j] = IF i \in {plan[j].pub, plan[j].sub} THEN plan[j].count ELSE 0
        BY DEF Amounts
      <4>5. QED
        BY <4>2, <4>3, <4>4
    <3>3. QED
      BY <3>1, <3>2
  <2>3. Amounts(all, i) = [k \in 1 .. Len(plan) + 1 |-> Amounts(all, i)[k]]
    BY <1>3 DEF Amounts
  <2>4. S = [k \in 1 .. Len(plan) + 1 |-> S[k]]
    BY <2>1
  <2>5. Amounts(all, i) = S
    BY <2>2, <2>3, <2>4
  <2>6. QED
    BY <2>5 DEF S
<1>5. QED
  BY <1>1, <1>2, <1>4, TotalIs DEF Taken, all, n

LEMMA TakenNone == ASSUME NEW i PROVE Taken(<<>>, i) = 0
<1>1. Amounts(<<>>, i) = <<>>
  BY DEF Amounts
<1>2. QED
  BY <1>1, TotalNone DEF Taken

-----------------------------------------------------------------------------
(* What a plan names. *)
LEMMA AfterKeeps ==
  ASSUME NEW q \in Book, ~Done(q)
  PROVE  /\ \A x \in After(q).pub : \E y \in q.pub : y.id = x.id /\ y.dir = x.dir /\ y.cost = x.cost
         /\ \A x \in After(q).sub : \E y \in q.sub : y.id = x.id /\ y.dir = x.dir /\ y.cost = x.cost
<1>1. ASSUME NEW S \in Queue, NEW x \in S, NEW n, NEW z \in Withdraw(S, x, n)
      PROVE  \E y \in S : y.id = z.id /\ y.dir = z.dir /\ y.cost = z.cost
  <2>1. x \in PriceItem
    BY DEF Queue
  <2>2. z \in S \/ z = [x EXCEPT !.count = @ - n]
    BY DEF Withdraw
  <2>3. QED
    BY <2>1, <2>2 DEF PriceItem
<1>2. QED
  BY <1>1, QuantityIs DEF After, Book

Named(q, plan) ==
    \A k \in 1 .. Len(plan) : \E x \in q.pub, y \in q.sub :
        /\ x.id = plan[k].pub /\ y.id = plan[k].sub
        /\ x.cost <= plan[k].cost /\ plan[k].cost <= y.cost

LEMMA MatchNames ==
  ASSUME NEW q \in Book
  PROVE  Match[q] \in Seq(Deals) /\ Named(q, Match[q])
<1> DEFINE T == {r \in Book : Match[r] \in Seq(Deals) /\ Named(r, Match[r])}
<1>1. ASSUME NEW r \in Book, Done(r) \/ After(r) \in T PROVE r \in T
  <2>1. CASE Done(r)
    <3>1. Match[r] = <<>>
      BY <2>1, MatchIs
    <3>2. <<>> \in Seq(Deals) /\ 1 .. Len(<<>>) = {}
      OBVIOUS
    <3>3. Named(r, <<>>)
      BY <3>2, Zenon DEF Named
    <3>4. QED
      BY <3>1, <3>2, <3>3
  <2>2. CASE ~Done(r)
    <3> DEFINE rest == Match[After(r)]
               all == <<Deal(r)>> \o rest
    <3>1. /\ Match[r] = all
          /\ rest \in Seq(Deals) /\ Named(After(r), rest) /\ Deal(r) \in Deals
      BY <1>1, <2>2, MatchIs, DealIs
    <3> HIDE DEF rest
    <3>2. /\ all \in Seq(Deals) /\ Len(all) = Len(rest) + 1 /\ all[1] = Deal(r)
          /\ \A k \in 1 .. Len(rest) : all[k + 1] = rest[k]
      BY <3>1
    <3> HIDE DEF all
    <3>3. ASSUME NEW k \in 1 .. Len(all)
          PROVE  \E x \in r.pub, y \in r.sub :
                    /\ x.id = all[k].pub /\ y.id = all[k].sub
                    /\ x.cost <= all[k].cost /\ all[k].cost <= y.cost
      <4>1. CASE k = 1
        <5>1. /\ FirstPub(r.pub) \in r.pub /\ FirstSub(r.sub) \in r.sub
              /\ FirstPub(r.pub).cost <= FirstSub(r.sub).cost
              /\ FirstSub(r.sub).cost <= FirstSub(r.sub).cost
          <6>1. FirstSub(r.sub) \in PriceItem
            BY <2>2, QuantityIs
          <6>2. FirstSub(r.sub).cost \in Nat
            BY <6>1, MarketAssumption DEF PriceItem
          <6>3. QED
            BY <2>2, <6>2, QuantityIs
        <5>2. QED
          BY <3>2, <4>1, <5>1 DEF Deal
      <4>2. CASE k # 1
        <5>1. PICK j \in 1 .. Len(rest) : k = j + 1
          <6>1. Len(rest) \in Nat /\ k - 1 \in 1 .. Len(rest) /\ k = (k - 1) + 1
            BY <3>1, <3>2, <4>2
          <6>2. QED
            BY <6>1
        <5>2. all[k] = rest[j]
          BY <3>2, <5>1
        <5>3. PICK x \in After(r).pub, y \in After(r).sub :
                    /\ x.id = rest[j].pub /\ y.id = rest[j].sub
                    /\ x.cost <= rest[j].cost /\ rest[j].cost <= y.cost
          BY <3>1 DEF Named
        <5>4. /\ \E z \in r.pub : z.id = x.id /\ z.cost = x.cost
              /\ \E z \in r.sub : z.id = y.id /\ z.cost = y.cost
          BY <2>2, AfterKeeps
        <5>5. QED
          BY <5>2, <5>3, <5>4
      <4>3. QED
        BY <4>1, <4>2
    <3>4. QED
      BY <3>1, <3>2, <3>3 DEF Named
  <2>3. QED
    BY <2>1, <2>2
<1>2. Book \subseteq T
  <2> HIDE DEF T
  <2>1. QED
    BY <1>1, BookInduction
<1>3. QED
  BY <1>2

LEMMA TakenUnnamed ==
  ASSUME NEW q \in Book, NEW i, \A x \in q.pub \union q.sub : x.id # i
  PROVE  Taken(Match[q], i) = 0
<1> DEFINE T == {r \in Book : (\A x \in r.pub \union r.sub : x.id # i) => Taken(Match[r], i) = 0}
<1>1. ASSUME NEW r \in Book, Done(r) \/ After(r) \in T PROVE r \in T
  <2>1. SUFFICES ASSUME \A x \in r.pub \union r.sub : x.id # i PROVE Taken(Match[r], i) = 0
    OBVIOUS
  <2>2. CASE Done(r)
    BY <2>2, MatchIs, TakenNone
  <2>3. CASE ~Done(r)
    <3>1. \A x \in After(r).pub \union After(r).sub : x.id # i
      BY <2>1, <2>3, AfterKeeps
    <3>2. Taken(Match[After(r)], i) = 0
      BY <1>1, <2>3, <3>1
    <3>3. i \notin {Deal(r).pub, Deal(r).sub}
      BY <2>1, <2>3, QuantityIs DEF Deal
    <3>4. After(r) \in Book /\ Deal(r) \in Deals /\ Match[After(r)] \in Seq(Deals)
      BY <2>3, AfterIs, DealIs, MatchNames
    <3>5. Match[r] = <<Deal(r)>> \o Match[After(r)]
      BY <2>3, MatchIs
    <3>6. QED
      BY <3>2, <3>3, <3>4, <3>5, TakenIs
  <2>4. QED
    BY <2>2, <2>3
<1>2. Book \subseteq T
  <2> HIDE DEF T
  <2>1. QED
    BY <1>1, BookInduction
<1>3. QED
  BY <1>2

-----------------------------------------------------------------------------
(* What a plan leaves. *)
Rest(plan, x) == x.count - Taken(plan, x.id)
All(q) == q.pub \union q.sub
Distinct(q) ==
    /\ \A x \in q.pub : x.dir = "Pub"
    /\ \A x \in q.sub : x.dir = "Sub"
    /\ \A x, y \in All(q) : x.id = y.id => x = y

LEMMA ClearsIs ==
  ASSUME NEW hist, NEW plan,
         \A x \in hist : Rest(plan, x) >= 0,
         \A x, y \in hist :
             x.dir = "Pub" /\ y.dir = "Sub" /\ x.cost <= y.cost =>
                 Rest(plan, x) = 0 \/ Rest(plan, y) = 0,
         \A x, y \in hist :
             /\ x.dir = y.dir
             /\ IF x.dir = "Pub" THEN x.cost < y.cost ELSE x.cost > y.cost
             /\ Taken(plan, y.id) > 0
             => Rest(plan, x) = 0
  PROVE  Clears(hist, plan)
BY DEF Clears, Rest

(* After a round every item is what it was, but for what the round took of the
   two that were matched, and one of them is used up. *)
LEMMA RoundIs ==
  ASSUME NEW q \in Book, ~Done(q), Distinct(q), NEW x \in All(q)
  PROVE  LET p == FirstPub(q.pub)
             s == FirstSub(q.sub)
             n == Quantity(q)
         IN  /\ p \in All(q) /\ s \in All(q) /\ p.id # s.id
             /\ n \in Nat /\ n <= p.count /\ n <= s.count
             /\ x \notin {p, s} => x \in All(After(q)) /\ x.id \notin {p.id, s.id}
             /\ x \in {p, s} /\ x.count # n => [x EXCEPT !.count = @ - n] \in All(After(q))
             /\ x \in {p, s} /\ x.count = n => \A y \in All(After(q)) : y.id # x.id
<1> DEFINE p == FirstPub(q.pub)
           s == FirstSub(q.sub)
           n == Quantity(q)
<1>1. /\ p \in q.pub /\ s \in q.sub /\ n \in Nat /\ n <= p.count /\ n <= s.count
  BY QuantityIs, MarketAssumption DEF Count
<1>2. \A y \in All(q) : y \in PriceItem
  BY DEF Book, Queue, All
<1>3. After(q) = [pub |-> Withdraw(q.pub, p, n), sub |-> Withdraw(q.sub, s, n)]
  BY DEF After
<1> HIDE DEF p, s, n
<1>4. p \in All(q) /\ s \in All(q) /\ p # s /\ p.id # s.id
  BY <1>1 DEF Distinct, All
<1>5. All(After(q)) = Withdraw(q.pub, p, n) \union Withdraw(q.sub, s, n)
  BY <1>3 DEF All
<1>6. x \notin {p, s} => x \in All(After(q)) /\ x.id \notin {p.id, s.id}
  BY <1>4, <1>5 DEF Withdraw, All, Distinct
<1>7. p \notin q.sub /\ s \notin q.pub
  BY <1>1 DEF Distinct
<1>8. x \in {p, s} /\ x.count # n => [x EXCEPT !.count = @ - n] \in All(After(q))
  BY <1>5 DEF Withdraw
<1>9. ASSUME x \in {p, s}, x.count = n, NEW y \in All(After(q)) PROVE y.id # x.id
  <2> DEFINE Less(z) == [z EXCEPT !.count = @ - n]
  <2>1. Less(p).id = p.id /\ Less(s).id = s.id
    BY <1>2, <1>4 DEF PriceItem
  <2>2. \/ y \in All(q) \ {p, s}
        \/ y = Less(p) /\ p.count # n
        \/ y = Less(s) /\ s.count # n
    BY <1>5, <1>7 DEF Withdraw, All
  <2> HIDE DEF Less
  <2>3. CASE y \in All(q) \ {p, s}
    BY <1>4, <1>9, <2>3 DEF Distinct
  <2>4. CASE y = Less(p) /\ p.count # n
    BY <1>4, <1>9, <2>1, <2>4
  <2>5. CASE y = Less(s) /\ s.count # n
    BY <1>4, <1>9, <2>1, <2>5
  <2>6. QED
    BY <2>2, <2>3, <2>4, <2>5
<1>10. QED
  BY <1>1, <1>4, <1>6, <1>8, <1>9 DEF p, s, n

LEMMA AfterDistinct ==
  ASSUME NEW q \in Book, ~Done(q), Distinct(q)
  PROVE  Distinct(After(q))
<1> DEFINE p == FirstPub(q.pub)
           s == FirstSub(q.sub)
           n == Quantity(q)
           Less(z) == [z EXCEPT !.count = @ - n]
<1>1. p \in q.pub /\ s \in q.sub /\ p \in PriceItem /\ s \in PriceItem
  BY QuantityIs
<1>2. After(q) = [pub |-> Withdraw(q.pub, p, n), sub |-> Withdraw(q.sub, s, n)]
  BY DEF After
<1>3. Less(p).id = p.id /\ Less(p).dir = p.dir /\ Less(s).id = s.id /\ Less(s).dir = s.dir
  BY <1>1 DEF PriceItem
<1>4. /\ \A y \in After(q).pub : y \in q.pub \ {p} \/ y = Less(p)
      /\ \A y \in After(q).sub : y \in q.sub \ {s} \/ y = Less(s)
  BY <1>2 DEF Withdraw
<1> HIDE DEF p, s, n, Less
<1>5. p \notin q.sub /\ s \notin q.pub /\ p.id # s.id
  BY <1>1 DEF Distinct, All
<1>6. /\ \A y \in After(q).pub : y.dir = "Pub"
      /\ \A y \in After(q).sub : y.dir = "Sub"
  BY <1>1, <1>3, <1>4 DEF Distinct
<1>7. \A y \in All(After(q)) : y \in All(q) \ {p, s} \/ y \in {Less(p), Less(s)}
  BY <1>4, <1>5 DEF All
<1>8. \A y \in All(q) \ {p, s} : y.id # p.id /\ y.id # s.id
  BY <1>1 DEF All, Distinct
<1>9. ASSUME NEW y \in All(After(q)), NEW z \in All(After(q)), y.id = z.id PROVE y = z
  <2>1. CASE y \in All(q) \ {p, s} /\ z \in All(q) \ {p, s}
    BY <1>9, <2>1 DEF Distinct
  <2>2. CASE y \in {Less(p), Less(s)} /\ z \in {Less(p), Less(s)}
    BY <1>3, <1>5, <1>9, <2>2
  <2>3. QED
    BY <1>3, <1>7, <1>8, <1>9, <2>1, <2>2
<1>10. QED
  BY <1>6, <1>9 DEF Distinct

LEMMA RestIs ==
  ASSUME NEW q \in Book, ~Done(q), Distinct(q), NEW x \in All(q)
  PROVE  LET plan == Match[q]
             later == Match[After(q)]
         IN  /\ \/ Rest(plan, x) = 0
                \/ \E y \in All(After(q)) :
                      /\ y.id = x.id /\ y.dir = x.dir /\ y.cost = x.cost
                      /\ Rest(later, y) = Rest(plan, x)
             /\ x \notin {FirstPub(q.pub), FirstSub(q.sub)} =>
                   x \in All(After(q)) /\ Taken(later, x.id) = Taken(plan, x.id)
<1> DEFINE p == FirstPub(q.pub)
           s == FirstSub(q.sub)
           n == Quantity(q)
           plan == Match[q]
           later == Match[After(q)]
           Less == [x EXCEPT !.count = @ - n]
<1>1. /\ p \in All(q) /\ s \in All(q) /\ p.id # s.id
      /\ n \in Nat /\ n <= p.count /\ n <= s.count
      /\ x \notin {p, s} => x \in All(After(q)) /\ x.id \notin {p.id, s.id}
      /\ x \in {p, s} /\ x.count # n => Less \in All(After(q))
      /\ x \in {p, s} /\ x.count = n => \A y \in All(After(q)) : y.id # x.id
  BY RoundIs
<1>2. x \in PriceItem /\ x.count \in Nat
  <2>1. x \in PriceItem
    BY DEF Book, Queue, All
  <2>2. QED
    BY <2>1, MarketAssumption DEF PriceItem, Count
<1>3. Less.id = x.id /\ Less.dir = x.dir /\ Less.cost = x.cost /\ Less.count = x.count - n
  BY <1>2 DEF PriceItem
<1>4. Deal(q).pub = p.id /\ Deal(q).sub = s.id /\ Deal(q).count = n
  BY DEF Deal
<1>5. /\ Taken(later, x.id) \in Nat
      /\ Taken(plan, x.id) = (IF x.id \in {p.id, s.id} THEN n ELSE 0) + Taken(later, x.id)
  <2>1. After(q) \in Book /\ Deal(q) \in Deals /\ later \in Seq(Deals)
    BY AfterIs, DealIs, MatchNames
  <2>2. plan = <<Deal(q)>> \o later
    BY MatchIs
  <2> HIDE DEF plan, later, p, s, n
  <2>3. QED
    BY <1>4, <2>1, <2>2, TakenIs
<1>6. After(q) \in Book
  BY AfterIs
<1>7. x.count = n /\ x \in {p, s} => Taken(later, x.id) = 0
  <2> HIDE DEF p, s, n
  <2>1. QED
    BY <1>1, <1>6, TakenUnnamed DEF All
<1> HIDE DEF p, s, n, plan, later, Less
<1>8. CASE x \notin {p, s}
  <2>1. x \in All(After(q)) /\ x.id \notin {p.id, s.id}
    BY <1>1, <1>8
  <2>2. Taken(later, x.id) = Taken(plan, x.id)
    BY <1>5, <2>1
  <2>3. Rest(later, x) = Rest(plan, x)
    BY <2>2 DEF Rest
  <2>4. QED
    BY <2>1, <2>2, <2>3 DEF p, s, plan, later
<1>9. CASE x \in {p, s} /\ x.count = n
  <2>1. Taken(plan, x.id) = n
    BY <1>1, <1>5, <1>7, <1>9
  <2>2. Rest(plan, x) = 0
    BY <1>1, <1>9, <2>1 DEF Rest
  <2>3. QED
    BY <1>9, <2>2 DEF p, s, plan
<1>10. CASE x \in {p, s} /\ x.count # n
  <2>1. Less \in All(After(q)) /\ Taken(plan, x.id) = n + Taken(later, x.id)
    BY <1>1, <1>5, <1>10
  <2>2. Rest(later, Less) = Rest(plan, x)
    BY <1>1, <1>2, <1>3, <1>5, <2>1 DEF Rest
  <2>3. QED
    BY <1>3, <1>10, <2>1, <2>2 DEF p, s, plan, later
<1>11. QED
  BY <1>8, <1>9, <1>10

LEMMA MatchClears ==
  ASSUME NEW q \in Book, Distinct(q)
  PROVE  Clears(All(q), Match[q])
<1> DEFINE Clear(r) ==
        /\ \A x \in All(r) : Rest(Match[r], x) >= 0
        /\ \A x, y \in All(r) :
             x.dir = "Pub" /\ y.dir = "Sub" /\ x.cost <= y.cost =>
                 Rest(Match[r], x) = 0 \/ Rest(Match[r], y) = 0
        /\ \A x, y \in All(r) :
             /\ x.dir = y.dir
             /\ IF x.dir = "Pub" THEN x.cost < y.cost ELSE x.cost > y.cost
             /\ Taken(Match[r], y.id) > 0
             => Rest(Match[r], x) = 0
           T == {r \in Book : Distinct(r) => Clear(r)}
<1>1. ASSUME NEW r \in Book, Distinct(r), NEW x \in All(r)
      PROVE  /\ x \in PriceItem /\ x.cost \in Nat /\ x.count \in Nat
             /\ x.dir = "Pub" <=> x \in r.pub
             /\ x.dir = "Sub" <=> x \in r.sub
  <2>1. x \in PriceItem
    BY DEF Book, Queue, All
  <2>2. x.cost \in Nat /\ x.count \in Nat
    <3>1. x.cost \in Cost /\ x.count \in Count
      BY <2>1 DEF PriceItem
    <3>2. Cost \subseteq Nat /\ Count \subseteq Nat
      BY MarketAssumption DEF Count
    <3>3. QED
      BY <3>1, <3>2
  <2>3. QED
    BY <1>1, <2>1, <2>2 DEF Distinct, All
<1>2. ASSUME NEW r \in Book, Done(r), Distinct(r) PROVE Clear(r)
  <2>1. Match[r] = <<>>
    BY <1>2, MatchIs
  <2>2. \A i : Taken(Match[r], i) = 0
    BY <2>1, TakenNone
  <2>3. \A x \in All(r) : Rest(Match[r], x) = x.count
    BY <1>1, <1>2, <2>2 DEF Rest
  <2>4. ASSUME NEW x \in r.pub, NEW y \in r.sub, x.cost <= y.cost PROVE FALSE
    <3>1. r.pub \in Queue /\ r.sub \in Queue /\ r.pub # {} /\ r.sub # {}
      BY DEF Book
    <3>2. /\ FirstPub(r.pub) \in All(r) /\ FirstSub(r.sub) \in All(r)
          /\ x \in All(r) /\ y \in All(r)
          /\ FirstPub(r.pub).cost <= x.cost /\ FirstSub(r.sub).cost >= y.cost
      BY <3>1, FirstPubIs, FirstSubIs DEF All
    <3>3. FirstPub(r.pub).cost > FirstSub(r.sub).cost
      BY <1>2, <3>1 DEF Done
    <3>4. /\ FirstPub(r.pub).cost \in Nat /\ FirstSub(r.sub).cost \in Nat
          /\ x.cost \in Nat /\ y.cost \in Nat
      BY <1>1, <1>2, <3>2
    <3>5. QED
      BY <2>4, <3>2, <3>3, <3>4
  <2>5. QED
    BY <1>1, <1>2, <2>2, <2>3, <2>4
<1>3. ASSUME NEW r \in Book, ~Done(r), After(r) \in T, Distinct(r) PROVE Clear(r)
  <2>1. Clear(After(r))
    BY <1>3, AfterDistinct
  <2> HIDE DEF Clear
  <2>2. \A x \in All(r) :
            \/ Rest(Match[r], x) = 0
            \/ \E y \in All(After(r)) :
                  /\ y.id = x.id /\ y.dir = x.dir /\ y.cost = x.cost
                  /\ Rest(Match[After(r)], y) = Rest(Match[r], x)
    BY <1>3, RestIs
  <2>3. \A x \in All(r) : x \notin {FirstPub(r.pub), FirstSub(r.sub)} =>
            x \in All(After(r)) /\ Taken(Match[After(r)], x.id) = Taken(Match[r], x.id)
    BY <1>3, RestIs
  <2>4. \A x \in All(r) : Rest(Match[r], x) >= 0
    BY <2>1, <2>2 DEF Clear
  <2>5. \A x, y \in All(r) :
            x.dir = "Pub" /\ y.dir = "Sub" /\ x.cost <= y.cost =>
                Rest(Match[r], x) = 0 \/ Rest(Match[r], y) = 0
    <3>1. SUFFICES ASSUME NEW x \in All(r), NEW y \in All(r),
                          x.dir = "Pub" /\ y.dir = "Sub" /\ x.cost <= y.cost,
                          Rest(Match[r], x) # 0, Rest(Match[r], y) # 0
                   PROVE  FALSE
      OBVIOUS
    <3>2. PICK u \in All(After(r)) :
                  /\ u.dir = x.dir /\ u.cost = x.cost
                  /\ Rest(Match[After(r)], u) = Rest(Match[r], x)
      BY <2>2, <3>1
    <3>3. PICK v \in All(After(r)) :
                  /\ v.dir = y.dir /\ v.cost = y.cost
                  /\ Rest(Match[After(r)], v) = Rest(Match[r], y)
      BY <2>2, <3>1
    <3>4. QED
      BY <2>1, <3>1, <3>2, <3>3 DEF Clear
  <2>6. ASSUME NEW x \in All(r), NEW y \in All(r), x.dir = y.dir,
               IF x.dir = "Pub" THEN x.cost < y.cost ELSE x.cost > y.cost,
               Taken(Match[r], y.id) > 0
        PROVE  Rest(Match[r], x) = 0
    <3>1. /\ y # FirstPub(r.pub) /\ y # FirstSub(r.sub)
      <4>1. r.pub \in Queue /\ r.sub \in Queue /\ r.pub # {} /\ r.sub # {}
        BY <1>3 DEF Book, Done
      <4>2. /\ FirstPub(r.pub) \in r.pub /\ FirstSub(r.sub) \in r.sub
            /\ \A z \in r.pub : FirstPub(r.pub).cost <= z.cost
            /\ \A z \in r.sub : FirstSub(r.sub).cost >= z.cost
        BY <4>1, FirstPubIs, FirstSubIs
      <4>3. x.cost \in Nat /\ y.cost \in Nat
        BY <1>1, <1>3
      <4>4. CASE y = FirstPub(r.pub)
        <5>1. y.dir = "Pub" /\ x \in r.pub
          BY <1>1, <1>3, <2>6, <4>2, <4>4
        <5>2. QED
          BY <2>6, <4>2, <4>3, <4>4, <5>1
      <4>5. CASE y = FirstSub(r.sub)
        <5>1. y.dir = "Sub" /\ x \in r.sub
          BY <1>1, <1>3, <2>6, <4>2, <4>5
        <5>2. QED
          BY <2>6, <4>2, <4>3, <4>5, <5>1
      <4>6. QED
        BY <4>4, <4>5
    <3>2. y \in All(After(r)) /\ Taken(Match[After(r)], y.id) > 0
      BY <2>3, <2>6, <3>1
    <3>3. CASE Rest(Match[r], x) # 0
      <4>1. PICK u \in All(After(r)) :
                  /\ u.dir = x.dir /\ u.cost = x.cost
                  /\ Rest(Match[After(r)], u) = Rest(Match[r], x)
        BY <2>2, <3>3
      <4>2. QED
        BY <2>1, <2>6, <3>2, <4>1 DEF Clear
    <3>4. QED
      BY <3>3
  <2>7. QED
    BY <2>4, <2>5, <2>6 DEF Clear
<1> HIDE DEF Clear
<1>4. Book \subseteq T
  <2>1. \A r \in Book : (Done(r) \/ After(r) \in T) => r \in T
    BY <1>2, <1>3
  <2> HIDE DEF T
  <2>2. QED
    BY <2>1, BookInduction
<1>5. Clear(q)
  BY <1>4
<1>6. QED
  BY <1>5, ClearsIs DEF Clear

-----------------------------------------------------------------------------
(* What the solver promises of any list of prices: its trades are templates,
   each between a pub that asks for no more and a sub that gives no less than
   it is made at, and together they clear the list. *)
LEMMA SolveIs ==
  ASSUME NEW prod \in Product, NEW hist \in SUBSET PriceItem, IsFiniteSet(hist),
         \A x, y \in hist : x.id = y.id => x = y
  PROVE  LET plan == Solve(prod, hist)
         IN  /\ plan \in Seq(TransactionTemplate)
             /\ Clears(hist, plan)
             /\ \A k \in 1 .. Len(plan) : \E x, y \in hist :
                  /\ x.dir = "Pub" /\ x.id = plan[k].pub /\ x.cost <= plan[k].cost
                  /\ y.dir = "Sub" /\ y.id = plan[k].sub /\ y.cost >= plan[k].cost
<1> DEFINE q == [pub |-> {x \in hist : x.dir = "Pub"}, sub |-> {x \in hist : x.dir = "Sub"}]
           trades == Match[q]
           plan == Solve(prod, hist)
<1>1. q \in Book /\ Distinct(q) /\ All(q) = hist
  <2>1. q.pub \in Queue /\ q.sub \in Queue
    BY FS_Subset DEF Queue
  <2>2. \A x \in hist : x.dir \in Direction
    BY DEF PriceItem
  <2>3. All(q) = hist
    BY <2>2 DEF All, Direction
  <2>4. QED
    BY <2>1, <2>3 DEF Book, Distinct
<1>2. trades \in Seq(Deals) /\ Named(q, trades) /\ Clears(hist, trades)
  BY <1>1, MatchNames, MatchClears
<1>3. plan = [k \in DOMAIN trades |->
            [prod |-> prod, pub |-> trades[k].pub, sub |-> trades[k].sub,
             cost |-> trades[k].cost, count |-> trades[k].count]]
  BY DEF Solve
<1>4. \A x \in q.pub : x \in hist /\ x.dir = "Pub"
  OBVIOUS
<1>5. \A x \in q.sub : x \in hist /\ x.dir = "Sub"
  OBVIOUS
<1> HIDE DEF q, trades, plan
<1>6. Len(trades) \in Nat /\ DOMAIN trades = 1 .. Len(trades)
      /\ \A k \in 1 .. Len(trades) : trades[k] \in Deals
  BY <1>2
<1>7. \A k \in 1 .. Len(trades) :
        /\ plan[k] \in TransactionTemplate
        /\ plan[k].pub = trades[k].pub /\ plan[k].sub = trades[k].sub
        /\ plan[k].cost = trades[k].cost /\ plan[k].count = trades[k].count
  BY <1>3, <1>6 DEF Deals, TransactionTemplate
<1>8. plan \in Seq(TransactionTemplate) /\ Len(plan) = Len(trades)
  BY <1>3, <1>6, <1>7
<1>9. \A i : Amounts(plan, i) = Amounts(trades, i)
  BY <1>7, <1>8 DEF Amounts
<1>10. \A i : Taken(plan, i) = Taken(trades, i)
  BY <1>9 DEF Taken
<1>11. Clears(hist, plan)
  BY <1>2, <1>10 DEF Clears
<1>12. ASSUME NEW k \in 1 .. Len(plan)
       PROVE  \E x, y \in hist :
                  /\ x.dir = "Pub" /\ x.id = plan[k].pub /\ x.cost <= plan[k].cost
                  /\ y.dir = "Sub" /\ y.id = plan[k].sub /\ y.cost >= plan[k].cost
  <2>1. PICK x \in q.pub, y \in q.sub :
        /\ x.id = trades[k].pub /\ y.id = trades[k].sub
        /\ x.cost <= trades[k].cost /\ trades[k].cost <= y.cost
    BY <1>2, <1>8 DEF Named
  <2>2. y.cost \in Nat /\ trades[k].cost \in Nat
    <3>1. y.cost \in Cost /\ trades[k].cost \in Cost
      BY <1>5, <1>6, <1>8 DEF PriceItem, Deals
    <3>2. QED
      BY <3>1, MarketAssumption
  <2>3. y.cost >= trades[k].cost
    BY <2>1, <2>2
  <2>4. QED
    BY <1>4, <1>5, <1>7, <1>8, <2>1, <2>3
<1>13. QED
  BY <1>8, <1>11, <1>12 DEF plan

-----------------------------------------------------------------------------
(* The invariant.  What the tables hold: *)
Types ==
    /\ product \in [Product -> {None, Gone, TRUE}]
    /\ price \in [Id -> Row \union {None, Gone}]
    /\ offered \in [Id -> Count] /\ sold \in [Id -> Nat]
    /\ keys \in BOOLEAN /\ spent \in 0 .. Limit

(* Every transaction is well, and what it has read belongs to a template with
   something to trade. *)
Begun == [pc : {"readPub"}, t : TransactionTemplate]
HasPub == [pc : {"readSub"}, t : TransactionTemplate, pub : Row]
HasBoth == [pc : {"commit"}, t : TransactionTemplate, pub : Row, sub : Row]
Well(x) ==
    \/ x = Idle
    \/ x \in Begun
    \/ x \in HasPub \union HasBoth /\ x.t.count > 0
TxnOK == txn = [c \in Caller |-> txn[c]] /\ \A c \in Caller : Well(txn[c])

(* What the agent has listed is a list of prices in the order of their ids, up
   to where the next page starts, and what it is about to trade clears it. *)
AgentState ==
    [pc : {"products", "next", "prices", "trade", "wait"}, prods : SUBSET Product,
     prod : Product \union {0}, start : Nat, hist : SUBSET PriceItem,
     plan : Seq(TransactionTemplate)]
List(a) ==
    /\ IsFiniteSet(a.hist)
    /\ \A x, y \in a.hist : x.id = y.id => x = y
    /\ a.pc \in {"products", "next", "wait"} => a.hist = {}
    /\ a.pc = "prices" => a.prod \in Product /\ \A x \in a.hist : x.id <= a.start
    /\ a.pc = "trade" => Clears(a.hist, a.plan)
    /\ a.pc = "wait" => a.plan # <<>>
AgentOK ==
    /\ agent \in AgentState /\ List(agent)
    /\ txn[Agent] # Idle <=> agent.pc = "wait"

(* What the agent has seen of a price is still so, as long as it is there, and
   its trades suit both of their prices. *)
Seen(i, dir) == price[i] # None /\ (Open(i) => price[i].dir = dir)
Suits(t) ==
    /\ Seen(t.pub, "Pub") /\ (Open(t.pub) => price[t.pub].cost <= t.cost)
    /\ Seen(t.sub, "Sub") /\ (Open(t.sub) => price[t.sub].cost >= t.cost)
Shown(x) == Seen(x.id, x.dir) /\ (Open(x.id) => price[x.id].cost = x.cost)
SightOK ==
    /\ \A x \in agent.hist : Shown(x)
    /\ \A k \in 1 .. Len(agent.plan) : Suits(agent.plan[k])
    /\ txn[Agent] # Idle => Suits(txn[Agent].t)

Inv == Types /\ TxnOK /\ AgentOK /\ SightOK

(* No plan clears less than nothing, and none names what is not there. *)
LEMMA ClearsNone == ASSUME NEW plan PROVE Clears({}, plan)
  BY DEF Clears

LEMMA IdleIs ==
  /\ Idle \notin Begun /\ Idle \notin HasPub /\ Idle \notin HasBoth
  /\ Idle.pc = "idle"
  BY DEF Idle, Begun, HasPub, HasBoth

LEMMA RestartIs == Restart \in AgentState /\ List(Restart) /\ Restart.pc = "products"
      /\ Restart.hist = {} /\ Restart.plan = <<>>
  BY FS_EmptySet DEF Restart, AgentState, List

LEMMA InitInv == Init => Inv
<1>1. SUFFICES ASSUME Init PROVE Inv
  OBVIOUS
<1>2. Types
  BY <1>1, MarketAssumption DEF Init, Types, Count
<1>3. TxnOK /\ txn[Agent] = Idle
  BY <1>1 DEF Init, TxnOK, Well, Caller
<1>4. AgentOK
  BY <1>1, <1>3, RestartIs DEF Init, AgentOK
<1>5. SightOK
  BY <1>1, <1>3, RestartIs DEF Init, SightOK
<1>6. QED
  BY <1>2, <1>3, <1>4, <1>5 DEF Inv

-----------------------------------------------------------------------------
(* Pages. *)
LEMMA IdType == Id \subseteq Nat /\ IsFiniteSet(Id) /\ Product \subseteq Nat /\ 0 \notin Product
                /\ PageLimit \in Nat /\ PageLimit > 0
  BY MarketAssumption

LEMMA PageIs ==
  ASSUME NEW S \in SUBSET Nat, NEW start \in Nat
  PROVE  LET page == Page(S, start)
         IN  /\ page \subseteq S /\ IsFiniteSet(page)
             /\ \A i \in page : i > start
             /\ ~IsLast(page) => Max(page) \in page /\ \A i \in page : i <= Max(page)
<1> DEFINE after == {i \in S : i > start}
           Before(i) == {j \in after : j < i}
           page == Page(S, start)
           f == [i \in page |-> Cardinality(Before(i))]
<1>1. /\ page = {i \in after : Cardinality(Before(i)) < PageLimit}
      /\ page \subseteq S /\ \A i \in page : i > start /\ i \in Nat /\ i \in after
  BY DEF Page
<1>2. ASSUME NEW i \in Nat PROVE IsFiniteSet(Before(i)) /\ Cardinality(Before(i)) \in Nat
  <2>1. Before(i) \in SUBSET (0 .. i)
    <3>1. \A j \in Before(i) : j \in Nat /\ j < i
      OBVIOUS
    <3> HIDE DEF Before
    <3>2. \A j \in Before(i) : j \in 0 .. i
      BY <3>1
    <3>3. QED
      BY <3>2
  <2>2. IsFiniteSet(0 .. i)
    BY FS_Interval
  <2> HIDE DEF Before
  <2>3. QED
    BY <2>1, <2>2, FS_Subset, FS_CardinalityType
<1>3. ASSUME NEW i \in page, NEW j \in page, i < j PROVE f[i] # f[j]
  <2>1. i \in Nat /\ j \in Nat /\ i \in after
    BY <1>1
  <2>2. Before(i) \in SUBSET Before(j) /\ i \in Before(j) /\ i \notin Before(i)
    <3>1. \A k \in after : k \in Nat
      OBVIOUS
    <3>2. \A k \in after : k < i => k < j
      BY <1>3, <2>1, <3>1
    <3>3. i \in after /\ i < j /\ ~(i < i)
      BY <1>3, <2>1
    <3> HIDE DEF after
    <3>4. QED
      BY <3>2, <3>3
  <2>3. IsFiniteSet(Before(j))
    BY <1>2, <2>1
  <2> HIDE DEF Before
  <2>4. Cardinality(Before(i)) # Cardinality(Before(j))
    BY <2>2, <2>3, FS_Subset
  <2>5. QED
    BY <2>4
<1>4. IsFiniteSet(page)
  <2>1. f \in [page -> 0 .. PageLimit]
    <3>1. \A i \in page : Cardinality(Before(i)) \in Nat /\ Cardinality(Before(i)) < PageLimit
      BY <1>1, <1>2
    <3> HIDE DEF Before, page
    <3>2. QED
      BY <3>1, IdType
  <2>2. \A i, j \in page : f[i] = f[j] => i = j
    <3>1. \A i, j \in page : i < j \/ i = j \/ j < i
      BY <1>1
    <3> HIDE DEF f, page
    <3>2. QED
      BY <1>3, <3>1
  <2> HIDE DEF f, page
  <2>3. f \in Injection(page, 0 .. PageLimit)
    BY <2>1, <2>2 DEF Injection, IsInjective
  <2>4. IsFiniteSet(0 .. PageLimit)
    BY FS_Interval, IdType
  <2>5. QED
    BY <2>3, <2>4, FS_Injection
<1>5. ASSUME ~IsLast(page) PROVE Max(page) \in page /\ \A i \in page : i <= Max(page)
  <2>1. page # {}
    BY <1>5, FS_EmptySet, IdType DEF IsLast
  <2>2. page \in SUBSET Nat
    BY <1>1
  <2> HIDE DEF page
  <2>3. PICK n \in page : \A m \in page : m <= n
    BY <1>4, <2>1, <2>2, Greatest
  <2>4. \A m \in page : n >= m
    BY <2>2, <2>3
  <2>5. Max(page) \in page /\ \A m \in page : Max(page) >= m
    BY <2>4 DEF Max
  <2>6. QED
    BY <2>2, <2>5
<1>6. QED
  BY <1>1, <1>4, <1>5

-----------------------------------------------------------------------------
(* What a step does to the tables: a price is inserted, and removed, once, and
   neither its direction nor its cost ever changes. *)
Ages ==
    \A i \in Id :
        \/ price'[i] = price[i]
        \/ price[i] = None /\ price'[i] \in Row
        \/ price[i] \in Row /\ price'[i] = Gone
        \/ /\ price[i] \in Row /\ price'[i] \in Row
           /\ price'[i].dir = price[i].dir /\ price'[i].cost = price[i].cost

LEMMA CountType == Count \subseteq Nat /\ \A n \in Count : \A k \in Nat : k <= n => n - k \in Count
  BY MarketAssumption DEF Count

LEMMA DisturbType == ASSUME Types, Disturb PROVE spent' \in 0 .. Limit
  BY MarketAssumption DEF Types, Disturb

(* A committed trade leaves of its prices what was read less what was traded. *)
LEMMA WithdrawnIs ==
  ASSUME Types, NEW x \in HasBoth, Commits(x)
  PROVE  /\ Withdrawn(x) \in [Id -> Row \union {None, Gone}]
         /\ \A i \in Id :
               \/ Withdrawn(x)[i] = price[i]
               \/ /\ price[i] \in Row /\ Withdrawn(x)[i] \in Row
                  /\ Withdrawn(x)[i].dir = price[i].dir /\ Withdrawn(x)[i].cost = price[i].cost
<1> DEFINE pub == x.t.pub
           sub == x.t.sub
           m == x.pub.count - x.t.count
           n == x.sub.count - x.t.count
           half == [price EXCEPT ![pub] = [@ EXCEPT !.count = m]]
           full == [half EXCEPT ![sub] = [@ EXCEPT !.count = n]]
<1>1. /\ pub \in Id /\ sub \in Id /\ x.t.count \in Count
      /\ x.pub.count \in Count /\ x.sub.count \in Count
      /\ x.pub.count >= x.t.count /\ x.sub.count >= x.t.count
      /\ price[pub] \in Row /\ price[sub] \in Row
  BY DEF HasBoth, TransactionTemplate, Row, Commits, Constraints, Open
<1>2. m \in Count /\ n \in Count
  BY <1>1, CountType
<1>3. Withdrawn(x) = full
  BY DEF Withdrawn
<1> HIDE DEF m, n, pub, sub
<1>4. ASSUME NEW r \in Row, NEW k \in Count
      PROVE  /\ [r EXCEPT !.count = k] \in Row
             /\ [r EXCEPT !.count = k].dir = r.dir /\ [r EXCEPT !.count = k].cost = r.cost
  BY DEF Row
<1>5. price \in [Id -> Row \union {None, Gone}]
  BY DEF Types
<1>6. /\ half \in [Id -> Row \union {None, Gone}]
      /\ \A i \in Id : half[i] = IF i = pub THEN [price[pub] EXCEPT !.count = m] ELSE price[i]
  BY <1>1, <1>2, <1>4, <1>5
<1>7. \A i \in Id : full[i] = IF i = sub THEN [half[sub] EXCEPT !.count = n] ELSE half[i]
  BY <1>6
<1>8. /\ half[sub] \in Row /\ half[sub].dir = price[sub].dir /\ half[sub].cost = price[sub].cost
  BY <1>1, <1>2, <1>4, <1>6
<1>9. full \in [Id -> Row \union {None, Gone}]
  BY <1>1, <1>2, <1>4, <1>6, <1>8
<1> HIDE DEF half, full
<1>10. ASSUME NEW i \in Id
       PROVE  \/ full[i] = price[i]
              \/ /\ price[i] \in Row /\ full[i] \in Row
                 /\ full[i].dir = price[i].dir /\ full[i].cost = price[i].cost
  <2>1. CASE i = sub
    <3>1. /\ [half[sub] EXCEPT !.count = n] \in Row
          /\ [half[sub] EXCEPT !.count = n].dir = half[sub].dir
          /\ [half[sub] EXCEPT !.count = n].cost = half[sub].cost
      BY <1>2, <1>4, <1>8
    <3>2. full[i] = [half[sub] EXCEPT !.count = n]
      BY <1>7, <2>1
    <3>3. QED
      BY <1>1, <1>8, <2>1, <3>1, <3>2
  <2>2. CASE i # sub /\ i = pub
    <3>1. /\ [price[pub] EXCEPT !.count = m] \in Row
          /\ [price[pub] EXCEPT !.count = m].dir = price[pub].dir
          /\ [price[pub] EXCEPT !.count = m].cost = price[pub].cost
      BY <1>1, <1>2, <1>4
    <3>2. full[i] = [price[pub] EXCEPT !.count = m]
      BY <1>6, <1>7, <2>2
    <3>3. QED
      BY <1>1, <2>2, <3>1, <3>2
  <2>3. CASE i # sub /\ i # pub
    BY <1>6, <1>7, <2>3
  <2>4. QED
    BY <2>1, <2>2, <2>3
<1>11. QED
  BY <1>3, <1>9, <1>10

LEMMA InsertPriceTypes ==
  ASSUME Types, NEW i \in Id, NEW p \in Product, NEW x \in Offer, InsertPrice(i, p, x)
  PROVE  Types' /\ Ages
<1> DEFINE at == Cardinality({j \in Id : price[j] # None})
           row == [prod |-> p, dir |-> x.dir, cost |-> x.cost, count |-> x.count, at |-> at]
<1>1. at \in Nat
  BY MarketAssumption, FS_Subset, FS_CardinalityType
<1>2. x.dir \in Direction /\ x.cost \in Cost /\ x.count \in Count
  BY InputAssumption
<1>3. /\ price' = [price EXCEPT ![i] = row] /\ price[i] = None
      /\ offered' = [offered EXCEPT ![i] = x.count]
      /\ UNCHANGED <<product, sold, keys, spent>>
  BY DEF InsertPrice
<1> HIDE DEF at
<1>4. row \in Row
  BY <1>1, <1>2 DEF Row
<1> HIDE DEF row
<1>5. Types'
  BY <1>2, <1>3, <1>4 DEF Types
<1>6. Ages
  BY <1>3, <1>4 DEF Ages, Types
<1>7. QED
  BY <1>5, <1>6

LEMMA CommitTypes ==
  ASSUME Types, TxnOK, NEW c \in Caller, NEW arrives \in BOOLEAN, Commit(c, arrives)
  PROVE  Types' /\ Ages
<1> DEFINE x == txn[c]
           traded == {x.t.pub, x.t.sub}
<1>1. x \in HasBoth
  BY IdleIs DEF TxnOK, Well, Begun, HasPub, Commit
<1>2. UNCHANGED <<product, offered, keys>> /\ spent' \in 0 .. Limit
  BY DisturbType DEF Commit, Types
<1>3. CASE ~Commits(x)
  <2>1. UNCHANGED <<price, sold>>
    BY <1>3 DEF Commit
  <2>2. QED
    BY <1>2, <2>1 DEF Types, Ages
<1>4. CASE Commits(x)
  <2>1. /\ price' = Withdrawn(x)
        /\ sold' = [i \in Id |-> IF i \in traded THEN sold[i] + x.t.count ELSE sold[i]]
    BY <1>4 DEF Commit
  <2>2. x.t.count \in Nat
    BY <1>1, CountType DEF HasBoth, TransactionTemplate
  <2>3. sold' \in [Id -> Nat]
    BY <2>1, <2>2 DEF Types
  <2> HIDE DEF x
  <2>4. /\ price' \in [Id -> Row \union {None, Gone}]
        /\ \A i \in Id :
               \/ price'[i] = price[i]
               \/ /\ price[i] \in Row /\ price'[i] \in Row
                  /\ price'[i].dir = price[i].dir /\ price'[i].cost = price[i].cost
    BY <1>1, <1>4, <2>1, WithdrawnIs
  <2>5. QED
    BY <1>2, <2>3, <2>4 DEF Types, Ages
<1>5. QED
  BY <1>3, <1>4

LEMMA TypesStep == ASSUME Types, TxnOK, [Next]_vars PROVE Types' /\ Ages
<1>1. ASSUME NEW p \in Product, InsertProduct(p) PROVE Types' /\ Ages
  BY <1>1 DEF InsertProduct, Types, Ages
<1>2. ASSUME NEW p \in Product, RemoveProduct(p) PROVE Types' /\ Ages
  <2>1. product' \in [Product -> {None, Gone, TRUE}] /\ UNCHANGED <<offered, sold, keys>>
    BY <1>2 DEF RemoveProduct, Types
  <2>2. price' = [i \in Id |-> IF keys /\ Open(i) /\ price[i].prod = p THEN Gone ELSE price[i]]
        /\ spent' \in 0 .. Limit
    BY <1>2, DisturbType DEF RemoveProduct
  <2>3. QED
    BY <2>1, <2>2 DEF Types, Ages, Open
<1>3. ASSUME NEW i \in Id, NEW p \in Product, NEW x \in Offer, InsertPrice(i, p, x)
      PROVE  Types' /\ Ages
  BY <1>3, InsertPriceTypes
<1>4. ASSUME NEW i \in Id, RemovePrice(i) PROVE Types' /\ Ages
  <2>1. price[i] \in Row /\ price' = [price EXCEPT ![i] = Gone] /\ spent' \in 0 .. Limit
        /\ UNCHANGED <<product, offered, sold, keys>>
    BY <1>4, DisturbType DEF RemovePrice, Listed, Open
  <2>2. QED
    BY <2>1 DEF Types, Ages
<1>5. ASSUME NEW c \in Client, NEW t \in Asked, PostTrade(c, t) PROVE Types' /\ Ages
  <2>1. spent' \in 0 .. Limit /\ UNCHANGED <<product, price, offered, sold, keys>>
    BY <1>5, DisturbType DEF PostTrade
  <2>2. QED
    BY <2>1 DEF Types, Ages
<1>6. ASSUME NEW c \in Caller, ReadPub(c) \/ ReadSub(c) PROVE Types' /\ Ages
  BY <1>6 DEF ReadPub, ReadSub, Types, Ages
<1>7. ASSUME NEW c \in Caller, NEW arrives \in BOOLEAN, Commit(c, arrives) PROVE Types' /\ Ages
  BY <1>7, CommitTypes
<1>8. CASE MarketAgent \/ UNCHANGED vars
  BY <1>8 DEF MarketAgent, ListProducts, NextProduct, ListPrices, Trade, vars, Types, Ages
<1>9. CASE RequestFails
  <2>1. spent' \in 0 .. Limit /\ UNCHANGED <<product, price, offered, sold, keys>>
    BY <1>9, DisturbType DEF RequestFails
  <2>2. QED
    BY <2>1 DEF Types, Ages
<1>10. QED
  BY <1>1, <1>2, <1>3, <1>4, <1>5, <1>6, <1>7, <1>8, <1>9 DEF Next, Gateway

-----------------------------------------------------------------------------
(* What the agent has seen stays so: prices only age. *)
LEMMA SuitsKept ==
  ASSUME Ages, NEW t \in TransactionTemplate, Suits(t)
  PROVE  Suits(t)'
<1>1. t.pub \in Id /\ t.sub \in Id
  BY DEF TransactionTemplate
<1>2. ASSUME NEW i \in Id, price[i] # None
      PROVE  /\ price'[i] # None
             /\ price'[i] \in Row => price[i] \in Row /\ price'[i].dir = price[i].dir
                                     /\ price'[i].cost = price[i].cost
  BY <1>2, RowAssumption DEF Ages
<1>3. QED
  BY <1>1, <1>2 DEF Suits, Seen, Open

LEMMA ShownKept ==
  ASSUME Ages, NEW x \in PriceItem, Shown(x)
  PROVE  Shown(x)'
<1>1. x.id \in Id
  BY DEF PriceItem
<1>2. QED
  BY <1>1, RowAssumption DEF Ages, Shown, Seen, Open

(* A step that has the agent see nothing new. *)
Remembers ==
    /\ agent'.hist \subseteq agent.hist
    /\ \A k \in 1 .. Len(agent'.plan) :
          \E j \in 1 .. Len(agent.plan) : agent'.plan[k] = agent.plan[j]
    /\ txn'[Agent] # Idle => txn[Agent] # Idle /\ txn'[Agent].t = txn[Agent].t

LEMMA AgentIsCaller == Agent \in Caller
  BY DEF Caller

LEMMA TemplateIs ==
  ASSUME NEW x, Well(x), x # Idle
  PROVE  x.t \in TransactionTemplate
  BY DEF Well, Begun, HasPub, HasBoth

LEMMA SightKept ==
  ASSUME TxnOK, AgentOK, SightOK, Ages, Remembers
  PROVE  SightOK'
<1>1. ASSUME NEW x \in agent'.hist PROVE Shown(x)'
  <2>1. x \in PriceItem /\ Shown(x)
    BY DEF Remembers, SightOK, AgentOK, AgentState
  <2>2. QED
    BY <2>1, ShownKept
<1>2. ASSUME NEW k \in 1 .. Len(agent'.plan) PROVE Suits(agent.plan[k])'
  <2>1. PICK j \in 1 .. Len(agent.plan) : agent'.plan[k] = agent.plan[j]
    BY DEF Remembers
  <2>2. agent.plan[j] \in TransactionTemplate /\ Suits(agent.plan[j])
    BY DEF AgentOK, AgentState, SightOK
  <2>3. PICK t \in TransactionTemplate : t = agent.plan[j]
    BY <2>2
  <2>4. Suits(t)
    BY <2>2, <2>3
  <2>5. Suits(t)'
    BY <2>4, SuitsKept
  <2>6. QED
    BY <2>1, <2>3, <2>5 DEF Suits, Seen, Open
<1>3. ASSUME txn'[Agent] # Idle PROVE Suits(txn[Agent].t)'
  <2>1. txn[Agent].t \in TransactionTemplate /\ Suits(txn[Agent].t) /\ txn'[Agent].t = txn[Agent].t
    BY <1>3, AgentIsCaller, TemplateIs DEF Remembers, SightOK, TxnOK
  <2>2. PICK t \in TransactionTemplate : t = txn[Agent].t
    BY <2>1
  <2>3. Suits(t)
    BY <2>1, <2>2
  <2>4. Suits(t)'
    BY <2>3, SuitsKept
  <2>5. QED
    BY <2>1, <2>2, <2>4 DEF Suits, Seen, Open
<1>4. QED
  BY <1>1, <1>2, <1>3 DEF SightOK

-----------------------------------------------------------------------------
(* The transactions. *)
LEMMA TxnPut ==
  ASSUME TxnOK, NEW d \in Caller, NEW v, txn' = [txn EXCEPT ![d] = v], Well(v)
  PROVE  TxnOK' /\ \A c \in Caller : txn'[c] = IF c = d THEN v ELSE txn[c]
<1>1. DOMAIN txn = Caller
  BY DEF TxnOK
<1>2. \A c \in Caller : txn'[c] = IF c = d THEN v ELSE txn[c]
  BY <1>1
<1>3. txn' = [c \in Caller |-> txn'[c]]
  BY <1>1
<1>4. QED
  BY <1>2, <1>3 DEF TxnOK

LEMMA TxnSame == ASSUME TxnOK, UNCHANGED txn PROVE TxnOK'
  BY DEF TxnOK

LEMMA AgentSame ==
  ASSUME AgentOK, UNCHANGED agent, (txn'[Agent] # Idle) <=> (txn[Agent] # Idle)
  PROVE  AgentOK'
  BY DEF AgentOK, List

LEMMA RemembersSame ==
  ASSUME UNCHANGED agent, txn'[Agent] = txn[Agent] \/ txn'[Agent] = Idle
         \/ (txn[Agent] # Idle /\ txn'[Agent].t = txn[Agent].t)
  PROVE  Remembers
<1>1. \A k \in 1 .. Len(agent'.plan) : k \in 1 .. Len(agent.plan) /\ agent'.plan[k] = agent.plan[k]
  OBVIOUS
<1>2. QED
  BY <1>1 DEF Remembers

(* What goes on with the agent itself. *)
LEMMA RestartOK ==
  ASSUME agent' = Restart, txn'[Agent] = Idle
  PROVE  AgentOK' /\ Remembers
<1>1. AgentOK'
  BY RestartIs DEF AgentOK, List
<1>2. 1 .. Len(<<>>) = {}
  OBVIOUS
<1>3. Remembers
  BY <1>2, RestartIs DEF Remembers
<1>4. QED
  BY <1>1, <1>3

LEMMA AnswerOK ==
  ASSUME TxnOK, AgentOK, NEW c \in Caller, NEW ok \in BOOLEAN, txn[c] # Idle, Answer(c, ok)
  PROVE  TxnOK' /\ AgentOK' /\ Remembers
<1>1. TxnOK' /\ \A d \in Caller : txn'[d] = IF d = c THEN Idle ELSE txn[d]
  BY TxnPut DEF Answer, Well
<1>2. CASE c # Agent
  <2>1. UNCHANGED agent /\ txn'[Agent] = txn[Agent]
    BY <1>1, <1>2, AgentIsCaller DEF Answer
  <2>2. QED
    BY <1>1, <2>1, AgentSame, RemembersSame
<1>3. CASE c = Agent /\ ~ok
  <2>1. agent' = Restart /\ txn'[Agent] = Idle
    BY <1>1, <1>3 DEF Answer
  <2>2. QED
    BY <1>1, <2>1, RestartOK
<1>4. CASE c = Agent /\ ok
  <2>1. agent' = [agent EXCEPT !.plan = Tail(@), !.pc = "trade"] /\ txn'[Agent] = Idle
    BY <1>1, <1>4 DEF Answer
  <2>2. agent \in AgentState /\ agent.hist = {} /\ agent.plan # <<>>
    BY <1>4 DEF AgentOK, List
  <2>3. /\ agent.plan \in Seq(TransactionTemplate)
        /\ Tail(agent.plan) \in Seq(TransactionTemplate)
        /\ \A k \in 1 .. Len(Tail(agent.plan)) :
              k + 1 \in 1 .. Len(agent.plan) /\ Tail(agent.plan)[k] = agent.plan[k + 1]
    <3>1. agent.plan \in Seq(TransactionTemplate)
      BY <2>2 DEF AgentState
    <3>2. QED
      BY <2>2, <3>1
  <2>4. /\ agent' \in AgentState /\ agent'.hist = {} /\ agent'.pc = "trade"
        /\ agent'.plan = Tail(agent.plan)
    BY <2>1, <2>2, <2>3 DEF AgentState
  <2>5. AgentOK'
    BY <2>1, <2>4, ClearsNone, FS_EmptySet DEF AgentOK, List
  <2>6. Remembers
    BY <2>1, <2>3, <2>4 DEF Remembers
  <2>7. QED
    BY <1>1, <2>5, <2>6
<1>5. QED
  BY <1>2, <1>3, <1>4

LEMMA PostTradeOK ==
  ASSUME TxnOK, AgentOK, NEW c \in Client, NEW t \in Asked, PostTrade(c, t)
  PROVE  TxnOK' /\ AgentOK' /\ Remembers
<1> DEFINE v == [pc |-> "readPub", t |-> t]
<1>1. Well(v)
  BY InputAssumption DEF Well, Begun
<1>2. txn' = [txn EXCEPT ![c] = v] /\ UNCHANGED agent /\ c # Agent /\ c \in Caller
  BY DEF PostTrade, Caller
<1> HIDE DEF v
<1>3. TxnOK' /\ txn'[Agent] = txn[Agent]
  BY <1>1, <1>2, TxnPut, AgentIsCaller
<1>4. QED
  BY <1>2, <1>3, AgentSame, RemembersSame

(* A transaction that goes on to its next read: the agent is not told. *)
LEMMA GoesOn ==
  ASSUME TxnOK, AgentOK, NEW c \in Caller, txn[c] # Idle,
         NEW v, txn' = [txn EXCEPT ![c] = v], UNCHANGED agent,
         Well(v), v # Idle, v.t = txn[c].t
  PROVE  TxnOK' /\ AgentOK' /\ Remembers
<1>1. TxnOK' /\ txn'[Agent] = IF Agent = c THEN v ELSE txn[Agent]
  BY TxnPut, AgentIsCaller
<1>2. (txn'[Agent] # Idle) <=> (txn[Agent] # Idle)
  BY <1>1
<1>3. txn'[Agent] = txn[Agent] \/ (txn[Agent] # Idle /\ txn'[Agent].t = txn[Agent].t)
  BY <1>1
<1>4. QED
  BY <1>1, <1>2, <1>3, AgentSame, RemembersSame

LEMMA ReadPubOK ==
  ASSUME Types, TxnOK, AgentOK, NEW c \in Caller, ReadPub(c)
  PROVE  TxnOK' /\ AgentOK' /\ Remembers
<1> DEFINE t == txn[c].t
           row == price[t.pub]
           v == [pc |-> "readSub", t |-> t, pub |-> row]
<1>1. txn[c] \in Begun /\ txn[c] # Idle
  BY IdleIs DEF ReadPub, TxnOK, Well, HasPub, HasBoth
<1>2. t \in TransactionTemplate /\ t.pub \in Id
  BY <1>1 DEF Begun, TransactionTemplate
<1>3. CASE t.count > 0 /\ Accepted(row, "Pub", t)
  <2>1. row \in Row
    BY <1>2, <1>3 DEF Accepted, Types
  <2>2. txn' = [txn EXCEPT ![c] = v] /\ UNCHANGED agent
    BY <1>3 DEF ReadPub
  <2>3. v \in HasPub /\ v.t = t
    BY <1>2, <2>1 DEF HasPub
  <2> HIDE DEF v
  <2>4. Well(v) /\ v # Idle
    BY <1>3, <2>3, IdleIs DEF Well
  <2>5. QED
    BY <1>1, <2>2, <2>3, <2>4, GoesOn
<1>4. CASE ~(t.count > 0 /\ Accepted(row, "Pub", t))
  <2>1. Answer(c, FALSE)
    BY <1>4 DEF ReadPub
  <2>2. QED
    BY <1>1, <2>1, AnswerOK
<1>5. QED
  BY <1>3, <1>4

LEMMA ReadSubOK ==
  ASSUME Types, TxnOK, AgentOK, NEW c \in Caller, ReadSub(c)
  PROVE  TxnOK' /\ AgentOK' /\ Remembers
<1> DEFINE t == txn[c].t
           row == price[t.sub]
           v == [pc |-> "commit", t |-> t, pub |-> txn[c].pub, sub |-> row]
<1>1. txn[c] \in HasPub /\ t.count > 0 /\ txn[c] # Idle
  BY IdleIs DEF ReadSub, TxnOK, Well, Begun, HasBoth
<1>2. t \in TransactionTemplate /\ t.sub \in Id /\ txn[c].pub \in Row
  BY <1>1 DEF HasPub, TransactionTemplate
<1>3. CASE Accepted(row, "Sub", t)
  <2>1. row \in Row
    BY <1>2, <1>3 DEF Accepted, Types
  <2>2. txn' = [txn EXCEPT ![c] = v] /\ UNCHANGED agent
    BY <1>3 DEF ReadSub
  <2>3. v \in HasBoth /\ v.t = t
    BY <1>2, <2>1 DEF HasBoth
  <2> HIDE DEF v
  <2>4. Well(v) /\ v # Idle
    BY <1>1, <2>3, IdleIs DEF Well
  <2>5. QED
    BY <1>1, <2>2, <2>3, <2>4, GoesOn
<1>4. CASE ~Accepted(row, "Sub", t)
  <2>1. Answer(c, FALSE)
    BY <1>4 DEF ReadSub
  <2>2. QED
    BY <1>1, <2>1, AnswerOK
<1>5. QED
  BY <1>3, <1>4

LEMMA CommitOK ==
  ASSUME Types, TxnOK, AgentOK, NEW c \in Caller, NEW arrives \in BOOLEAN, Commit(c, arrives)
  PROVE  TxnOK' /\ AgentOK' /\ Remembers
<1>1. txn[c] # Idle
  BY IdleIs DEF Commit
<1>2. PICK ok \in BOOLEAN : Answer(c, ok)
  BY DEF Commit
<1>3. QED
  BY <1>1, <1>2, AnswerOK

-----------------------------------------------------------------------------
(* The agent. *)
LEMMA AgentType ==
  ASSUME AgentOK
  PROVE  /\ agent.pc \in {"products", "next", "prices", "trade", "wait"}
         /\ agent.prods \subseteq Product /\ agent.prod \in Product \union {0}
         /\ agent.start \in Nat /\ agent.hist \subseteq PriceItem
         /\ agent.plan \in Seq(TransactionTemplate)
         /\ agent = [pc |-> agent.pc, prods |-> agent.prods, prod |-> agent.prod,
                     start |-> agent.start, hist |-> agent.hist, plan |-> agent.plan]
  BY DEF AgentOK, AgentState

LEMMA RemembersLess ==
  ASSUME AgentOK, agent'.hist \subseteq agent.hist, agent'.plan = agent.plan, UNCHANGED txn
  PROVE  Remembers
<1>1. \A k \in 1 .. Len(agent'.plan) : k \in 1 .. Len(agent.plan) /\ agent'.plan[k] = agent.plan[k]
  OBVIOUS
<1>2. QED
  BY <1>1 DEF Remembers

LEMMA ListProductsOK ==
  ASSUME AgentOK, ListProducts
  PROVE  AgentOK' /\ Remembers
<1> DEFINE page == Page({p \in Product : product[p] = TRUE}, agent.start)
<1>1. /\ page \subseteq Product
      /\ ~IsLast(page) => Max(page) \in page
  BY PageIs, IdType, AgentType
<1> HIDE DEF page
<1>2. agent.pc = "products" /\ agent.hist = {} /\ UNCHANGED txn /\ agent \in AgentState
  BY DEF ListProducts, AgentOK, List
<1>3. agent.prods \union page \subseteq Product
  BY <1>1, AgentType
<1>4. ~IsLast(page) => Max(page) \in Nat
  BY <1>1, IdType
<1>5. \/ agent' = [agent EXCEPT !.prods = @ \union page, !.start = 0, !.pc = "next"]
      \/ ~IsLast(page) /\ agent' = [agent EXCEPT !.prods = @ \union page, !.start = Max(page)]
  BY AgentType DEF ListProducts, page
<1>6. /\ agent'.pc \in {"products", "next"} /\ agent'.hist = {} /\ agent'.plan = agent.plan
      /\ agent' \in AgentState
  <2>1. CASE agent' = [agent EXCEPT !.prods = @ \union page, !.start = 0, !.pc = "next"]
    BY <1>2, <1>3, <2>1 DEF AgentState
  <2>2. CASE ~IsLast(page) /\ agent' = [agent EXCEPT !.prods = @ \union page, !.start = Max(page)]
    BY <1>2, <1>3, <1>4, <2>2 DEF AgentState
  <2>3. QED
    BY <1>5, <2>1, <2>2
<1>7. AgentOK'
  BY <1>2, <1>6, FS_EmptySet DEF AgentOK, List
<1>8. QED
  BY <1>2, <1>6, <1>7, RemembersLess

LEMMA NextProductOK ==
  ASSUME TxnOK, AgentOK, NextProduct
  PROVE  AgentOK' /\ Remembers
<1>1. agent.pc = "next" /\ agent.hist = {} /\ UNCHANGED txn /\ txn[Agent] = Idle
  BY DEF NextProduct, AgentOK, List
<1>2. CASE agent.prods = {}
  <2>1. agent' = Restart
    BY <1>2 DEF NextProduct
  <2>2. QED
    BY <1>1, <2>1, RestartOK
<1>3. CASE agent.prods # {}
  <2> DEFINE p == Min(agent.prods)
             rest == [agent EXCEPT !.prods = @ \ {p}]
  <2>1. p \in Product
    <3>1. agent.prods \in SUBSET Nat
      BY AgentType, IdType
    <3>2. PICK n \in agent.prods : \A m \in agent.prods : n <= m
      BY <1>3, <3>1, Least
    <3>3. Min(agent.prods) \in agent.prods
      BY <3>2 DEF Min
    <3>4. QED
      BY <3>3, AgentType
  <2>2. \/ agent' = [rest EXCEPT !.prod = p, !.pc = "prices"]
        \/ agent' = rest
    BY <1>3 DEF NextProduct
  <2> HIDE DEF p
  <2>3. /\ agent' \in AgentState /\ agent'.hist = {} /\ agent'.plan = agent.plan
        /\ agent'.pc = "next" \/ (agent'.pc = "prices" /\ agent'.prod \in Product)
    BY <1>1, <2>1, <2>2, AgentType DEF AgentState
  <2>4. AgentOK'
    BY <1>1, <2>3, FS_EmptySet DEF AgentOK, List
  <2>5. QED
    BY <1>1, <2>3, <2>4, RemembersLess
<1>4. QED
  BY <1>2, <1>3

LEMMA RequestFailsOK ==
  ASSUME AgentOK, RequestFails
  PROVE  AgentOK' /\ Remembers
<1>1. txn[Agent] = Idle /\ agent' = Restart /\ UNCHANGED txn
  BY DEF RequestFails, AgentOK
<1>2. QED
  BY <1>1, RestartOK

(* A page shows prices as they are, none of which was on a page before. *)
LEMMA ListedIs ==
  ASSUME Types, NEW i \in Listed
  PROVE  Item(i) \in PriceItem /\ Item(i).id = i /\ Shown(Item(i)) /\ i \in Id
<1>1. i \in Id /\ price[i] \in Row
  BY DEF Listed, Open
<1>2. /\ Item(i) \in PriceItem /\ Item(i).id = i
      /\ Item(i).dir = price[i].dir /\ Item(i).cost = price[i].cost
  BY <1>1 DEF Item, PriceItem, Row
<1>3. Shown(Item(i))
  BY <1>1, <1>2, RowAssumption DEF Shown, Seen, Open
<1>4. QED
  BY <1>1, <1>2, <1>3

LEMMA PageShows ==
  ASSUME Inv, agent.pc = "prices", NEW hist,
         hist = agent.hist \union {Item(i) : i \in Page(Listed, agent.start)}
  PROVE  /\ hist \in SUBSET PriceItem /\ IsFiniteSet(hist)
         /\ \A x, y \in hist : x.id = y.id => x = y
         /\ \A x \in hist : Shown(x)
         /\ ~IsLast(Page(Listed, agent.start)) =>
                /\ Max(Page(Listed, agent.start)) \in Nat
                /\ \A x \in hist : x.id <= Max(Page(Listed, agent.start))
<1> DEFINE page == Page(Listed, agent.start)
           f == [i \in page |-> Item(i)]
<1>1. Listed \in SUBSET Nat /\ agent.start \in Nat
  BY IdType, AgentType DEF Listed, Inv
<1>2. /\ page \subseteq Listed /\ IsFiniteSet(page)
      /\ \A i \in page : i > agent.start
      /\ ~IsLast(page) => Max(page) \in page /\ \A i \in page : i <= Max(page)
  BY <1>1, PageIs
<1>3. \A i \in page : Item(i) \in PriceItem /\ Item(i).id = i /\ Shown(Item(i)) /\ i \in Nat
  BY <1>2, ListedIs, IdType DEF Inv
<1>4. /\ agent.hist \in SUBSET PriceItem /\ IsFiniteSet(agent.hist)
      /\ \A x, y \in agent.hist : x.id = y.id => x = y
      /\ \A x \in agent.hist : Shown(x) /\ x.id <= agent.start /\ x.id \in Nat
  <2>1. /\ agent.hist \in SUBSET PriceItem /\ IsFiniteSet(agent.hist)
        /\ \A x, y \in agent.hist : x.id = y.id => x = y
        /\ \A x \in agent.hist : Shown(x) /\ x.id <= agent.start
    BY AgentType DEF Inv, AgentOK, List, SightOK
  <2>2. \A x \in agent.hist : x.id \in Id
    BY <2>1 DEF PriceItem
  <2>3. QED
    BY <2>1, <2>2, IdType
<1>5. IsFiniteSet({Item(i) : i \in page})
  <2>1. IsFiniteSet({f[i] : i \in DOMAIN f})
    BY <1>2, ImageFinite
  <2>2. {f[i] : i \in DOMAIN f} = {Item(i) : i \in page}
    OBVIOUS
  <2>3. QED
    BY <2>1, <2>2
<1> HIDE DEF page, f
<1>6. hist = agent.hist \union {Item(i) : i \in page}
  BY DEF page
<1>7. IsFiniteSet(hist)
  <2>1. PICK new : new = {Item(i) : i \in page}
    OBVIOUS
  <2>2. IsFiniteSet(new) /\ IsFiniteSet(agent.hist)
    BY <1>4, <1>5, <2>1
  <2>3. hist = agent.hist \union new
    BY <1>6, <2>1
  <2>4. IsFiniteSet(agent.hist \union new)
    BY <2>2, FS_Union
  <2>5. QED
    BY <2>3, <2>4
<1>8. \A x \in hist : x \in agent.hist \/ \E i \in page : x = Item(i)
  BY <1>6
<1>9. \A x \in hist : x \in PriceItem /\ Shown(x)
  BY <1>3, <1>4, <1>8
<1>10. ASSUME NEW x \in hist, NEW y \in hist, x.id = y.id PROVE x = y
  <2>1. \A z \in hist : z \in agent.hist \/ (z.id \in page /\ z = Item(z.id))
    BY <1>3, <1>8
  <2>2. \A z \in agent.hist : z.id \notin page
    BY <1>1, <1>2, <1>3, <1>4
  <2>3. QED
    BY <1>4, <1>10, <2>1, <2>2
<1>11. ASSUME ~IsLast(page) PROVE Max(page) \in Nat /\ \A x \in hist : x.id <= Max(page)
  <2>1. Max(page) \in page /\ Max(page) \in Nat /\ agent.start < Max(page)
    BY <1>1, <1>2, <1>3, <1>11
  <2>2. \A x \in hist : x.id \in Nat /\ (x.id <= agent.start \/ x.id \in page)
    BY <1>3, <1>4, <1>8
  <2>3. QED
    BY <1>1, <1>2, <1>11, <2>1, <2>2
<1>12. QED
  BY <1>7, <1>9, <1>10, <1>11 DEF page

LEMMA ListPricesOK ==
  ASSUME Inv, ListPrices
  PROVE  AgentOK' /\ SightOK'
<1> DEFINE page == Page(Listed, agent.start)
           hist == agent.hist \union {Item(i) : i \in page}
           plan == Solve(agent.prod, hist)
<1>1. agent.pc = "prices" /\ UNCHANGED <<price, txn>> /\ agent \in AgentState /\ txn[Agent] = Idle
      /\ agent.prod \in Product
  BY DEF ListPrices, Inv, AgentOK, List
<1>2. /\ hist \in SUBSET PriceItem /\ IsFiniteSet(hist)
      /\ \A x, y \in hist : x.id = y.id => x = y
      /\ \A x \in hist : Shown(x)
      /\ ~IsLast(page) => Max(page) \in Nat /\ \A x \in hist : x.id <= Max(page)
  BY <1>1, PageShows
<1>3. \/ agent' = [agent EXCEPT !.hist = hist, !.start = 0, !.pc = "trade", !.plan = plan]
      \/ ~IsLast(page) /\ agent' = [agent EXCEPT !.hist = hist, !.start = Max(page)]
  <2> HIDE DEF page
  <2>1. \/ agent' = [[agent EXCEPT !.hist = hist] EXCEPT !.start = 0, !.pc = "trade", !.plan = plan]
        \/ ~IsLast(page) /\ agent' = [[agent EXCEPT !.hist = hist] EXCEPT !.start = Max(page)]
    BY DEF ListPrices, page
  <2> HIDE DEF hist, plan
  <2>2. QED
    BY <1>1, <2>1 DEF AgentState
<1> HIDE DEF page, hist
<1>4. /\ plan \in Seq(TransactionTemplate)
      /\ Clears(hist, plan)
      /\ \A k \in 1 .. Len(plan) : \E x, y \in hist :
           /\ x.dir = "Pub" /\ x.id = plan[k].pub /\ x.cost <= plan[k].cost
           /\ y.dir = "Sub" /\ y.id = plan[k].sub /\ y.cost >= plan[k].cost
  BY <1>1, <1>2, SolveIs
<1> HIDE DEF plan
<1>5. \A k \in 1 .. Len(plan) : Suits(plan[k])
  BY <1>2, <1>4 DEF Suits, Shown
<1>6. /\ agent'.hist = hist /\ agent' \in AgentState
      /\ \/ agent'.pc = "trade" /\ agent'.plan = plan
         \/ ~IsLast(page) /\ agent'.pc = "prices" /\ agent'.plan = agent.plan
            /\ agent'.prod = agent.prod /\ agent'.start = Max(page)
  <2>1. CASE agent' = [agent EXCEPT !.hist = hist, !.start = 0, !.pc = "trade", !.plan = plan]
    BY <1>1, <1>2, <1>4, <2>1 DEF AgentState
  <2>2. CASE ~IsLast(page) /\ agent' = [agent EXCEPT !.hist = hist, !.start = Max(page)]
    BY <1>1, <1>2, <2>2 DEF AgentState
  <2>3. QED
    BY <1>3, <2>1, <2>2
<1>7. AgentOK'
  BY <1>1, <1>2, <1>4, <1>6 DEF AgentOK, List
<1>8. \A k \in 1 .. Len(agent.plan) : Suits(agent.plan[k])
  BY DEF Inv, SightOK
<1>9. (\A x \in hist : Shown(x)') /\ \A k \in 1 .. Len(agent'.plan) : Suits(agent'.plan[k])
  BY <1>1, <1>2, <1>5, <1>6, <1>8 DEF Shown, Seen, Open
<1>10. SightOK'
  BY <1>1, <1>6, <1>9 DEF SightOK, Suits, Seen, Open
<1>11. QED
  BY <1>7, <1>10

LEMMA TradeOK ==
  ASSUME Inv, Trade
  PROVE  TxnOK' /\ AgentOK' /\ SightOK'
<1>1. agent.pc = "trade" /\ agent \in AgentState /\ TxnOK /\ UNCHANGED price /\ txn[Agent] = Idle
  BY DEF Trade, Inv, AgentOK
<1>2. CASE agent.plan = <<>>
  <2>1. agent' = [agent EXCEPT !.hist = {}, !.prod = 0, !.pc = "next"] /\ UNCHANGED txn
    BY <1>2 DEF Trade
  <2>2. agent' \in AgentState /\ agent'.hist = {} /\ agent'.pc = "next" /\ agent'.plan = <<>>
    BY <1>1, <1>2, <2>1 DEF AgentState
  <2>3. 1 .. Len(<<>>) = {}
    OBVIOUS
  <2>4. AgentOK' /\ SightOK'
    BY <1>1, <2>1, <2>2, <2>3, FS_EmptySet DEF AgentOK, List, SightOK
  <2>5. QED
    BY <1>1, <2>1, <2>4, TxnSame
<1>3. CASE agent.plan # <<>>
  <2> DEFINE t == Head(agent.plan)
             v == [pc |-> "readPub", t |-> t]
  <2>1. agent' = [agent EXCEPT !.hist = {}, !.pc = "wait"] /\ txn' = [txn EXCEPT ![Agent] = v]
    BY <1>3 DEF Trade
  <2>2. /\ agent.plan \in Seq(TransactionTemplate) /\ 1 \in 1 .. Len(agent.plan)
        /\ t = agent.plan[1] /\ t \in TransactionTemplate
    <3>1. agent.plan \in Seq(TransactionTemplate)
      BY <1>1 DEF AgentState
    <3>2. QED
      BY <1>3, <3>1
  <2>3. Suits(t) /\ \A k \in 1 .. Len(agent.plan) : Suits(agent.plan[k])
    BY <2>2 DEF Inv, SightOK
  <2>4. /\ agent' \in AgentState /\ agent'.hist = {} /\ agent'.pc = "wait"
        /\ agent'.plan = agent.plan
    BY <1>1, <2>1 DEF AgentState
  <2> HIDE DEF t
  <2>5. v \in Begun /\ v.t = t
    BY <2>2 DEF Begun
  <2> HIDE DEF v
  <2>6. Well(v) /\ v # Idle
    BY <2>5, IdleIs DEF Well
  <2>7. TxnOK' /\ txn'[Agent] = v
    <3>1. TxnOK /\ txn' = [txn EXCEPT ![Agent] = v] /\ Well(v)
      BY <1>1, <2>1, <2>6
    <3>2. TxnOK' /\ \A c \in Caller : txn'[c] = IF c = Agent THEN v ELSE txn[c]
      BY <3>1, TxnPut, AgentIsCaller
    <3>3. QED
      BY <3>2, AgentIsCaller
  <2>8. AgentOK'
    BY <1>3, <2>4, <2>6, <2>7, FS_EmptySet DEF AgentOK, List
  <2>9. SightOK'
    BY <1>1, <2>3, <2>4, <2>5, <2>7 DEF SightOK, Suits, Seen, Open
  <2>10. QED
    BY <2>7, <2>8, <2>9
<1>4. QED
  BY <1>2, <1>3

-----------------------------------------------------------------------------
LEMMA InvStep == ASSUME Inv, [Next]_vars PROVE Inv'
<1>1. Types' /\ Ages
  BY TypesStep DEF Inv
<1>2. ASSUME TxnOK', AgentOK', Remembers PROVE Inv'
  BY <1>1, <1>2, SightKept DEF Inv
<1>3. ASSUME UNCHANGED <<txn, agent>> PROVE Inv'
  BY <1>2, <1>3, TxnSame, AgentSame, RemembersSame DEF Inv
<1>4. ASSUME NEW p \in Product, InsertProduct(p) \/ RemoveProduct(p) PROVE Inv'
  BY <1>3, <1>4 DEF InsertProduct, RemoveProduct
<1>5. ASSUME NEW i \in Id, NEW p \in Product, NEW x \in Offer, InsertPrice(i, p, x) PROVE Inv'
  BY <1>3, <1>5 DEF InsertPrice
<1>6. ASSUME NEW i \in Id, RemovePrice(i) PROVE Inv'
  BY <1>3, <1>6 DEF RemovePrice
<1>7. ASSUME NEW c \in Client, NEW t \in Asked, PostTrade(c, t) PROVE Inv'
  BY <1>2, <1>7, PostTradeOK DEF Inv
<1>8. ASSUME NEW c \in Caller, Gateway(c) \/ Commit(c, FALSE) PROVE Inv'
  BY <1>2, <1>8, ReadPubOK, ReadSubOK, CommitOK DEF Gateway, Inv
<1>9. CASE ListProducts
  BY <1>2, <1>9, ListProductsOK, TxnSame DEF ListProducts, Inv
<1>10. CASE NextProduct
  BY <1>2, <1>10, NextProductOK, TxnSame DEF NextProduct, Inv
<1>11. CASE ListPrices
  BY <1>1, <1>11, ListPricesOK, TxnSame DEF ListPrices, Inv
<1>12. CASE Trade
  BY <1>1, <1>12, TradeOK DEF Inv
<1>13. CASE RequestFails
  BY <1>2, <1>13, RequestFailsOK, TxnSame DEF RequestFails, Inv
<1>14. CASE UNCHANGED vars
  BY <1>3, <1>14 DEF vars
<1>15. QED
  BY <1>4, <1>5, <1>6, <1>7, <1>8, <1>9, <1>10, <1>11, <1>12, <1>13, <1>14 DEF Next, MarketAgent

LEMMA Invariance == Spec => []Inv
<1>1. Inv /\ [Next]_vars => Inv'
  BY InvStep
<1>2. QED
  BY <1>1, InitInv, PTL DEF Spec

(* A plan of the solver clears what was listed: no two listed prices that could
   trade with each other are left, none is taken more than it has, and a worse
   one is taken only when the better ones are used up; however the pages came
   and whatever changed between them. *)
THEOREM PlansAlwaysClear == Spec => []PlansClear
<1>1. Inv => PlansClear
  BY DEF Inv, AgentOK, List, PlansClear
<1>2. QED
  BY <1>1, Invariance, PTL

(* A trade of the solver that commits takes from a pub that asks for no more
   and from a sub that gives no less than the cost it is made at, however old
   the list was and whatever others have traded, inserted and removed since. *)
THEOREM TradesAreFair == Spec => FairTrade
<1>1. ASSUME Inv
      PROVE  LET x == txn[Agent] IN
             x.pc = "commit" /\ txn'[Agent] = Idle /\ Commits(x) =>
                 /\ price[x.t.pub].dir = "Pub" /\ price[x.t.pub].cost <= x.t.cost
                 /\ price[x.t.sub].dir = "Sub" /\ price[x.t.sub].cost >= x.t.cost
  BY <1>1, IdleIs DEF Inv, SightOK, Suits, Seen, Commits
<1>2. QED
  BY <1>1, Invariance, PTL DEF FairTrade

-----------------------------------------------------------------------------
(* The stock.  A price that was never inserted has nothing to sell, and a price
   has left at most what was offered and not sold. *)
Left(i) == IF Open(i) THEN price[i].count ELSE 0
StockOK ==
    /\ \A i \in Id : price[i] = None => offered[i] = 0
    /\ \A i \in Id : Left(i) + sold[i] <= offered[i]
StockInv == Inv /\ StockOK

LEMMA StockLeft ==
  /\ Stock!NeverOversold <=> \A i \in Id : Left(i) + sold[i] <= offered[i]
  /\ Stock!lvars = <<offered, [i \in Id |-> Left(i)], sold>>
  BY DEF Stock!NeverOversold, Stock!lvars, Left

(* What is left of a price is a count. *)
LEMMA LeftType ==
  ASSUME Types, NEW i \in Id
  PROVE  Left(i) \in Count /\ Left(i) \in Nat /\ offered[i] \in Nat /\ sold[i] \in Nat
<1>1. Left(i) \in Count
  BY MarketAssumption DEF Types, Left, Open, Row, Count
<1>2. QED
  BY <1>1, CountType DEF Types

LEMMA InitStock == Init => StockInv /\ Stock!LInit
<1>1. SUFFICES ASSUME Init PROVE StockOK /\ Stock!LInit
  BY InitInv DEF StockInv
<1>2. \A i \in Id : ~Open(i)
  BY <1>1, RowAssumption DEF Init, Open
<1>3. QED
  BY <1>1, <1>2 DEF Init, StockOK, Left, Stock!LInit

(* A step that changes no price and sells nothing is none of the ledger's. *)
LEMMA Unsold ==
  ASSUME StockOK, UNCHANGED <<price, offered, sold>>
  PROVE  StockOK' /\ UNCHANGED Stock!lvars
<1>1. \A i \in Id : Left(i)' = Left(i)
  BY DEF Left, Open
<1>2. StockOK'
  BY <1>1 DEF StockOK
<1>3. UNCHANGED Stock!lvars
  BY DEF Stock!lvars, Open
<1>4. QED
  BY <1>2, <1>3

(* Prices that are removed are closed. *)
LEMMA Closed ==
  ASSUME Types, StockOK, NEW S \in SUBSET Id, \A i \in S : price[i] \in Row,
         UNCHANGED <<offered, sold>>,
         price' = [i \in Id |-> IF i \in S THEN Gone ELSE price[i]]
  PROVE  StockOK' /\ Stock!LNext
<1>1. \A i \in Id : Left(i)' = IF i \in S THEN 0 ELSE Left(i)
  BY RowAssumption DEF Left, Open
<1>2. \A i \in Id : price'[i] = None => price[i] = None
  BY RowAssumption
<1>3. \A i \in Id : offered[i] \in Nat /\ sold[i] \in Nat /\ Left(i) \in Nat
  BY LeftType
<1>4. StockOK'
  BY <1>1, <1>2, <1>3 DEF StockOK
<1>5. Stock!Close(S)
  BY <1>1 DEF Stock!Close, Left
<1>6. QED
  BY <1>4, <1>5 DEF Stock!LNext

(* A price that is inserted is opened, unless there is nothing to sell. *)
LEMMA Opened ==
  ASSUME Types, TxnOK, StockOK,
         NEW i \in Id, NEW p \in Product, NEW x \in Offer, InsertPrice(i, p, x)
  PROVE  StockOK' /\ (Stock!LNext \/ UNCHANGED Stock!lvars)
<1> DEFINE at == Cardinality({j \in Id : price[j] # None})
           row == [prod |-> p, dir |-> x.dir, cost |-> x.cost, count |-> x.count, at |-> at]
<1>1. at \in Nat
  BY MarketAssumption, FS_Subset, FS_CardinalityType
<1>2. x.dir \in Direction /\ x.cost \in Cost /\ x.count \in Count /\ x.count \in Nat
  BY InputAssumption, CountType
<1>3. price' = [price EXCEPT ![i] = row] /\ price[i] = None /\ UNCHANGED sold
      /\ offered' = [offered EXCEPT ![i] = x.count]
  BY DEF InsertPrice
<1> HIDE DEF at
<1>4. row \in Row /\ row.count = x.count
  BY <1>1, <1>2 DEF Row
<1> HIDE DEF row
<1>5. \A j \in Id : Left(j)' = IF j = i THEN x.count ELSE Left(j)
  BY <1>3, <1>4, RowAssumption DEF Left, Open, Types
<1>6. Left(i) = 0 /\ offered[i] = 0
  BY <1>3, RowAssumption DEF Left, Open, StockOK
<1>7. \A j \in Id : offered[j] \in Nat /\ sold[j] \in Nat /\ Left(j) \in Nat
  BY LeftType
<1>8. \A j \in Id : offered'[j] = IF j = i THEN x.count ELSE offered[j]
  BY <1>3 DEF Types
<1>9. StockOK'
  <2>1. \A j \in Id : price'[j] = None => offered'[j] = 0
    BY <1>3, <1>4, <1>8, RowAssumption DEF StockOK, Types
  <2>2. sold[i] = 0
    BY <1>6, <1>7 DEF StockOK
  <2>3. \A j \in Id : Left(j)' + sold'[j] <= offered'[j]
    BY <1>2, <1>3, <1>5, <1>7, <1>8, <2>2 DEF StockOK
  <2>4. QED
    BY <2>1, <2>3 DEF StockOK
<1>10. [j \in Id |-> Left(j)'] = [[j \in Id |-> Left(j)] EXCEPT ![i] = x.count]
  BY <1>5
<1>11. CASE x.count > 0
  <2>1. Stock!Open(i, x.count)
    BY <1>3, <1>6, <1>10, <1>11 DEF Stock!Open, Left
  <2>2. QED
    BY <1>2, <1>9, <2>1 DEF Stock!LNext
<1>12. CASE ~(x.count > 0)
  <2>1. x.count = 0
    BY <1>2, <1>12
  <2>2. offered' = offered
    BY <1>3, <1>6, <2>1 DEF Types
  <2>3. [j \in Id |-> Left(j)'] = [j \in Id |-> Left(j)]
    BY <1>5, <1>6, <2>1
  <2>4. QED
    BY <1>3, <1>9, <2>2, <2>3 DEF Stock!lvars, Left
<1>13. QED
  BY <1>11, <1>12

(* A trade that commits sells the same count of both its prices: they still
   have what was read of them, which was enough. *)
LEMMA Sold ==
  ASSUME Types, TxnOK, StockOK, Serial,
         NEW c \in Caller, NEW ok \in BOOLEAN, Commit(c, ok)
  PROVE  StockOK' /\ (Stock!LNext \/ UNCHANGED Stock!lvars)
<1> DEFINE x == txn[c]
           n == x.t.count
           S == {x.t.pub, x.t.sub}
<1>1. /\ n \in Count /\ n > 0 /\ n \in Nat /\ S \subseteq Id
      /\ x.t.pub \in Id /\ x.t.sub \in Id
  <2>1. x \in HasBoth /\ n > 0
    BY IdleIs DEF TxnOK, Well, Begun, HasPub, Commit
  <2>2. QED
    BY <2>1, CountType DEF HasBoth, TransactionTemplate
<1>2. UNCHANGED offered
  BY DEF Commit
<1>3. CASE ~Commits(x)
  BY <1>2, <1>3, Unsold DEF Commit
<1>4. CASE Commits(x)
  <2>1. /\ price' = Withdrawn(x)
        /\ sold' = [i \in Id |-> IF i \in S THEN sold[i] + n ELSE sold[i]]
    BY <1>4 DEF Commit
  <2>2. /\ price[x.t.pub] = x.pub /\ price[x.t.sub] = x.sub
        /\ Open(x.t.pub) /\ Open(x.t.sub)
        /\ x.pub.count >= n /\ x.sub.count >= n
    BY <1>4 DEF Commits, Isolated, Constraints
  <2>3. \A i \in S : price[i] \in Row /\ price[i].count >= n
    BY <2>2 DEF Open
  <2>4. price' = [i \in Id |-> IF i \in S THEN [price[i] EXCEPT !.count = price[i].count - n]
                               ELSE price[i]]
    BY <1>1, <2>1, <2>2 DEF Withdrawn, Types
  <2> HIDE DEF n, S, x
  <2>5. \A i \in S : price[i].count \in Count /\ price[i].count - n \in Count
    BY <1>1, <2>3, CountType DEF Row
  <2>6. \A i \in S : price'[i] \in Row /\ price'[i].count = price[i].count - n
    BY <1>1, <2>3, <2>4, <2>5 DEF Row
  <2>7. \A i \in Id : Left(i)' = IF i \in S THEN Left(i) - n ELSE Left(i)
    BY <2>3, <2>4, <2>6 DEF Left, Open
  <2>8. \A i \in S : Left(i) >= n
    BY <1>1, <2>3 DEF Left, Open
  <2>9. StockOK'
    <3>1. \A i \in Id : offered[i] \in Nat /\ sold[i] \in Nat /\ Left(i) \in Nat
      BY LeftType
    <3>2. \A i \in Id : price'[i] = None => price[i] = None
      BY <2>4, <2>6, RowAssumption
    <3>3. \A i \in Id : Left(i)' + sold'[i] <= offered[i]
      BY <1>1, <2>1, <2>7, <3>1 DEF StockOK
    <3>4. QED
      BY <1>2, <3>2, <3>3 DEF StockOK
  <2>10. PICK T \in SUBSET Id, k \in Count : T = S /\ k = n
    BY <1>1
  <2>11. Stock!Sell(T, k)
    BY <1>1, <1>2, <2>1, <2>7, <2>8, <2>10 DEF Stock!Sell, Left
  <2>12. QED
    BY <2>9, <2>11 DEF Stock!LNext
<1>5. QED
  BY <1>3, <1>4

LEMMA StepRefines ==
  ASSUME StockInv, Serial, [Next]_vars
  PROVE  StockInv' /\ (Stock!LNext \/ UNCHANGED Stock!lvars)
<1>1. SUFFICES StockOK' /\ (Stock!LNext \/ UNCHANGED Stock!lvars)
  BY InvStep DEF StockInv
<1>2. Types /\ TxnOK /\ StockOK
  BY DEF StockInv, Inv
<1>3. ASSUME NEW p \in Product, RemoveProduct(p)
      PROVE  StockOK' /\ Stock!LNext
  <2> DEFINE S == {i \in Id : keys /\ Open(i) /\ price[i].prod = p}
  <2>1. \A i \in S : price[i] \in Row
    BY DEF Open
  <2>2. /\ UNCHANGED <<offered, sold>>
        /\ price' = [i \in Id |-> IF i \in S THEN Gone ELSE price[i]]
    BY <1>3 DEF RemoveProduct
  <2>3. QED
    BY <1>2, <2>1, <2>2, Closed
<1>4. ASSUME NEW i \in Id, RemovePrice(i)
      PROVE  StockOK' /\ Stock!LNext
  <2> DEFINE S == {i}
  <2>1. (\A j \in S : price[j] \in Row) /\ UNCHANGED <<offered, sold>>
    BY <1>4 DEF RemovePrice, Listed, Open
  <2>2. price' = [j \in Id |-> IF j \in S THEN Gone ELSE price[j]]
    BY <1>2, <1>4 DEF RemovePrice, Types
  <2>3. S \in SUBSET Id
    OBVIOUS
  <2> HIDE DEF S
  <2>4. QED
    BY <1>2, <2>1, <2>2, <2>3, Closed
<1>5. ASSUME NEW c \in Caller, NEW ok \in BOOLEAN, Commit(c, ok)
      PROVE  StockOK' /\ (Stock!LNext \/ UNCHANGED Stock!lvars)
  BY <1>2, <1>5, Sold
<1>6. ASSUME NEW i \in Id, NEW p \in Product, NEW x \in Offer, InsertPrice(i, p, x)
      PROVE  StockOK' /\ (Stock!LNext \/ UNCHANGED Stock!lvars)
  BY <1>2, <1>6, Opened
<1>7. ASSUME NEW c \in Caller, ReadPub(c) \/ ReadSub(c)
      PROVE  UNCHANGED <<price, offered, sold>>
  BY <1>7 DEF ReadPub, ReadSub
<1>8. ASSUME NEW c \in Client, NEW t \in Asked, PostTrade(c, t)
      PROVE  UNCHANGED <<price, offered, sold>>
  BY <1>8 DEF PostTrade
<1>9. ASSUME NEW p \in Product, InsertProduct(p)
      PROVE  UNCHANGED <<price, offered, sold>>
  BY <1>9 DEF InsertProduct
<1>10. CASE MarketAgent \/ RequestFails \/ UNCHANGED vars
  <2>1. UNCHANGED <<price, offered, sold>>
    BY <1>10 DEF MarketAgent, ListProducts, NextProduct, ListPrices, Trade, RequestFails, vars
  <2>2. QED
    BY <1>2, <2>1, Unsold
<1>11. QED
  BY <1>2, <1>3, <1>4, <1>5, <1>6, <1>7, <1>8, <1>9, <1>10, Unsold DEF Next, Gateway

-----------------------------------------------------------------------------
LEMMA StockInvariance == ASSUME Serial PROVE Spec => []StockInv
<1>1. StockInv /\ [Next]_vars => StockInv'
  BY StepRefines
<1>2. QED
  BY <1>1, InitStock, PTL DEF Spec

(* trade_on_db keeps what a Ledger promises when the database serialises its
   transactions: whoever posts what, whichever prices come and go meanwhile and
   whatever the solver plans, each step opens a price, sells the same count of
   both prices of a trade, closes prices, or is none of the ledger's. *)
THEOREM ImplementsLedger == Serial => (Spec => SellsStock)
<1>1. SUFFICES ASSUME Serial PROVE Spec => SellsStock
  OBVIOUS
<1>2. Spec => []StockInv
  BY <1>1, StockInvariance
<1>3. Init => Stock!LInit
  BY InitStock
<1>4. StockInv /\ [Next]_vars => [Stock!LNext]_(Stock!lvars)
  BY <1>1, StepRefines
<1>5. QED
  BY <1>2, <1>3, <1>4, PTL DEF Spec, SellsStock, Stock!LSpec

(* No price is sold more often than it was offered. *)
THEOREM NothingOversold == Serial => (Spec => []Stock!NeverOversold)
<1>1. SUFFICES ASSUME Serial PROVE Spec => []Stock!NeverOversold
  OBVIOUS
<1>2. Spec => []StockInv
  BY <1>1, StockInvariance
<1>3. StockInv => Stock!NeverOversold
  BY StockLeft DEF StockInv, StockOK
<1>4. QED
  BY <1>2, <1>3, PTL

(* Types are right, the counts sold among them, and the solver's plans clear
   what it has listed: where the database serialises its transactions. *)
THEOREM MarketSafe == Serial => (Spec => []Safe)
<1>1. SUFFICES ASSUME Serial PROVE Spec => []Safe
  OBVIOUS
<1>2. Spec => []StockInv
  BY <1>1, StockInvariance
<1>3. StockInv => TypeOK
  <2>1. SUFFICES ASSUME StockInv PROVE TypeOK
    OBVIOUS
  <2>2. Types /\ TxnOK /\ AgentOK /\ StockOK
    BY <2>1 DEF StockInv, Inv
  <2>3. sold \in [Id -> Count]
    <3>1. ASSUME NEW i \in Id PROVE sold[i] \in Count
      <4>1. Left(i) + sold[i] <= offered[i] /\ offered[i] \in Count /\ sold[i] \in Nat
            /\ offered[i] \in Nat /\ Left(i) \in Nat
        BY <2>2, LeftType DEF StockOK, Types
      <4>2. sold[i] <= offered[i] /\ offered[i] \in 0 .. MaxCount
        BY <4>1 DEF Count
      <4>3. QED
        BY <4>1, <4>2, MarketAssumption DEF Count
    <3>2. QED
      BY <2>2, <3>1 DEF Types
  <2>4. \A c \in Caller :
          \/ txn[c] = Idle
          \/ txn[c] \in [pc : {"readPub"}, t : TransactionTemplate]
          \/ txn[c] \in [pc : {"readSub"}, t : TransactionTemplate, pub : Row]
          \/ txn[c] \in [pc : {"commit"}, t : TransactionTemplate, pub : Row, sub : Row]
    BY <2>2 DEF TxnOK, Well, Begun, HasPub, HasBoth
  <2>5. QED
    BY <2>2, <2>3, <2>4, AgentType DEF Types, TypeOK
<1>4. Inv => PlansClear
  BY DEF Inv, AgentOK, List, PlansClear
<1>5. StockInv => Safe
  BY <1>3, <1>4 DEF StockInv, Safe
<1>6. QED
  BY <1>2, <1>5, PTL
=============================================================================
