-------------------------- MODULE DashStorageProofs --------------------------
(***************************************************************************)
(* Theorems about DashStorage, for any bindings, items and kinds of the    *)
(* two storages and any number of disturbances.                            *)
(***************************************************************************)
EXTENDS DashStorage, SequenceTheorems, TLAPS

(* The calls a reconcile has left, without their order. *)
Calls(r) == {r[i] : i \in 1 .. Len(r)}
Ahead(w) == Calls(Left(w))

StorageCall == {"account", "rights", "controller", "ingress", "configuration", "secret",
                "tenant", "site"}
SyncCall == {<<"read", "pull">>, <<"write", "pull">>, <<"read", "push">>, <<"write", "push">>,
             <<"job", "pull">>}
BindCall == {<<"make">>, <<"bound">>} \union SyncCall
UnbindCall == {<<"drop", "pull">>, <<"drop", "push">>, <<"job", "push">>, <<"job", "delete">>,
               <<"unbound">>}

(* Who has calls left is a storage that is not Ready, with the session at the end, *)
StorageCalls(s) ==
    LET r == Left(s) IN
    /\ r \in Seq(StorageCall)
    /\ r # <<>> => store[s] = "Pending"
    /\ \A i \in 1 .. Len(r) : r[i] = "site" => i = Len(r)

(* or a binding that is bound: the bucket first, each document read before it is
   written; *)
BindCalls(b, r) ==
    /\ r \in Seq(BindCall)
    /\ \A i \in 1 .. Len(r) :
          /\ r[i] = <<"make">> => i = 1
          /\ r[i] = <<"bound">> => i = Len(r)
          /\ \A way \in {"pull", "push"} :
                /\ r[i] = <<"write", way>> => i = 1 \/ r[i - 1] = <<"read", way>>
                /\ r[i] \in {<<"read", way>>, <<"write", way>>} => way \in Ways(b)

(* or unbound: with the Jobs that its policies ask for. *)
UnbindCalls(b, r) ==
    /\ r \in Seq(UnbindCall)
    /\ \A i \in 1 .. Len(r) :
          /\ r[i] = <<"unbound">> => i = Len(r)
          /\ r[i] = <<"job", "push">> => b.push = "OnDelete"
          /\ r[i] = <<"job", "delete">> => b.push # "OnDelete"

BindingCalls(b) ==
    LET r == Left(b) IN
    \/ r = <<>>
    \/ bind[b] = "Pending" /\ BindCalls(b, r)
    \/ bind[b] = "Deleting" /\ UnbindCalls(b, r)

(* What a worker is doing is a record of the calls and of what was read. *)
OpShape == op = [w \in Worker |-> [rest |-> op[w].rest, view |-> op[w].view]]

(* The secret of the tenant is there before a unique storage gets past it. *)
Past(s) == store[s] = "Ready" \/ (Left(s) # <<>> /\ "secret" \notin Ahead(s))
Secrets == \A s \in Storage : Unique(s) /\ Past(s) => held[s] = secret /\ "secret" \in made

Busy(s) == store[s] = "Ready" \/ Left(s) # <<>>
OneBusy ==
    raced \/ \A s, t \in Storage : Unique(s) /\ Unique(t) /\ Busy(s) /\ Busy(t) => s = t

(* The rule of b is in force, as far as there is a bucket for it. *)
Rule(b, way) == To(b, way) \in rules[From(b, way)] \/ data[From(b, way)] = None

(* A bucket of a binding is written to from its own source only. *)
Leads(u, d) == \A b \in Binding : There(b) \in d => u = Here(b)

(* A document that is about to be written back is the one that was read, but for
   what has been lost; *)
ViewOK(b) ==
    \A way \in {"pull", "push"} : At(b, <<"write", way>>) =>
        /\ op[b].view \subseteq Bucket
        /\ Leads(From(b, way), op[b].view)
        /\ b \notin lost /\ To(b, way) \in op[b].view => Rule(b, way)

(* what has been written is there. *)
Binds(b) ==
    bind[b] = "Pending" /\ Left(b) # <<>> =>
        \A way \in Ways(b) :
            /\ <<"make">> \in Ahead(b) => <<"write", way>> \in Ahead(b)
            /\ b \notin lost /\ <<"write", way>> \notin Ahead(b) => Rule(b, way)

(* The bucket is gone, or somebody is about to remove it: a Job, *)
Removing(b) ==
    data[There(b)] = None \/ \E j \in jobs : j.b = b /\ j.way \in {"push", "delete"}

(* or the binding itself, which has yet to make one. *)
Unbinds(b) ==
    b.policy = "Delete" /\ b \notin lost =>
        /\ bind[b] = "Absent" => Removing(b)
        /\ bind[b] = "Deleting" /\ Left(b) # <<>> =>
              Removing(b) \/ <<"job", "push">> \in Ahead(b) \/ <<"job", "delete">> \in Ahead(b)

(* Where b says it is Ready, its rules are. *)
SyncedAt(b) == b \notin lost /\ bind[b] = "Ready" => \A way \in Ways(b) : Rule(b, way)

Keeps(b) == BindingCalls(b) /\ ViewOK(b) /\ Binds(b) /\ Unbinds(b) /\ SyncedAt(b)

(* A Job that pushes a bucket back has done so when it comes to remove it. *)
Jobs ==
    /\ jobs \subseteq [b : Binding, way : {"pull", "push", "delete"}, at : {"sync", "remove"}]
    /\ \A j \in jobs :
          /\ j.at = "remove" => j.way # "pull"
          /\ j.way = "delete" => j.at = "remove" /\ j.b.push # "OnDelete"
          /\ j.at = "remove" /\ j.way = "push" /\ data[There(j.b)] # None =>
                data[There(j.b)] \ late[j.b] \subseteq data[Here(j.b)]

Buckets ==
    /\ \A u \in Bucket : Leads(u, rules[u])
    /\ \A b \in Binding : data[Here(b)] # None

Inv ==
    /\ TypeOK /\ OpShape /\ Secrets /\ OneBusy /\ Jobs /\ Buckets
    /\ \A s \in Storage : StorageCalls(s)
    /\ \A b \in Binding : Keeps(b)

-----------------------------------------------------------------------------
(* The calls *)

LEMMA TailCalls ==
  ASSUME NEW S, NEW r \in Seq(S), r # <<>>
  PROVE  /\ Tail(r) \in Seq(S) /\ Len(r) \in Nat \ {0} /\ Len(Tail(r)) = Len(r) - 1
         /\ Head(r) = r[1]
         /\ \A i \in 1 .. Len(r) - 1 : Tail(r)[i] = r[i + 1]
         /\ Calls(r) = {Head(r)} \union Calls(Tail(r))
         /\ Tail(r) # <<>> => Len(r) > 1 /\ Head(Tail(r)) = r[2]
<1>1. /\ Tail(r) \in Seq(S) /\ Len(r) \in Nat \ {0} /\ Len(Tail(r)) = Len(r) - 1
      /\ \A i \in 1 .. Len(r) - 1 : Tail(r)[i] = r[i + 1]
  BY HeadTailProperties, EmptySeq, LenProperties
<1>2. Head(r) = r[1]
  OBVIOUS
<1> DEFINE n == Len(r)
           t == Tail(r)
<1>3. n \in Nat \ {0} /\ Len(t) = n - 1 /\ \A i \in 1 .. n - 1 : t[i] = r[i + 1]
  BY <1>1
<1> HIDE DEF n, t
<1>4. {r[i] : i \in 1 .. n} = {r[1]} \union {t[i] : i \in 1 .. n - 1}
  <2>1. ASSUME NEW i \in 1 .. n PROVE r[i] \in {r[1]} \union {t[j] : j \in 1 .. n - 1}
    <3>1. CASE i = 1
      BY <3>1
    <3>2. CASE i # 1
      <4>1. i - 1 \in 1 .. n - 1 /\ (i - 1) + 1 = i
        BY <1>3, <3>2
      <4>2. t[i - 1] = r[i]
        BY <1>3, <4>1
      <4>3. QED
        BY <4>1, <4>2
    <3>3. QED
      BY <3>1, <3>2
  <2>2. ASSUME NEW i \in 1 .. n - 1 PROVE t[i] \in {r[j] : j \in 1 .. n}
    <3>1. i + 1 \in 1 .. n
      BY <1>3
    <3>2. QED
      BY <1>3, <3>1
  <2>3. 1 \in 1 .. n
    BY <1>3
  <2>4. QED
    BY <2>1, <2>2, <2>3
<1>5. Calls(r) = {Head(r)} \union Calls(Tail(r))
  BY <1>2, <1>3, <1>4 DEF Calls, n, t
<1>6. t # <<>> => n > 1 /\ Head(t) = r[2]
  <2>1. SUFFICES ASSUME t # <<>> PROVE n > 1 /\ Head(t) = r[2]
    OBVIOUS
  <2>2. t \in Seq(S)
    BY <1>1 DEF t
  <2>3. Len(t) # 0
    BY <2>1, <2>2, EmptySeq
  <2>4. n > 1 /\ 1 \in 1 .. n - 1
    BY <1>3, <2>3
  <2>5. Head(t) = t[1]
    BY <2>1, <2>2
  <2>6. t[1] = r[1 + 1]
    BY <1>3, <2>4
  <2>7. QED
    BY <2>4, <2>5, <2>6
<1>7. QED
  BY <1>1, <1>2, <1>5, <1>6 DEF n, t

LEMMA JoinCalls ==
  ASSUME NEW S, NEW r \in Seq(S), NEW t \in Seq(S)
  PROVE  /\ r \o t \in Seq(S) /\ Len(r \o t) = Len(r) + Len(t)
         /\ Len(r) \in Nat /\ Len(t) \in Nat
         /\ \A i \in 1 .. Len(r) : (r \o t)[i] = r[i]
         /\ \A i \in 1 .. Len(t) : (r \o t)[Len(r) + i] = t[i]
         /\ Calls(r \o t) = Calls(r) \union Calls(t)
<1> DEFINE m == Len(r)
           n == Len(t)
           q == r \o t
<1>1. /\ q \in Seq(S) /\ Len(q) = m + n /\ m \in Nat /\ n \in Nat
      /\ \A i \in 1 .. m + n : q[i] = IF i <= m THEN r[i] ELSE t[i - m]
  BY ConcatProperties, LenProperties
<1> HIDE DEF m, n, q
<1>2. \A i \in 1 .. m : i \in 1 .. m + n /\ i <= m
  BY <1>1
<1>3. \A i \in 1 .. n : m + i \in 1 .. m + n /\ ~(m + i <= m) /\ (m + i) - m = i
  BY <1>1
<1>4. /\ \A i \in 1 .. m : q[i] = r[i]
      /\ \A i \in 1 .. n : q[m + i] = t[i]
  BY <1>1, <1>2, <1>3
<1>5. {q[i] : i \in 1 .. m + n} = {r[i] : i \in 1 .. m} \union {t[i] : i \in 1 .. n}
  <2>1. ASSUME NEW i \in 1 .. m + n
        PROVE  q[i] \in {r[j] : j \in 1 .. m} \union {t[j] : j \in 1 .. n}
    <3>1. CASE i <= m
      <4>1. i \in 1 .. m
        BY <1>1, <3>1
      <4>2. QED
        BY <1>4, <4>1
    <3>2. CASE ~(i <= m)
      <4>1. i - m \in 1 .. n
        BY <1>1, <3>2
      <4>2. q[i] = t[i - m]
        BY <1>1, <3>2
      <4>3. QED
        BY <4>1, <4>2
    <3>3. QED
      BY <3>1, <3>2
  <2>2. ASSUME NEW i \in 1 .. m
        PROVE  r[i] \in {q[j] : j \in 1 .. m + n}
    <3>1. i \in 1 .. m + n /\ q[i] = r[i]
      BY <1>2, <1>4
    <3>2. QED
      BY <3>1
  <2>3. ASSUME NEW i \in 1 .. n
        PROVE  t[i] \in {q[j] : j \in 1 .. m + n}
    <3>1. m + i \in 1 .. m + n /\ q[m + i] = t[i]
      BY <1>3, <1>4
    <3>2. QED
      BY <3>1
  <2>4. QED
    BY <2>1, <2>2, <2>3
<1>6. QED
  BY <1>1, <1>4, <1>5 DEF Calls, m, n, q

(* The calls of sync_bucket, between make and bound. *)
Middle(b, r) ==
    /\ r \in Seq(SyncCall)
    /\ \A i \in 1 .. Len(r), way \in {"pull", "push"} :
          /\ r[i] = <<"write", way>> => i - 1 \in 1 .. Len(r) /\ r[i - 1] = <<"read", way>>
          /\ r[i] \in {<<"read", way>>, <<"write", way>>} => way \in Ways(b)

LEMMA MiddleJoin ==
  ASSUME NEW b, NEW r, NEW t, Middle(b, r), Middle(b, t)
  PROVE  Middle(b, r \o t)
<1> DEFINE m == Len(r)
           n == Len(t)
           q == r \o t
<1>1. /\ q \in Seq(SyncCall) /\ Len(q) = m + n /\ m \in Nat /\ n \in Nat
      /\ \A i \in 1 .. m : q[i] = r[i]
      /\ \A i \in 1 .. n : q[m + i] = t[i]
  BY JoinCalls DEF Middle
<1>2. /\ \A i \in 1 .. m, way \in {"pull", "push"} :
            /\ r[i] = <<"write", way>> => i - 1 \in 1 .. m /\ r[i - 1] = <<"read", way>>
            /\ r[i] \in {<<"read", way>>, <<"write", way>>} => way \in Ways(b)
      /\ \A i \in 1 .. n, way \in {"pull", "push"} :
            /\ t[i] = <<"write", way>> => i - 1 \in 1 .. n /\ t[i - 1] = <<"read", way>>
            /\ t[i] \in {<<"read", way>>, <<"write", way>>} => way \in Ways(b)
  BY DEF Middle
<1> HIDE DEF m, n, q
<1>3. ASSUME NEW i \in 1 .. m + n, NEW way \in {"pull", "push"}
      PROVE  /\ q[i] = <<"write", way>> => i - 1 \in 1 .. m + n /\ q[i - 1] = <<"read", way>>
             /\ q[i] \in {<<"read", way>>, <<"write", way>>} => way \in Ways(b)
  <2>1. CASE i <= m
    <3>1. i \in 1 .. m /\ q[i] = r[i]
      BY <1>1, <2>1
    <3>2. i - 1 \in 1 .. m => i - 1 \in 1 .. m + n /\ q[i - 1] = r[i - 1]
      BY <1>1
    <3>3. QED
      BY <1>2, <3>1, <3>2
  <2>2. CASE ~(i <= m)
    <3> DEFINE j == i - m
    <3>1. j \in 1 .. n /\ m + j = i
      BY <1>1, <2>2
    <3>2. q[i] = t[j]
      BY <1>1, <3>1
    <3>3. j - 1 \in 1 .. n => i - 1 \in 1 .. m + n /\ q[i - 1] = t[j - 1]
      <4>1. SUFFICES ASSUME j - 1 \in 1 .. n PROVE i - 1 \in 1 .. m + n /\ q[i - 1] = t[j - 1]
        OBVIOUS
      <4>2. m + (j - 1) = i - 1 /\ i - 1 \in 1 .. m + n
        BY <1>1, <4>1
      <4>3. QED
        BY <1>1, <4>1, <4>2
    <3> HIDE DEF j
    <3>4. QED
      BY <1>2, <3>1, <3>2, <3>3
  <2>3. QED
    BY <2>1, <2>2
<1>4. QED
  BY <1>1, <1>3 DEF Middle, m, n, q

LEMMA MiddleParts ==
  ASSUME NEW b
  PROVE  /\ Middle(b, <<>>) /\ Middle(b, <<<<"job", "pull">>>>)
         /\ \A way \in {"pull", "push"} :
              /\ way \in Ways(b) => Middle(b, Replication(way))
              /\ <<"write", way>> \in Calls(Replication(way))
<1>1. Middle(b, <<>>)
  BY DEF Middle
<1>2. Middle(b, <<<<"job", "pull">>>>)
  BY DEF Middle, SyncCall
<1>3. ASSUME NEW way \in {"pull", "push"}, way \in Ways(b)
      PROVE  Middle(b, Replication(way))
  <2>1. Replication(way) \in Seq(SyncCall)
    BY DEF Replication, SyncCall
  <2>2. Len(Replication(way)) = 2 /\ Replication(way)[1] = <<"read", way>>
        /\ Replication(way)[2] = <<"write", way>>
    BY DEF Replication
  <2>3. QED
    BY <1>3, <2>1, <2>2 DEF Middle
<1>4. \A way \in {"pull", "push"} : <<"write", way>> \in Calls(Replication(way))
  BY DEF Replication, Calls
<1>5. QED
  BY <1>1, <1>2, <1>3, <1>4

LEMMA SyncBucketCalls ==
  ASSUME NEW b \in Binding
  PROVE  /\ Middle(b, SyncBucket(b))
         /\ \A way \in Ways(b) : <<"write", way>> \in Calls(SyncBucket(b))
<1> DEFINE P == CASE b.pull = "Always" -> Replication("pull")
                  [] b.pull = "OnCreate" -> <<<<"job", "pull">>>>
                  [] OTHER -> <<>>
           Q == IF b.push = "Always" THEN Replication("push") ELSE <<>>
<1>1. SyncBucket(b) = P \o Q
  BY DEF SyncBucket
<1>2. Middle(b, P) /\ ("pull" \in Ways(b) => <<"write", "pull">> \in Calls(P))
  <2>1. CASE b.pull = "Always"
    BY <2>1, MiddleParts DEF Ways
  <2>2. CASE b.pull = "OnCreate"
    BY <2>2, MiddleParts DEF Ways
  <2>3. CASE b.pull \notin {"Always", "OnCreate"}
    BY <2>3, MiddleParts DEF Ways
  <2>4. QED
    BY <2>1, <2>2, <2>3
<1>3. Middle(b, Q) /\ ("push" \in Ways(b) => <<"write", "push">> \in Calls(Q))
  BY MiddleParts DEF Ways
<1> HIDE DEF P, Q
<1>4. Middle(b, P \o Q)
  BY <1>2, <1>3, MiddleJoin
<1>5. Calls(P \o Q) = Calls(P) \union Calls(Q)
  BY <1>2, <1>3, JoinCalls DEF Middle
<1>6. Ways(b) \subseteq {"pull", "push"}
  BY DEF Ways
<1>7. QED
  BY <1>1, <1>2, <1>3, <1>4, <1>5, <1>6

(* A binding that is bound starts with all of its calls ahead. *)
LEMMA BindCallsStart ==
  ASSUME NEW b \in Binding
  PROVE  LET r == <<<<"make">>>> \o SyncBucket(b) \o <<<<"bound">>>>
         IN  /\ BindCalls(b, r) /\ r # <<>> /\ Head(r) = <<"make">>
             /\ \A way \in Ways(b) : <<"write", way>> \in Calls(r)
<1> DEFINE s == SyncBucket(b)
           f == <<<<"make">>>>
           e == <<<<"bound">>>>
           q == f \o s
           r == q \o e
           n == Len(s)
<1>1. /\ s \in Seq(BindCall) /\ n \in Nat
      /\ \A way \in Ways(b) : <<"write", way>> \in Calls(s)
      /\ \A i \in 1 .. n : s[i] \in SyncCall
      /\ \A i \in 1 .. n, way \in {"pull", "push"} :
            /\ s[i] = <<"write", way>> => i - 1 \in 1 .. n /\ s[i - 1] = <<"read", way>>
            /\ s[i] \in {<<"read", way>>, <<"write", way>>} => way \in Ways(b)
  <2>1. s \in Seq(SyncCall)
    BY SyncBucketCalls DEF Middle
  <2>2. SyncCall \subseteq BindCall
    BY DEF BindCall
  <2>3. s \in Seq(BindCall)
    BY <2>1, <2>2
  <2>4. n \in Nat /\ \A i \in 1 .. n : s[i] \in SyncCall
    BY <2>1, ElementOfSeq, LenProperties
  <2>5. QED
    BY <2>3, <2>4, SyncBucketCalls DEF Middle
<1>2. f \in Seq(BindCall) /\ e \in Seq(BindCall) /\ Len(f) = 1 /\ Len(e) = 1
      /\ f[1] = <<"make">> /\ e[1] = <<"bound">>
  BY DEF BindCall
<1> HIDE DEF s, f, e, n
<1>3. /\ q \in Seq(BindCall) /\ Len(q) = 1 + n
      /\ q[1] = <<"make">> /\ \A i \in 1 .. n : q[1 + i] = s[i]
      /\ Calls(q) = Calls(f) \union Calls(s)
  <2>1. 1 \in 1 .. 1
    OBVIOUS
  <2>2. QED
    BY <1>1, <1>2, <2>1, JoinCalls DEF n
<1> HIDE DEF q
<1>4. /\ r \in Seq(BindCall) /\ Len(r) = n + 2
      /\ \A i \in 1 .. n + 1 : r[i] = q[i]
      /\ r[n + 2] = <<"bound">>
      /\ Calls(r) = Calls(q) \union Calls(e)
  <2>1. /\ r \in Seq(BindCall) /\ Len(r) = Len(q) + Len(e)
        /\ \A i \in 1 .. Len(q) : r[i] = q[i]
        /\ \A i \in 1 .. Len(e) : r[Len(q) + i] = e[i]
        /\ Calls(r) = Calls(q) \union Calls(e)
    <3>1. q \in Seq(BindCall) /\ e \in Seq(BindCall)
      BY <1>2, <1>3
    <3>2. QED
      BY <3>1, JoinCalls
  <2>2. Len(q) = n + 1 /\ Len(e) = 1 /\ (n + 1) + 1 = n + 2 /\ 1 \in 1 .. 1
    BY <1>1, <1>2, <1>3
  <2>3. r[(n + 1) + 1] = e[1]
    BY <2>1, <2>2
  <2>4. QED
    BY <1>1, <1>2, <2>1, <2>2, <2>3
<1> HIDE DEF r
<1>5. r[1] = <<"make">> /\ \A i \in 2 .. n + 1 : i - 1 \in 1 .. n /\ r[i] = s[i - 1]
  <2>1. \A i \in 2 .. n + 1 : i - 1 \in 1 .. n /\ 1 + (i - 1) = i /\ i \in 1 .. n + 1
    BY <1>1
  <2>2. 1 \in 1 .. n + 1
    BY <1>1
  <2>3. QED
    BY <1>3, <1>4, <2>1, <2>2
<1>6. \A i \in 1 .. n + 2 : i = 1 \/ i = n + 2 \/ i \in 2 .. n + 1
  BY <1>1
<1>7. ASSUME NEW i \in 1 .. Len(r)
      PROVE  /\ r[i] = <<"make">> => i = 1
             /\ r[i] = <<"bound">> => i = Len(r)
             /\ \A way \in {"pull", "push"} :
                   /\ r[i] = <<"write", way>> => i = 1 \/ r[i - 1] = <<"read", way>>
                   /\ r[i] \in {<<"read", way>>, <<"write", way>>} => way \in Ways(b)
  <2>1. i \in 1 .. n + 2
    BY <1>4
  <2>2. CASE i = 1
    BY <1>5, <2>2
  <2>3. CASE i = n + 2
    BY <1>4, <2>3
  <2>4. CASE i \in 2 .. n + 1
    <3> DEFINE j == i - 1
    <3>1. j \in 1 .. n /\ r[i] = s[j] /\ s[j] \in SyncCall
      BY <1>1, <1>5, <2>4
    <3>2. r[i] # <<"make">> /\ r[i] # <<"bound">>
      BY <3>1 DEF SyncCall
    <3>3. j - 1 \in 1 .. n => r[j] = s[j - 1]
      <4>1. SUFFICES ASSUME j - 1 \in 1 .. n PROVE r[j] = s[j - 1]
        OBVIOUS
      <4>2. j \in 2 .. n + 1
        BY <1>1, <3>1, <4>1
      <4>3. QED
        BY <1>5, <4>2
    <3>4. \A way \in {"pull", "push"} :
            /\ r[i] = <<"write", way>> => r[j] = <<"read", way>>
            /\ r[i] \in {<<"read", way>>, <<"write", way>>} => way \in Ways(b)
      BY <1>1, <3>1, <3>3
    <3>5. QED
      BY <3>2, <3>4
  <2>5. QED
    BY <1>6, <2>1, <2>2, <2>3, <2>4
<1>8. BindCalls(b, r)
  BY <1>4, <1>7 DEF BindCalls
<1>9. r # <<>> /\ Head(r) = <<"make">>
  <2>1. r # <<>>
    BY <1>1, <1>4
  <2>2. QED
    BY <1>4, <1>5, <2>1
<1>10. \A way \in Ways(b) : <<"write", way>> \in Calls(r)
  BY <1>1, <1>3, <1>4
<1>11. QED
  BY <1>8, <1>9, <1>10 DEF r, q, s, f, e

(* The calls that unbind b, but for the last one. *)
Undo(b) == {c \in UnbindCall \ {<<"unbound">>} :
               /\ c = <<"job", "push">> => b.push = "OnDelete"
               /\ c = <<"job", "delete">> => b.push # "OnDelete"}

(* A binding that is unbound, for the policy Delete, has its Job ahead. *)
LEMMA UnbindCallsStart ==
  ASSUME NEW b \in Binding
  PROVE  /\ UnbindCalls(b, <<<<"unbound">>>>)
         /\ LET r == UnsyncBucket(b) \o DeleteCalls(b) \o <<<<"unbound">>>>
            IN  /\ UnbindCalls(b, r)
                /\ b.policy = "Delete" =>
                      <<"job", "push">> \in Calls(r) \/ <<"job", "delete">> \in Calls(r)
<1>1. UnbindCalls(b, <<<<"unbound">>>>)
  BY DEF UnbindCalls, UnbindCall
<1> DEFINE d1 == IF b.pull = "Always" THEN <<<<"drop", "pull">>>> ELSE <<>>
           d2 == CASE b.push = "Always" -> <<<<"drop", "push">>>>
                   [] b.push = "OnDelete" -> <<<<"job", "push">>>>
                   [] OTHER -> <<>>
           d3 == DeleteCalls(b)
           e == <<<<"unbound">>>>
           p == d1 \o d2
           q == p \o d3
           r == q \o e
<1>2. d1 \in Seq(Undo(b))
  <2>1. <<"drop", "pull">> \in Undo(b)
    BY DEF Undo, UnbindCall
  <2>2. QED
    BY <2>1
<1>3. d2 \in Seq(Undo(b)) /\ (b.push = "OnDelete" => <<"job", "push">> \in Calls(d2))
  <2>1. CASE b.push = "Always"
    BY <2>1 DEF Undo, UnbindCall
  <2>2. CASE b.push = "OnDelete"
    BY <2>2 DEF Undo, UnbindCall, Calls
  <2>3. CASE b.push \notin {"Always", "OnDelete"}
    BY <2>3
  <2>4. QED
    BY <2>1, <2>2, <2>3
<1>4. d3 \in Seq(Undo(b))
      /\ (b.push # "OnDelete" /\ b.policy = "Delete" => <<"job", "delete">> \in Calls(d3))
  BY DEF Undo, UnbindCall, DeleteCalls, Calls
<1>5. UnsyncBucket(b) = p
  BY DEF UnsyncBucket
<1> HIDE DEF d1, d2, d3
<1>6. p \in Seq(Undo(b)) /\ Calls(p) = Calls(d1) \union Calls(d2)
  BY <1>2, <1>3, JoinCalls
<1> HIDE DEF p
<1>7. q \in Seq(Undo(b)) /\ Calls(q) = Calls(p) \union Calls(d3)
  BY <1>4, <1>6, JoinCalls
<1> HIDE DEF q
<1> DEFINE n == Len(q)
<1>8. Undo(b) \subseteq UnbindCall
  BY DEF Undo
<1>9. q \in Seq(UnbindCall) /\ n \in Nat /\ \A i \in 1 .. n : q[i] \in Undo(b)
  BY <1>7, <1>8, ElementOfSeq, LenProperties
<1>10. e \in Seq(UnbindCall) /\ Len(e) = 1 /\ e[1] = <<"unbound">>
  BY DEF UnbindCall
<1> HIDE DEF e
<1>11. /\ r \in Seq(UnbindCall) /\ Len(r) = n + 1
       /\ \A i \in 1 .. n : r[i] = q[i]
       /\ r[n + 1] = <<"unbound">>
       /\ Calls(r) = Calls(q) \union Calls(e)
  <2>1. /\ r \in Seq(UnbindCall) /\ Len(r) = Len(q) + Len(e)
        /\ \A i \in 1 .. Len(q) : r[i] = q[i]
        /\ \A i \in 1 .. Len(e) : r[Len(q) + i] = e[i]
        /\ Calls(r) = Calls(q) \union Calls(e)
    <3>1. q \in Seq(UnbindCall) /\ e \in Seq(UnbindCall)
      BY <1>9, <1>10
    <3>2. QED
      BY <3>1, JoinCalls
  <2>2. 1 \in 1 .. 1
    OBVIOUS
  <2>3. QED
    BY <1>10, <2>1, <2>2
<1> HIDE DEF r, n
<1>12. \A i \in 1 .. n + 1 : i = n + 1 \/ i \in 1 .. n
  BY <1>9
<1>13. UnbindCalls(b, r)
  <2>1. ASSUME NEW i \in 1 .. Len(r)
        PROVE  /\ r[i] = <<"unbound">> => i = Len(r)
               /\ r[i] = <<"job", "push">> => b.push = "OnDelete"
               /\ r[i] = <<"job", "delete">> => b.push # "OnDelete"
    <3>1. CASE i = n + 1
      BY <1>11, <3>1
    <3>2. CASE i \in 1 .. n
      BY <1>9, <1>11, <3>2 DEF Undo
    <3>3. QED
      BY <1>11, <1>12, <3>1, <3>2
  <2>2. QED
    BY <1>11, <2>1 DEF UnbindCalls
<1>14. b.policy = "Delete" => <<"job", "push">> \in Calls(r) \/ <<"job", "delete">> \in Calls(r)
  BY <1>3, <1>4, <1>6, <1>7, <1>11
<1>15. QED
  BY <1>1, <1>5, <1>13, <1>14 DEF r, q, e, d3

(* A storage starts with the session at the end, a unique one with the secret
   ahead. *)
LEMMA ObjectsCalls ==
  ASSUME NEW s
  PROVE  LET r == Objects(s) \o <<"site">>
         IN  /\ r \in Seq(StorageCall)
             /\ \A i \in 1 .. Len(r) : r[i] = "site" => i = Len(r)
             /\ Unique(s) => "secret" \in Calls(r)
<1> DEFINE C == StorageCall \ {"site"}
           o == Objects(s)
           e == <<"site">>
           r == o \o e
           n == Len(o)
<1>1. Gateway \in Seq(C)
  BY DEF Gateway, StorageCall
<1>2. Tenant \in Seq(C) /\ "secret" \in Calls(Tenant)
  <2>1. Tenant \in Seq(C)
    BY DEF Tenant, StorageCall
  <2>2. Len(Tenant) = 3 /\ Tenant[2] = "secret" /\ 2 \in 1 .. 3
    BY DEF Tenant
  <2>3. QED
    BY <2>1, <2>2 DEF Calls
<1>3. o \in Seq(C) /\ (Unique(s) => "secret" \in Calls(o))
  BY <1>1, <1>2, JoinCalls DEF Objects
<1>4. o \in Seq(StorageCall) /\ n \in Nat /\ \A i \in 1 .. n : o[i] # "site"
  <2>1. C \subseteq StorageCall /\ "site" \notin C
    OBVIOUS
  <2>2. n \in Nat /\ \A i \in 1 .. n : o[i] \in C
    BY <1>3, ElementOfSeq, LenProperties
  <2>3. QED
    BY <1>3, <2>1, <2>2
<1>5. e \in Seq(StorageCall) /\ Len(e) = 1
  BY DEF StorageCall
<1> HIDE DEF o, e
<1>6. /\ r \in Seq(StorageCall) /\ Len(r) = n + 1
      /\ \A i \in 1 .. n : r[i] = o[i]
      /\ Calls(r) = Calls(o) \union Calls(e)
  <2>1. /\ r \in Seq(StorageCall) /\ Len(r) = Len(o) + Len(e)
        /\ \A i \in 1 .. Len(o) : r[i] = o[i]
        /\ Calls(r) = Calls(o) \union Calls(e)
    <3>1. o \in Seq(StorageCall) /\ e \in Seq(StorageCall)
      BY <1>4, <1>5
    <3>2. QED
      BY <3>1, JoinCalls
  <2>2. QED
    BY <1>5, <2>1
<1>7. \A i \in 1 .. n + 1 : i = n + 1 \/ i \in 1 .. n
  BY <1>4
<1> HIDE DEF r, n
<1>8. \A i \in 1 .. Len(r) : r[i] = "site" => i = Len(r)
  BY <1>4, <1>6, <1>7
<1>9. QED
  BY <1>3, <1>6, <1>8 DEF r, o, e

(* What is left of the calls is left in their order. *)
LEMMA BindCallsTail ==
  ASSUME NEW b, NEW r, BindCalls(b, r), r # <<>>
  PROVE  /\ BindCalls(b, Tail(r))
         /\ Head(r) = <<"bound">> => Calls(r) = {<<"bound">>}
         /\ <<"make">> \notin Calls(Tail(r))
         /\ \A way \in {"pull", "push"} :
               /\ Head(r) \in {<<"read", way>>, <<"write", way>>} => way \in Ways(b)
               /\ Tail(r) # <<>> /\ Head(Tail(r)) = <<"write", way>> => Head(r) = <<"read", way>>
<1> DEFINE t == Tail(r)
           n == Len(r)
<1>1. /\ r \in Seq(BindCall) /\ t \in Seq(BindCall) /\ n \in Nat \ {0} /\ Len(t) = n - 1
      /\ Head(r) = r[1] /\ \A i \in 1 .. n - 1 : t[i] = r[i + 1]
      /\ Calls(r) = {Head(r)} \union Calls(t)
      /\ t # <<>> => n > 1 /\ Head(t) = r[2]
  BY TailCalls DEF BindCalls
<1>2. \A i \in 1 .. n :
          /\ r[i] = <<"make">> => i = 1
          /\ r[i] = <<"bound">> => i = n
          /\ \A way \in {"pull", "push"} :
                /\ r[i] = <<"write", way>> => i = 1 \/ r[i - 1] = <<"read", way>>
                /\ r[i] \in {<<"read", way>>, <<"write", way>>} => way \in Ways(b)
  BY DEF BindCalls
<1> HIDE DEF t, n
<1>3. ASSUME NEW i \in 1 .. n - 1
      PROVE  /\ t[i] # <<"make">>
             /\ t[i] = <<"bound">> => i = n - 1
             /\ \A way \in {"pull", "push"} :
                   /\ t[i] = <<"write", way>> => i = 1 \/ t[i - 1] = <<"read", way>>
                   /\ t[i] \in {<<"read", way>>, <<"write", way>>} => way \in Ways(b)
  <2>1. i + 1 \in 1 .. n /\ i + 1 # 1 /\ t[i] = r[i + 1]
    BY <1>1
  <2>2. i + 1 = n => i = n - 1
    BY <1>1
  <2>3. i # 1 => t[i - 1] = r[(i + 1) - 1]
    <3>1. SUFFICES ASSUME i # 1 PROVE t[i - 1] = r[(i + 1) - 1]
      OBVIOUS
    <3>2. i - 1 \in 1 .. n - 1 /\ (i - 1) + 1 = (i + 1) - 1
      BY <1>1, <3>1
    <3>3. QED
      BY <1>1, <3>2
  <2>4. QED
    BY <1>2, <2>1, <2>2, <2>3
<1>4. BindCalls(b, t)
  BY <1>1, <1>3 DEF BindCalls
<1>5. <<"make">> \notin Calls(t)
  BY <1>1, <1>3 DEF Calls
<1>6. Head(r) = <<"bound">> => Calls(r) = {<<"bound">>}
  <2>1. SUFFICES ASSUME Head(r) = <<"bound">> PROVE Calls(r) = {<<"bound">>}
    OBVIOUS
  <2>2. n = 1
    BY <1>1, <1>2, <2>1
  <2>3. QED
    BY <1>1, <2>1, <2>2 DEF Calls, n
<1>7. \A way \in {"pull", "push"} :
         Head(r) \in {<<"read", way>>, <<"write", way>>} => way \in Ways(b)
  <2>1. 1 \in 1 .. n
    BY <1>1
  <2>2. QED
    BY <1>1, <1>2, <2>1
<1>8. \A way \in {"pull", "push"} :
         t # <<>> /\ Head(t) = <<"write", way>> => Head(r) = <<"read", way>>
  <2>1. 2 - 1 = 1 /\ 2 # 1 /\ (n > 1 => 2 \in 1 .. n)
    BY <1>1
  <2>2. QED
    BY <1>1, <1>2, <2>1
<1>9. QED
  BY <1>4, <1>5, <1>6, <1>7, <1>8 DEF t

(* A document is read or written for a way that b is bound to. *)
LEMMA BindCallsWays ==
  ASSUME NEW b, NEW r, BindCalls(b, r), r # <<>>, NEW way \in {"pull", "push"},
         Head(r) \in {<<"read", way>>, <<"write", way>>}
  PROVE  way \in Ways(b)
<1>1. \A w \in {"pull", "push"} : Head(r) \in {<<"read", w>>, <<"write", w>>} => w \in Ways(b)
  BY BindCallsTail
<1>2. QED
  BY <1>1

LEMMA UnbindCallsTail ==
  ASSUME NEW b, NEW r, UnbindCalls(b, r), r # <<>>
  PROVE  /\ UnbindCalls(b, Tail(r))
         /\ Head(r) = <<"unbound">> => Calls(r) = {<<"unbound">>}
         /\ Head(r) = <<"job", "push">> => b.push = "OnDelete"
         /\ Head(r) = <<"job", "delete">> => b.push # "OnDelete"
<1> DEFINE t == Tail(r)
           n == Len(r)
<1>1. /\ r \in Seq(UnbindCall) /\ t \in Seq(UnbindCall) /\ n \in Nat \ {0} /\ Len(t) = n - 1
      /\ Head(r) = r[1] /\ \A i \in 1 .. n - 1 : t[i] = r[i + 1]
  BY TailCalls DEF UnbindCalls
<1>2. \A i \in 1 .. n :
          /\ r[i] = <<"unbound">> => i = n
          /\ r[i] = <<"job", "push">> => b.push = "OnDelete"
          /\ r[i] = <<"job", "delete">> => b.push # "OnDelete"
  BY DEF UnbindCalls
<1> HIDE DEF t, n
<1>3. \A i \in 1 .. n - 1 : i + 1 \in 1 .. n /\ (i + 1 = n => i = n - 1) /\ t[i] = r[i + 1]
  BY <1>1
<1>4. UnbindCalls(b, t)
  <2>1. t \in Seq(UnbindCall)
    BY <1>1
  <2>2. ASSUME NEW i \in 1 .. Len(t)
        PROVE  /\ t[i] = <<"unbound">> => i = Len(t)
               /\ t[i] = <<"job", "push">> => b.push = "OnDelete"
               /\ t[i] = <<"job", "delete">> => b.push # "OnDelete"
    <3>1. Len(t) = n - 1
      BY <1>1
    <3>2. i + 1 \in 1 .. n /\ (i + 1 = n => i = Len(t)) /\ t[i] = r[i + 1]
      BY <1>3, <3>1
    <3>3. /\ r[i + 1] = <<"unbound">> => i + 1 = n
          /\ r[i + 1] = <<"job", "push">> => b.push = "OnDelete"
          /\ r[i + 1] = <<"job", "delete">> => b.push # "OnDelete"
      BY <1>2, <3>2
    <3>4. QED
      BY <3>2, <3>3, Zenon
  <2>3. QED
    BY <2>1, <2>2, Zenon DEF UnbindCalls
<1>5. Head(r) = <<"unbound">> => Calls(r) = {<<"unbound">>}
  <2>1. SUFFICES ASSUME Head(r) = <<"unbound">> PROVE Calls(r) = {<<"unbound">>}
    OBVIOUS
  <2>2. n = 1
    BY <1>1, <1>2, <2>1
  <2>3. QED
    BY <1>1, <2>1, <2>2 DEF Calls, n
<1>6. 1 \in 1 .. n
  BY <1>1
<1>7. QED
  BY <1>1, <1>2, <1>4, <1>5, <1>6 DEF t

LEMMA StorageCallsTail ==
  ASSUME NEW r \in Seq(StorageCall), r # <<>>,
         \A i \in 1 .. Len(r) : r[i] = "site" => i = Len(r)
  PROVE  /\ Tail(r) \in Seq(StorageCall)
         /\ \A i \in 1 .. Len(Tail(r)) : Tail(r)[i] = "site" => i = Len(Tail(r))
         /\ Head(r) = "site" => Calls(r) = {"site"}
<1> DEFINE t == Tail(r)
           n == Len(r)
<1>1. /\ t \in Seq(StorageCall) /\ n \in Nat \ {0} /\ Len(t) = n - 1
      /\ Head(r) = r[1] /\ \A i \in 1 .. n - 1 : t[i] = r[i + 1]
  BY TailCalls
<1>2. \A i \in 1 .. n : r[i] = "site" => i = n
  OBVIOUS
<1> HIDE DEF t, n
<1>3. \A i \in 1 .. n - 1 : i + 1 \in 1 .. n /\ (i + 1 = n => i = n - 1) /\ t[i] = r[i + 1]
  BY <1>1
<1>4. Head(r) = "site" => Calls(r) = {"site"}
  <2>1. SUFFICES ASSUME Head(r) = "site" PROVE Calls(r) = {"site"}
    OBVIOUS
  <2>2. n = 1
    BY <1>1, <1>2, <2>1
  <2>3. QED
    BY <1>1, <2>1, <2>2 DEF Calls, n
<1>5. QED
  BY <1>1, <1>2, <1>3, <1>4 DEF t

-----------------------------------------------------------------------------
(* What a step of one worker leaves to the others *)

LEMMA Workers ==
  /\ Storage \subseteq Worker /\ Binding \subseteq Worker
  /\ \A s \in Storage : s \notin Binding
  /\ \A b \in Binding : b \notin Storage
  BY DashStorageAssumption DEF Worker

(* A worker has calls left, and has read something. *)
Turns(w, r, v) == op' = [op EXCEPT ![w] = [rest |-> r, view |-> v]]

LEMMA OpStep ==
  ASSUME OpShape, NEW w \in Worker, NEW r, NEW v,
         Turns(w, r, v)
  PROVE  /\ OpShape'
         /\ op'[w].rest = r /\ op'[w].view = v
         /\ \A x \in Worker : x # w => op'[x] = op[x]
<1> DEFINE y == [rest |-> r, view |-> v]
<1>1. y = [rest |-> y.rest, view |-> y.view] /\ y.rest = r /\ y.view = v
  OBVIOUS
<1> HIDE DEF y
<1>2. \A x \in Worker : op'[x] = IF x = w THEN y ELSE op[x]
  BY DEF OpShape, Turns, y
<1>3. op' = [x \in Worker |-> op'[x]]
  <2>1. op = [x \in Worker |-> op[x]]
    BY DEF OpShape
  <2>2. op' = [op EXCEPT ![w] = y]
    BY DEF Turns, y
  <2>3. QED
    BY <2>1, <2>2
<1>4. \A x \in Worker : op'[x] = [rest |-> op'[x].rest, view |-> op'[x].view]
  BY <1>1, <1>2 DEF OpShape
<1>5. OpShape'
  BY <1>3, <1>4 DEF OpShape
<1>6. QED
  BY <1>1, <1>2, <1>5

LEMMA OpMove ==
  ASSUME Inv, NEW w \in Storage \union Binding, NEW r, NEW v,
         Turns(w, r, v)
  PROVE  /\ OpShape' /\ op'[w].view = v /\ Left(w)' = r
         /\ \A x \in Worker : x # w => op'[x] = op[x] /\ Left(x)' = Left(x)
<1>1. OpShape /\ w \in Worker
  BY Workers DEF Inv
<1>2. OpShape' /\ op'[w].rest = r /\ op'[w].view = v /\ \A x \in Worker : x # w => op'[x] = op[x]
  BY <1>1, OpStep
<1>3. QED
  BY <1>2 DEF Left

(* A worker with no calls left is idle, whatever it has read. *)
LEMMA IdleLeft == \A w : op[w] = Idle => Left(w) = <<>>
  BY DEF Idle, Left

(* The storages, when a binding, a Job or a user acts. *)
LEMMA StoragesKept ==
  ASSUME Inv, UNCHANGED namespace, \A s \in Storage : op'[s] = op[s]
  PROVE  Secrets' /\ OneBusy' /\ \A s \in Storage : StorageCalls(s)'
<1>1. \A s \in Storage : Left(s)' = Left(s) /\ Ahead(s)' = Ahead(s)
  BY DEF Left, Ahead, Calls
<1>2. \A s \in Storage : StorageCalls(s)'
  BY <1>1 DEF Inv, StorageCalls, namespace
<1>3. Secrets'
  BY <1>1 DEF Inv, Secrets, Past, Unique, namespace
<1>4. OneBusy'
  BY <1>1 DEF Inv, OneBusy, Busy, Unique, namespace
<1>5. QED
  BY <1>2, <1>3, <1>4

(* The bindings, when a storage acts. *)
LEMMA BindingsKept ==
  ASSUME Inv, UNCHANGED <<data, rules, bind, jobs, late, lost>>,
         \A b \in Binding : op'[b] = op[b]
  PROVE  Jobs' /\ Buckets' /\ \A b \in Binding : Keeps(b)'
<1>1. Jobs' /\ Buckets'
  BY DEF Inv, Jobs, Buckets, Leads
<1>2. ASSUME NEW b \in Binding PROVE Keeps(b)'
  <2>1. Left(b)' = Left(b) /\ Ahead(b)' = Ahead(b) /\ op'[b] = op[b]
    BY DEF Left, Ahead, Calls
  <2>2. \A way : Rule(b, way)' = Rule(b, way)
    BY DEF Rule
  <2>3. Keeps(b)
    BY DEF Inv
  <2>4. BindingCalls(b)'
    BY <2>1, <2>3 DEF Keeps, BindingCalls
  <2>5. ViewOK(b)'
    BY <2>1, <2>2, <2>3 DEF Keeps, ViewOK, At, Leads
  <2>6. Binds(b)' /\ Unbinds(b)' /\ SyncedAt(b)'
    BY <2>1, <2>2, <2>3 DEF Keeps, Binds, Unbinds, Removing, SyncedAt
  <2>7. QED
    BY <2>4, <2>5, <2>6 DEF Keeps
<1>3. QED
  BY <1>1, <1>2

-----------------------------------------------------------------------------
(* A storage acts *)

(* It gets on with r, which leaves the others' secrets and conflicts alone. *)
LEMMA StorageStep ==
  ASSUME Inv, NEW s \in Storage, NEW r, NEW v,
         Turns(s, r, v),
         UNCHANGED <<kind, data, rules, bind, jobs, late, lost, spent>>,
         TypeOK', StorageCalls(s)', OneBusy',
         \A t \in Storage \ {s} : store'[t] = store[t],
         Unique(s) /\ Past(s)' => held'[s] = secret' /\ "secret" \in made',
         \A t \in Storage \ {s} : Unique(t) /\ Past(t) => held'[t] = secret' /\ "secret" \in made'
  PROVE  Inv'
<1>1. OpShape' /\ \A x \in Worker : x # s => op'[x] = op[x]
  BY OpMove
<1>2. \A b \in Binding : op'[b] = op[b]
  BY <1>1, Workers
<1>3. Jobs' /\ Buckets' /\ \A b \in Binding : Keeps(b)'
  BY <1>2, BindingsKept
<1>4. \A t \in Storage \ {s} : Left(t)' = Left(t) /\ Ahead(t)' = Ahead(t)
  BY <1>1, Workers DEF Left, Ahead, Calls
<1>5. \A t \in Storage \ {s} : StorageCalls(t)'
  BY <1>4 DEF Inv, StorageCalls
<1>6. Secrets'
  BY <1>4 DEF Secrets, Past, Unique
<1>7. QED
  BY <1>1, <1>3, <1>5, <1>6 DEF Inv

LEMMA ValidateInv ==
  ASSUME Inv, NEW s \in Storage, Validate(s)
  PROVE  Inv'
<1> DEFINE r == Objects(s) \o <<"site">>
<1>1. /\ Turns(s, r, None)
      /\ UNCHANGED <<kind, store, made, secret, held, data, rules, bind, jobs, late, lost, spent>>
      /\ store[s] = "Pending" /\ op[s] = Idle /\ (Unique(s) => Conflicts(s) = {})
      /\ raced' = (raced \/ (Unique(s) /\ \E t \in Storage \ {s} : Unique(t) /\ op[t] # Idle))
  BY DEF Validate, Starts, Turns
<1>2. /\ r \in Seq(StorageCall)
      /\ \A i \in 1 .. Len(r) : r[i] = "site" => i = Len(r)
      /\ Unique(s) => "secret" \in Calls(r)
  BY ObjectsCalls
<1> HIDE DEF r
<1>3. Left(s)' = r /\ \A x \in Worker : x # s => op'[x] = op[x]
  BY <1>1, OpMove
<1>4. StorageCalls(s)'
  BY <1>1, <1>2, <1>3 DEF StorageCalls
<1>5. Unique(s) => ~Past(s)'
  BY <1>1, <1>2, <1>3 DEF Past, Ahead
<1>6. OneBusy'
  <2>1. SUFFICES ASSUME ~raced', NEW t \in Storage, NEW v \in Storage, t # v,
                        Unique(t)', Unique(v)', Busy(t)', Busy(v)'
                 PROVE  FALSE
    BY DEF OneBusy
  <2>2. ~raced /\ Unique(t) /\ Unique(v)
    BY <1>1, <2>1 DEF Unique
  <2>3. \A x \in Storage \ {s} : Busy(x)' => Busy(x)
    BY <1>1, <1>3, Workers DEF Busy, Left
  <2>4. \A x \in Storage \ {s} : Unique(s) /\ Unique(x) => ~Busy(x)
    BY <1>1, <2>1, IdleLeft DEF Busy, Conflicts
  <2>5. CASE t # s /\ v # s
    BY <2>1, <2>2, <2>3, <2>5 DEF Inv, OneBusy
  <2>6. CASE t = s \/ v = s
    BY <2>1, <2>2, <2>3, <2>4, <2>6
  <2>7. QED
    BY <2>5, <2>6
<1>7. TypeOK'
  BY <1>1 DEF Inv, TypeOK
<1>8. \A t \in Storage : Unique(t) /\ Past(t) => held'[t] = secret' /\ "secret" \in made'
  BY <1>1 DEF Inv, Secrets
<1>9. QED
  BY <1>1, <1>4, <1>5, <1>6, <1>7, <1>8, StorageStep

(* Nobody gets busy by a call. *)
LEMMA BusyKept ==
  ASSUME Inv, NEW s \in Storage, NEW r, NEW v, Left(s) # <<>>,
         Turns(s, r, v),
         UNCHANGED <<kind, raced>>, \A t \in Storage \ {s} : store'[t] = store[t]
  PROVE  OneBusy'
<1>1. \A t \in Storage \ {s} : Left(t)' = Left(t)
  BY OpMove, Workers
<1>2. \A t \in Storage : Busy(t)' => Busy(t)
  BY <1>1 DEF Busy
<1>3. QED
  BY <1>2 DEF Inv, OneBusy, Unique

(* A storage with calls left, and one that takes the first of them. *)
LEMMA StorageLeft ==
  ASSUME Inv, NEW s \in Storage, Left(s) # <<>>
  PROVE  /\ store[s] = "Pending" /\ Head(Left(s)) \in Ahead(s)
         /\ Ahead(s) = {Head(Left(s))} \union Calls(Tail(Left(s)))
         /\ Head(Left(s)) = "site" => Ahead(s) = {"site"}
         /\ Left(s) \in Seq(StorageCall)
         /\ \A i \in 1 .. Len(Left(s)) : Left(s)[i] = "site" => i = Len(Left(s))
         /\ Tail(Left(s)) \in Seq(StorageCall)
         /\ \A i \in 1 .. Len(Tail(Left(s))) : Tail(Left(s))[i] = "site" => i = Len(Tail(Left(s)))
<1> DEFINE r == Left(s)
<1>1. /\ r \in Seq(StorageCall) /\ r # <<>> /\ store[s] = "Pending"
      /\ \A i \in 1 .. Len(r) : r[i] = "site" => i = Len(r)
  BY DEF Inv, StorageCalls
<1> HIDE DEF r
<1>2. Calls(r) = {Head(r)} \union Calls(Tail(r))
  BY <1>1, TailCalls
<1>3. /\ Tail(r) \in Seq(StorageCall)
      /\ \A i \in 1 .. Len(Tail(r)) : Tail(r)[i] = "site" => i = Len(Tail(r))
      /\ Head(r) = "site" => Calls(r) = {"site"}
  BY <1>1, StorageCallsTail
<1>4. QED
  BY <1>1, <1>2, <1>3 DEF Ahead, r

LEMMA GetInv ==
  ASSUME Inv, NEW s \in Storage, NEW k, Get(s, k)
  PROVE  Inv'
<1>1. /\ Left(s) # <<>> /\ Head(Left(s)) = k
      /\ held' = IF k = "secret" THEN [held EXCEPT ![s] = secret] ELSE held
      /\ UNCHANGED <<kind, store, made, secret, raced, data, rules, bind, jobs, late, lost, spent>>
  BY DEF Get, At
<1>2. TypeOK'
  BY <1>1 DEF Inv, TypeOK
<1>3. /\ k = "secret" => held'[s] = secret
      /\ k # "secret" => held'[s] = held[s]
      /\ \A t \in Storage \ {s} : held'[t] = held[t]
  BY <1>1 DEF Inv, TypeOK
<1>4. \A t \in Storage \ {s} : Unique(t) /\ Past(t) => held'[t] = secret' /\ "secret" \in made'
  BY <1>1, <1>3 DEF Inv, Secrets
<1>5. CASE k \in made
  <2> DEFINE r == Tail(Left(s))
  <2>1. Turns(s, r, None)
    BY <1>5 DEF Get, Continue, Left, Turns
  <2>2. Left(s)' = r
    BY <2>1, OpMove
  <2>3. StorageCalls(s)'
    BY <1>1, <2>2, StorageLeft DEF StorageCalls
  <2>4. Unique(s) /\ Past(s)' => held'[s] = secret' /\ "secret" \in made'
    <3>1. SUFFICES ASSUME Unique(s), Past(s)' PROVE held'[s] = secret /\ "secret" \in made
      BY <1>1
    <3>2. "secret" \notin Calls(r)
      BY <1>1, <2>2, <3>1, StorageLeft DEF Past, Ahead
    <3>3. CASE k = "secret"
      BY <1>3, <1>5, <3>3
    <3>4. CASE k # "secret"
      BY <1>1, <1>3, <3>1, <3>2, <3>4, StorageLeft DEF Inv, Secrets, Past
    <3>5. QED
      BY <3>3, <3>4
  <2>5. OneBusy'
    BY <1>1, <2>1, BusyKept
  <2> HIDE DEF r
  <2>6. QED
    BY <1>1, <1>2, <1>4, <2>1, <2>3, <2>4, <2>5, StorageStep
<1>6. CASE k \notin made
  <2>1. Turns(s, Left(s), "missing")
    <3>1. op' = [op EXCEPT ![s].view = "missing"]
      BY <1>6 DEF Get
    <3>2. op[s] = [rest |-> op[s].rest, view |-> op[s].view]
      BY Workers DEF Inv, OpShape
    <3>3. [op[s] EXCEPT !.view = "missing"] = [rest |-> op[s].rest, view |-> "missing"]
      BY <3>2
    <3>4. QED
      BY <3>1, <3>3 DEF Left, Turns
  <2>2. Left(s)' = Left(s)
    BY <2>1, OpMove
  <2>3. StorageCalls(s)'
    BY <1>1, <2>2 DEF Inv, StorageCalls
  <2>4. Unique(s) /\ Past(s)' => held'[s] = secret' /\ "secret" \in made'
    <3>1. SUFFICES ASSUME Unique(s), Past(s)' PROVE held'[s] = secret /\ "secret" \in made
      BY <1>1
    <3>2. Past(s)
      BY <1>1, <2>2, <3>1 DEF Past, Ahead
    <3>3. k # "secret"
      BY <1>1, <3>2, StorageLeft DEF Past
    <3>4. QED
      BY <1>3, <3>1, <3>2, <3>3 DEF Inv, Secrets
  <2>5. OneBusy'
    BY <1>1, <2>1, BusyKept
  <2>6. QED
    BY <1>1, <1>2, <1>4, <2>1, <2>3, <2>4, <2>5, StorageStep
<1>7. QED
  BY <1>5, <1>6

LEMMA CreateObjectInv ==
  ASSUME Inv, NEW s \in Storage, NEW k, CreateObject(s, k)
  PROVE  Inv'
<1>1. /\ Left(s) # <<>> /\ Head(Left(s)) = k
      /\ UNCHANGED <<kind, store, raced, data, rules, bind, jobs, late, lost, spent>>
  BY DEF CreateObject, At
<1>2. CASE k \in made
  <2>1. Turns(s, <<>>, None) /\ UNCHANGED <<made, secret, held>>
    BY <1>2 DEF CreateObject, Create, Stop, Idle, Turns
  <2>2. Left(s)' = <<>>
    BY <2>1, OpMove
  <2>3. StorageCalls(s)'
    BY <2>2 DEF StorageCalls
  <2>4. ~Past(s)'
    BY <1>1, <2>2, StorageLeft DEF Past
  <2>5. OneBusy'
    BY <1>1, <2>1, BusyKept
  <2>6. TypeOK'
    BY <1>1, <2>1 DEF Inv, TypeOK
  <2>7. \A t \in Storage : Unique(t) /\ Past(t) => held'[t] = secret' /\ "secret" \in made'
    BY <2>1 DEF Inv, Secrets
  <2>8. QED
    BY <1>1, <2>1, <2>3, <2>4, <2>5, <2>6, <2>7, StorageStep
<1>3. CASE k \notin made
  <2> DEFINE r == Tail(Left(s))
  <2>1. /\ Turns(s, r, None)
        /\ made' = made \union {k}
        /\ secret' = IF k = "secret" THEN s ELSE secret
        /\ held' = IF k = "secret" THEN [held EXCEPT ![s] = s] ELSE held
    BY <1>3 DEF CreateObject, Create, Continue, Left, Turns
  <2>2. Left(s)' = r
    BY <2>1, OpMove
  <2>3. StorageCalls(s)'
    BY <1>1, <2>2, StorageLeft DEF StorageCalls
  <2>4. Unique(s) /\ Past(s)' => held'[s] = secret' /\ "secret" \in made'
    <3>1. SUFFICES ASSUME Unique(s), Past(s)' PROVE held'[s] = secret' /\ "secret" \in made'
      OBVIOUS
    <3>2. "secret" \notin Calls(r)
      BY <1>1, <2>2, <3>1, StorageLeft DEF Past, Ahead
    <3>3. CASE k = "secret"
      BY <2>1, <3>3 DEF Inv, TypeOK
    <3>4. CASE k # "secret"
      <4>1. held[s] = secret /\ "secret" \in made
        BY <1>1, <3>1, <3>2, <3>4, StorageLeft DEF Inv, Secrets, Past
      <4>2. QED
        BY <2>1, <3>4, <4>1
    <3>5. QED
      BY <3>3, <3>4
  <2>5. OneBusy'
    BY <1>1, <2>1, BusyKept
  <2>6. TypeOK'
    BY <1>1, <2>1 DEF Inv, TypeOK
  <2>7. \A t \in Storage \ {s} : Unique(t) /\ Past(t) => held'[t] = secret' /\ "secret" \in made'
    BY <1>3, <2>1 DEF Inv, TypeOK, Secrets
  <2> HIDE DEF r
  <2>8. QED
    BY <1>1, <2>1, <2>3, <2>4, <2>5, <2>6, <2>7, StorageStep
<1>4. QED
  BY <1>2, <1>3

LEMMA StorageReadyInv ==
  ASSUME Inv, NEW s \in Storage, StorageReady(s)
  PROVE  Inv'
<1>1. /\ Left(s) # <<>> /\ Head(Left(s)) = "site"
      /\ store' = [store EXCEPT ![s] = "Ready"]
      /\ Turns(s, <<>>, None)
      /\ UNCHANGED <<kind, made, secret, held, raced, data, rules, bind, jobs, late, lost, spent>>
  BY DEF StorageReady, At, Stop, Idle, Turns
<1>2. Left(s)' = <<>>
  BY <1>1, OpMove
<1>3. StorageCalls(s)'
  BY <1>2 DEF StorageCalls
<1>4. \A t \in Storage \ {s} : store'[t] = store[t]
  BY <1>1 DEF Inv, TypeOK
<1>5. OneBusy'
  BY <1>1, <1>4, BusyKept
<1>6. TypeOK'
  BY <1>1 DEF Inv, TypeOK
<1>7. Past(s)
  BY <1>1, StorageLeft DEF Past
<1>8. \A t \in Storage : Unique(t) /\ Past(t) => held'[t] = secret' /\ "secret" \in made'
  BY <1>1 DEF Inv, Secrets
<1>9. QED
  BY <1>1, <1>3, <1>4, <1>5, <1>6, <1>7, <1>8, StorageStep

LEMMA StorageFaultInv ==
  ASSUME Inv, NEW s \in Storage, Fault(s)
  PROVE  Inv'
<1>1. /\ Turns(s, <<>>, None)
      /\ UNCHANGED <<kind, store, made, secret, held, raced, data, rules, bind, jobs, late, lost>>
      /\ spent' \in 0 .. Limit
  BY DashStorageAssumption DEF Fault, Stop, Idle, Turns, namespace, Disturb, Inv, TypeOK
<1>2. Left(s)' = <<>> /\ OpShape' /\ \A x \in Worker : x # s => op'[x] = op[x]
  BY <1>1, OpMove
<1>3. Jobs' /\ Buckets' /\ \A b \in Binding : Keeps(b)'
  BY <1>1, <1>2, Workers, BindingsKept
<1>4. TypeOK'
  BY <1>1 DEF Inv, TypeOK
<1>5. \A t \in Storage \ {s} : Left(t)' = Left(t) /\ Ahead(t)' = Ahead(t)
  BY <1>2, Workers DEF Left, Ahead, Calls
<1>6. \A t \in Storage : StorageCalls(t)'
  <2>1. StorageCalls(s)'
    BY <1>2 DEF StorageCalls
  <2>2. \A t \in Storage \ {s} : StorageCalls(t)'
    BY <1>1, <1>5 DEF Inv, StorageCalls
  <2>3. QED
    BY <2>1, <2>2
<1>7. \A t \in Storage : (Past(t)' => Past(t)) /\ (Busy(t)' => Busy(t))
  BY <1>1, <1>2, <1>5 DEF Past, Busy
<1>8. Secrets' /\ OneBusy'
  BY <1>1, <1>7 DEF Inv, Secrets, OneBusy, Unique
<1>9. QED
  BY <1>2, <1>3, <1>4, <1>6, <1>8 DEF Inv

-----------------------------------------------------------------------------
(* A binding acts *)

(* The bucket of a binding is its own; none is the source of another. *)
LEMMA Places ==
  ASSUME NEW b \in Binding
  PROVE  /\ There(b) \in Bucket /\ Here(b) \in Bucket
         /\ \A way \in {"pull", "push"} : From(b, way) \in Bucket /\ To(b, way) \in Bucket
         /\ From(b, "pull") = Here(b) /\ To(b, "pull") = There(b)
         /\ From(b, "push") = There(b) /\ To(b, "push") = Here(b)
         /\ Ways(b) \subseteq {"pull", "push"}
         /\ \A c \in Binding : There(b) = There(c) => b = c
         /\ \A c \in Binding : There(b) # Here(c)
<1>1. There(b) \in Bucket /\ Here(b) \in Bucket
  BY DEF There, Here, Bucket, Storage
<1>2. \A c \in Binding : There(b) = There(c) => b = c
  BY DashStorageAssumption DEF There
<1>3. \A c \in Binding : There(b) # Here(c)
  BY DashStorageAssumption DEF There, Here
<1>4. Ways(b) \subseteq {"pull", "push"}
  BY DEF Ways
<1>5. QED
  BY <1>1, <1>2, <1>3, <1>4 DEF From, To

(* A binding the step does not touch keeps what it relies on, or is lost. *)
LEMMA OtherBinding ==
  ASSUME Inv, NEW c \in Binding, op'[c] = op[c], bind'[c] = bind[c],
         c \in lost => c \in lost',
         \A way \in Ways(c) : c \notin lost' /\ Rule(c, way) => Rule(c, way)',
         c.policy = "Delete" /\ c \notin lost' /\ Removing(c) => Removing(c)'
  PROVE  Keeps(c)'
<1>1. Left(c)' = Left(c) /\ Ahead(c)' = Ahead(c)
  BY DEF Left, Ahead, Calls
<1>2. Keeps(c)
  BY DEF Inv
<1>3. BindingCalls(c)'
  BY <1>1, <1>2 DEF Keeps, BindingCalls
<1>4. ViewOK(c)'
  <2>1. SUFFICES ASSUME NEW way \in {"pull", "push"}, At(c, <<"write", way>>)'
                 PROVE  /\ op[c].view \subseteq Bucket
                        /\ Leads(From(c, way), op[c].view)
                        /\ c \notin lost' /\ To(c, way) \in op[c].view => Rule(c, way)'
    BY DEF ViewOK, Leads
  <2>2. At(c, <<"write", way>>)
    BY <1>1, <2>1 DEF At
  <2>3. way \in Ways(c)
    <3>1. Left(c) # <<>> /\ Head(Left(c)) = <<"write", way>>
      BY <2>2 DEF At
    <3>2. CASE BindCalls(c, Left(c))
      <4>1. Left(c) # <<>> /\ Head(Left(c)) \in {<<"read", way>>, <<"write", way>>}
        BY <3>1
      <4>2. QED
        BY <3>2, <4>1, BindCallsWays
    <3>3. CASE UnbindCalls(c, Left(c))
      <4>1. Head(Left(c)) \in UnbindCall
        <5>1. Left(c) \in Seq(UnbindCall)
          BY <3>3 DEF UnbindCalls
        <5>2. QED
          BY <3>1, <5>1, HeadTailProperties
      <4>2. QED
        BY <3>1, <4>1 DEF UnbindCall
    <3>4. QED
      BY <1>2, <3>1, <3>2, <3>3 DEF Keeps, BindingCalls
  <2>4. QED
    BY <1>2, <2>2, <2>3 DEF Keeps, ViewOK
<1>5. Binds(c)'
  BY <1>1, <1>2 DEF Keeps, Binds
<1>6. Unbinds(c)'
  BY <1>1, <1>2 DEF Keeps, Unbinds
<1>7. SyncedAt(c)'
  BY <1>2 DEF Keeps, SyncedAt
<1>8. QED
  BY <1>3, <1>4, <1>5, <1>6, <1>7 DEF Keeps

(* The call a binding is at says what it is doing. *)
LEMMA AtCall ==
  ASSUME Inv, NEW b \in Binding, NEW c, At(b, c)
  PROVE  /\ Left(b) # <<>> /\ Head(Left(b)) = c /\ c \in Ahead(b)
         /\ Ahead(b) = {c} \union Calls(Tail(Left(b)))
         /\ \/ /\ bind[b] = "Pending" /\ BindCalls(b, Left(b)) /\ c \in BindCall
               /\ BindCalls(b, Tail(Left(b))) /\ <<"make">> \notin Calls(Tail(Left(b)))
            \/ /\ bind[b] = "Deleting" /\ UnbindCalls(b, Left(b)) /\ c \in UnbindCall
               /\ UnbindCalls(b, Tail(Left(b)))
<1> DEFINE r == Left(b)
<1>1. r # <<>> /\ Head(r) = c /\ BindingCalls(b)
  BY DEF At, Inv, Keeps
<1> HIDE DEF r
<1>2. CASE bind[b] = "Pending" /\ BindCalls(b, r)
  <2>1. r \in Seq(BindCall)
    BY <1>2 DEF BindCalls
  <2>2. Head(r) \in BindCall /\ Calls(r) = {Head(r)} \union Calls(Tail(r))
    BY <1>1, <2>1, TailCalls, HeadTailProperties
  <2>3. BindCalls(b, Tail(r)) /\ <<"make">> \notin Calls(Tail(r))
    BY <1>1, <1>2, BindCallsTail
  <2>4. QED
    BY <1>1, <1>2, <2>2, <2>3 DEF Ahead, r
<1>3. CASE bind[b] = "Deleting" /\ UnbindCalls(b, r)
  <2>1. r \in Seq(UnbindCall)
    BY <1>3 DEF UnbindCalls
  <2>2. Head(r) \in UnbindCall /\ Calls(r) = {Head(r)} \union Calls(Tail(r))
    BY <1>1, <2>1, TailCalls, HeadTailProperties
  <2>3. UnbindCalls(b, Tail(r))
    BY <1>1, <1>3, UnbindCallsTail
  <2>4. QED
    BY <1>1, <1>3, <2>2, <2>3 DEF Ahead, r
<1>4. QED
  BY <1>1, <1>2, <1>3 DEF BindingCalls, r

(* A binding takes the next of its calls. *)
LEMMA Advance ==
  ASSUME Inv, NEW b \in Binding, NEW c, At(b, c), NEW v, Continue(b, v), bind' = bind
  PROVE  /\ OpShape' /\ \A x \in Worker : x # b => op'[x] = op[x]
         /\ op'[b].view = v /\ Left(b)' = Tail(Left(b)) /\ BindingCalls(b)'
         /\ Ahead(b) = {c} \union Ahead(b)'
         /\ <<"make">> \notin Ahead(b)' \/ bind[b] = "Deleting"
         /\ \A way \in {"pull", "push"} : At(b, <<"write", way>>)' => c = <<"read", way>>
<1> DEFINE r == Left(b)
           t == Tail(r)
<1>1. Turns(b, t, v)
  BY DEF Continue, Left, Turns
<1> HIDE DEF t
<1>2. /\ OpShape' /\ \A x \in Worker : x # b => op'[x] = op[x]
      /\ op'[b].view = v /\ Left(b)' = t
  BY <1>1, OpMove
<1>3. Left(b)' = Tail(r)
  BY <1>2 DEF t
<1>4. BindingCalls(b)'
  BY <1>3, AtCall DEF BindingCalls
<1>5. Ahead(b) = {c} \union Ahead(b)'
  BY <1>3, AtCall DEF Ahead
<1>6. <<"make">> \notin Ahead(b)' \/ bind[b] = "Deleting"
  BY <1>3, AtCall DEF Ahead
<1>7. ASSUME NEW way \in {"pull", "push"}, At(b, <<"write", way>>)' PROVE c = <<"read", way>>
  <2>1. Tail(r) # <<>> /\ Head(Tail(r)) = <<"write", way>>
    BY <1>3, <1>7 DEF At
  <2>2. CASE BindCalls(b, r)
    BY <2>1, <2>2, AtCall, BindCallsTail
  <2>3. CASE UnbindCalls(b, Tail(r))
    <3>1. Tail(r) \in Seq(UnbindCall)
      BY <2>3 DEF UnbindCalls
    <3>2. Head(Tail(r)) \in UnbindCall
      BY <2>1, <3>1, HeadTailProperties
    <3>3. QED
      BY <2>1, <3>2 DEF UnbindCall
  <2>4. QED
    BY <2>2, <2>3, AtCall
<1>8. QED
  BY <1>2, <1>3, <1>4, <1>5, <1>6, <1>7

(* A binding has nothing left to call. *)
LEMMA Halt ==
  ASSUME Inv, NEW b \in Binding, Stop(b)
  PROVE  /\ OpShape' /\ \A x \in Worker : x # b => op'[x] = op[x]
         /\ Left(b)' = <<>> /\ BindingCalls(b)' /\ ViewOK(b)' /\ Binds(b)'
<1>1. Turns(b, <<>>, None)
  BY DEF Stop, Idle, Turns
<1>2. OpShape' /\ (\A x \in Worker : x # b => op'[x] = op[x]) /\ Left(b)' = <<>>
  BY <1>1, OpMove
<1>3. QED
  BY <1>2 DEF BindingCalls, ViewOK, At, Binds

(* The storages and the other bindings stay as they are: what is left to show is
   what the binding itself keeps, and the Jobs and the buckets. *)
LEMMA BindingStep ==
  ASSUME Inv, NEW b \in Binding, UNCHANGED namespace, OpShape',
         \A x \in Worker : x # b => op'[x] = op[x],
         TypeOK', Jobs', Buckets', Keeps(b)', \A c \in Binding \ {b} : Keeps(c)'
  PROVE  Inv'
<1>1. \A s \in Storage : op'[s] = op[s]
  BY Workers
<1>2. Secrets' /\ OneBusy' /\ \A s \in Storage : StorageCalls(s)'
  BY <1>1, StoragesKept
<1>3. QED
  BY <1>2 DEF Inv

(* Nothing of the others is touched by a call that changes no rules, buckets
   or Jobs. *)
LEMMA QuietOthers ==
  ASSUME Inv, NEW b \in Binding, UNCHANGED <<data, rules, jobs>>,
         \A x \in Worker : x # b => op'[x] = op[x],
         \A c \in Binding \ {b} : bind'[c] = bind[c],
         \A c \in Binding \ {b} : c \in lost <=> c \in lost'
  PROVE  \A c \in Binding \ {b} : Keeps(c)'
<1>1. SUFFICES ASSUME NEW c \in Binding \ {b} PROVE Keeps(c)'
  OBVIOUS
<1>2. op'[c] = op[c]
  BY Workers
<1>3. \A way \in Ways(c) : Rule(c, way)' <=> Rule(c, way)
  BY DEF Rule
<1>4. Removing(c)' <=> Removing(c)
  BY DEF Removing
<1>5. QED
  BY <1>2, <1>3, <1>4, OtherBinding

LEMMA QuietBuckets ==
  ASSUME Inv, UNCHANGED <<data, rules, jobs, late>>
  PROVE  Jobs' /\ Buckets'
  BY DEF Inv, Jobs, Buckets, Leads

(* A call of a binding that is bound: what it wrote before stays, and what it
   writes is there. *)
LEMMA AdvanceBinding ==
  ASSUME Inv, NEW b \in Binding, NEW c, At(b, c), NEW v, Continue(b, v), bind' = bind,
         bind[b] = "Pending", b \in lost => b \in lost', ViewOK(b)',
         \A way \in Ways(b) :
            <<"write", way>> \notin Ahead(b) /\ b \notin lost' /\ Rule(b, way) => Rule(b, way)',
         \A way \in Ways(b) : c = <<"write", way>> /\ b \notin lost' => Rule(b, way)'
  PROVE  Keeps(b)'
<1>1. /\ BindingCalls(b)' /\ Ahead(b) = {c} \union Ahead(b)'
      /\ <<"make">> \notin Ahead(b)'
  BY Advance
<1>2. Binds(b) /\ Left(b) # <<>>
  BY AtCall DEF Inv, Keeps
<1>3. Binds(b)'
  BY <1>1, <1>2 DEF Binds
<1>4. Unbinds(b)' /\ SyncedAt(b)'
  BY DEF Unbinds, SyncedAt
<1>5. QED
  BY <1>1, <1>3, <1>4 DEF Keeps

(* A call of a binding that is unbound: the bucket goes, or a Job takes over. *)
LEMMA AdvanceUnbinding ==
  ASSUME Inv, NEW b \in Binding, NEW c, At(b, c), NEW v, Continue(b, v), bind' = bind,
         bind[b] = "Deleting", b \in lost => b \in lost',
         b \notin lost' /\ Removing(b) => Removing(b)',
         c \in {<<"job", "push">>, <<"job", "delete">>} => Removing(b)' \/ b \in lost'
  PROVE  Keeps(b)'
<1>1. /\ BindingCalls(b)' /\ Ahead(b) = {c} \union Ahead(b)'
      /\ \A way \in {"pull", "push"} : At(b, <<"write", way>>)' => c = <<"read", way>>
  BY Advance
<1>2. Unbinds(b) /\ Left(b) # <<>>
  BY AtCall DEF Inv, Keeps
<1>3. Unbinds(b)'
  BY <1>1, <1>2 DEF Unbinds
<1>4. Binds(b)' /\ SyncedAt(b)'
  BY DEF Binds, SyncedAt
<1>5. ViewOK(b)'
  <2>1. c \in UnbindCall
    BY AtCall
  <2>2. \A way \in {"pull", "push"} : c # <<"read", way>>
    BY <2>1 DEF UnbindCall
  <2>3. QED
    BY <1>1, <2>2 DEF ViewOK
<1>6. QED
  BY <1>1, <1>3, <1>4, <1>5 DEF Keeps

(* A call that binds is made by a binding that is Pending, one that unbinds by one
   that is being deleted. *)
LEMMA CallKinds ==
  ASSUME Inv, NEW b \in Binding, NEW c, At(b, c)
  PROVE  /\ c \in BindCall => bind[b] = "Pending"
         /\ c \in UnbindCall => bind[b] = "Deleting"
<1>1. BindCall \intersect UnbindCall = {}
  BY DEF BindCall, SyncCall, UnbindCall
<1>2. QED
  BY <1>1, AtCall

LEMMA SpentStep == TypeOK /\ Disturb => spent' \in 0 .. Limit
  BY DashStorageAssumption DEF TypeOK, Disturb

LEMMA BindStartsInv ==
  ASSUME Inv, NEW b \in Binding, BindStarts(b)
  PROVE  Inv'
<1> DEFINE r == <<<<"make">>>> \o SyncBucket(b) \o <<<<"bound">>>>
<1>1. /\ Turns(b, r, None)
      /\ UNCHANGED <<namespace, data, rules, bind, jobs, late, lost, spent>>
      /\ bind[b] = "Pending"
  BY DEF BindStarts, Starts, Turns
<1>2. /\ BindCalls(b, r) /\ r # <<>> /\ Head(r) = <<"make">>
      /\ \A way \in Ways(b) : <<"write", way>> \in Calls(r)
  BY BindCallsStart
<1> HIDE DEF r
<1>3. Left(b)' = r /\ OpShape' /\ \A x \in Worker : x # b => op'[x] = op[x]
  BY <1>1, OpMove
<1>4. BindingCalls(b)'
  <2>1. Left(b)' = r /\ bind'[b] = "Pending" /\ BindCalls(b, r)
    BY <1>1, <1>2, <1>3
  <2>2. QED
    BY <2>1, Zenon DEF BindingCalls
<1>5. ViewOK(b)'
  BY <1>2, <1>3 DEF ViewOK, At
<1>6. Binds(b)' /\ Unbinds(b)' /\ SyncedAt(b)'
  BY <1>1, <1>2, <1>3 DEF Binds, Unbinds, SyncedAt, Ahead
<1>7. Keeps(b)'
  BY <1>4, <1>5, <1>6 DEF Keeps
<1>8. TypeOK'
  BY <1>1 DEF Inv, TypeOK, namespace
<1>9. Jobs' /\ Buckets' /\ \A c \in Binding \ {b} : Keeps(c)'
  BY <1>1, <1>3, QuietOthers, QuietBuckets
<1>10. QED
  BY <1>1, <1>3, <1>7, <1>8, <1>9, BindingStep

LEMMA UnbindStartsInv ==
  ASSUME Inv, NEW b \in Binding, UnbindStarts(b)
  PROVE  Inv'
<1>1. PICK r : /\ Turns(b, r, None)
               /\ UnbindCalls(b, r)
               /\ b.policy = "Delete" => \/ data[There(b)] = None
                                         \/ <<"job", "push">> \in Calls(r)
                                         \/ <<"job", "delete">> \in Calls(r)
  <2>1. CASE b.policy = "Delete" /\ data[There(b)] = None
    BY <2>1, UnbindCallsStart DEF UnbindStarts, Starts, Turns
  <2>2. CASE ~(b.policy = "Delete" /\ data[There(b)] = None)
    BY <2>2, UnbindCallsStart DEF UnbindStarts, Starts, Turns
  <2>3. QED
    BY <2>1, <2>2
<1>2. UNCHANGED <<namespace, data, rules, bind, jobs, late, lost, spent>> /\ bind[b] = "Deleting"
  BY DEF UnbindStarts
<1>3. Left(b)' = r /\ OpShape' /\ \A x \in Worker : x # b => op'[x] = op[x]
  BY <1>1, OpMove
<1>4. BindingCalls(b)'
  BY <1>1, <1>2, <1>3 DEF BindingCalls
<1>5. ViewOK(b)'
  <2>1. SUFFICES ASSUME NEW way \in {"pull", "push"}, At(b, <<"write", way>>)' PROVE FALSE
    BY DEF ViewOK
  <2>2. r # <<>> /\ Head(r) = <<"write", way>> /\ r \in Seq(UnbindCall)
    BY <1>1, <1>3, <2>1 DEF At, UnbindCalls
  <2>3. <<"write", way>> \in UnbindCall
    BY <2>2, HeadTailProperties
  <2>4. QED
    BY <2>3 DEF UnbindCall
<1>6. Binds(b)' /\ SyncedAt(b)'
  BY <1>2 DEF Binds, SyncedAt
<1>7. Unbinds(b)'
  BY <1>1, <1>2, <1>3 DEF Unbinds, Removing, Ahead
<1>8. Keeps(b)'
  BY <1>4, <1>5, <1>6, <1>7 DEF Keeps
<1>9. TypeOK'
  BY <1>2 DEF Inv, TypeOK, namespace
<1>10. Jobs' /\ Buckets' /\ \A c \in Binding \ {b} : Keeps(c)'
  BY <1>2, <1>3, QuietOthers, QuietBuckets
<1>11. QED
  BY <1>2, <1>3, <1>8, <1>9, <1>10, BindingStep

LEMMA BindEndsInv ==
  ASSUME Inv, NEW b \in Binding, BindEnds(b)
  PROVE  Inv'
<1>1. /\ At(b, <<"bound">>) /\ bind' = [bind EXCEPT ![b] = "Ready"] /\ Stop(b)
      /\ UNCHANGED <<namespace, data, rules, jobs, late, lost, spent>>
  BY DEF BindEnds
<1>2. bind[b] = "Pending" /\ Left(b) # <<>> /\ Ahead(b) = {<<"bound">>}
  <2>1. bind[b] = "Pending"
    BY <1>1, CallKinds DEF BindCall
  <2>2. Left(b) # <<>> /\ Head(Left(b)) = <<"bound">> /\ BindCalls(b, Left(b))
    BY <1>1, <2>1, AtCall
  <2>3. QED
    BY <2>1, <2>2, BindCallsTail DEF Ahead
<1>3. \A way \in Ways(b) : b \notin lost => Rule(b, way)
  BY <1>2 DEF Inv, Keeps, Binds
<1>4. bind' \in [Binding -> {"Absent", "Pending", "Ready", "Deleting"}] /\ bind'[b] = "Ready"
      /\ \A c \in Binding \ {b} : bind'[c] = bind[c]
  BY <1>1 DEF Inv, TypeOK
<1>5. /\ OpShape' /\ \A x \in Worker : x # b => op'[x] = op[x]
      /\ Left(b)' = <<>> /\ BindingCalls(b)' /\ ViewOK(b)' /\ Binds(b)'
  BY <1>1, Halt
<1>6. Unbinds(b)'
  BY <1>4 DEF Unbinds
<1>7. SyncedAt(b)'
  BY <1>1, <1>3 DEF SyncedAt, Rule
<1>8. Keeps(b)'
  BY <1>5, <1>6, <1>7 DEF Keeps
<1>9. TypeOK'
  BY <1>1, <1>4 DEF Inv, TypeOK, namespace
<1>10. Jobs' /\ Buckets' /\ \A c \in Binding \ {b} : Keeps(c)'
  BY <1>1, <1>4, <1>5, QuietOthers, QuietBuckets
<1>11. QED
  BY <1>1, <1>5, <1>8, <1>9, <1>10, BindingStep

LEMMA UnbindEndsInv ==
  ASSUME Inv, NEW b \in Binding, UnbindEnds(b)
  PROVE  Inv'
<1>1. /\ At(b, <<"unbound">>) /\ bind' = [bind EXCEPT ![b] = "Absent"] /\ Stop(b)
      /\ UNCHANGED <<namespace, data, rules, jobs, late, lost, spent>>
  BY DEF UnbindEnds
<1>2. bind[b] = "Deleting" /\ Left(b) # <<>> /\ Ahead(b) = {<<"unbound">>}
  <2>1. bind[b] = "Deleting"
    BY <1>1, CallKinds DEF UnbindCall
  <2>2. Left(b) # <<>> /\ Head(Left(b)) = <<"unbound">> /\ UnbindCalls(b, Left(b))
    BY <1>1, <2>1, AtCall
  <2>3. QED
    BY <2>1, <2>2, UnbindCallsTail DEF Ahead
<1>3. b.policy = "Delete" /\ b \notin lost => Removing(b)
  BY <1>2 DEF Inv, Keeps, Unbinds
<1>4. bind' \in [Binding -> {"Absent", "Pending", "Ready", "Deleting"}] /\ bind'[b] = "Absent"
      /\ \A c \in Binding \ {b} : bind'[c] = bind[c]
  BY <1>1 DEF Inv, TypeOK
<1>5. /\ OpShape' /\ \A x \in Worker : x # b => op'[x] = op[x]
      /\ Left(b)' = <<>> /\ BindingCalls(b)' /\ ViewOK(b)' /\ Binds(b)'
  BY <1>1, Halt
<1>6. Unbinds(b)'
  BY <1>1, <1>3, <1>4 DEF Unbinds, Removing
<1>7. SyncedAt(b)'
  BY <1>4 DEF SyncedAt
<1>8. Keeps(b)'
  BY <1>5, <1>6, <1>7 DEF Keeps
<1>9. TypeOK'
  BY <1>1, <1>4 DEF Inv, TypeOK, namespace
<1>10. Jobs' /\ Buckets' /\ \A c \in Binding \ {b} : Keeps(c)'
  BY <1>1, <1>4, <1>5, QuietOthers, QuietBuckets
<1>11. QED
  BY <1>1, <1>5, <1>8, <1>9, <1>10, BindingStep

LEMMA MakeBucketInv ==
  ASSUME Inv, NEW b \in Binding, MakeBucket(b)
  PROVE  Inv'
<1>1. /\ At(b, <<"make">>) /\ Continue(b, None)
      /\ data' = IF data[There(b)] = None THEN [data EXCEPT ![There(b)] = {}] ELSE data
      /\ UNCHANGED <<namespace, rules, bind, jobs, late, lost, spent>>
  BY DEF MakeBucket
<1>2. bind[b] = "Pending"
  BY <1>1, CallKinds DEF BindCall
<1>3. /\ data' \in [Bucket -> {None} \union SUBSET Item]
      /\ \A u \in Bucket : u # There(b) => data'[u] = data[u]
      /\ data'[There(b)] = data[There(b)] \/ data'[There(b)] = {}
  BY <1>1, Places DEF Inv, TypeOK
<1>4. /\ OpShape' /\ \A x \in Worker : x # b => op'[x] = op[x]
      /\ \A way \in {"pull", "push"} : At(b, <<"write", way>>)' => <<"make">> = <<"read", way>>
  BY <1>1, Advance
<1>5. ViewOK(b)'
  BY <1>4 DEF ViewOK
<1>6. \A way \in Ways(b) : <<"write", way>> \in Ahead(b)
  BY <1>1, <1>2, AtCall DEF Inv, Keeps, Binds
<1>7. \A way \in Ways(b) : <<"make">> # <<"write", way>>
  OBVIOUS
<1>8. Keeps(b)'
  BY <1>1, <1>2, <1>5, <1>6, <1>7, AdvanceBinding
<1>9. ASSUME NEW c \in Binding \ {b} PROVE Keeps(c)'
  <2>1. \A way \in Ways(c) : Rule(c, way) => Rule(c, way)'
    <3>1. \A way \in Ways(c) : From(c, way) \in Bucket /\ From(c, way) # There(b)
      BY Places
    <3>2. QED
      BY <1>1, <1>3, <3>1 DEF Rule
  <2>2. Removing(c) => Removing(c)'
    BY <1>1, <1>3, Places DEF Removing
  <2>3. QED
    BY <1>1, <1>4, <2>1, <2>2, OtherBinding, Workers
<1>10. Buckets'
  BY <1>1, <1>3, Places DEF Inv, Buckets, Leads
<1>11. Jobs'
  <2>1. \A c \in Binding : data'[Here(c)] = data[Here(c)]
    BY <1>3, Places
  <2>2. \A c \in Binding : data'[There(c)] = data[There(c)] \/ data'[There(c)] = {}
    BY <1>3, Places
  <2>3. QED
    BY <1>1, <2>1, <2>2 DEF Inv, Jobs
<1>12. TypeOK'
  BY <1>1, <1>3 DEF Inv, TypeOK, namespace
<1>13. QED
  BY <1>1, <1>4, <1>8, <1>9, <1>10, <1>11, <1>12, BindingStep

LEMMA ReadRulesInv ==
  ASSUME Inv, NEW b \in Binding, NEW way \in {"pull", "push"}, ReadRules(b, way)
  PROVE  Inv'
<1>1. PICK v \in {rules[From(b, way)], {}} : Continue(b, v)
  BY DEF ReadRules
<1>2. /\ At(b, <<"read", way>>) /\ UNCHANGED <<namespace, data, rules, bind, jobs, late, lost>>
      /\ spent' \in 0 .. Limit
  BY SpentStep DEF ReadRules, Inv, TypeOK
<1>3. bind[b] = "Pending"
  BY <1>2, CallKinds DEF BindCall, SyncCall
<1>4. /\ OpShape' /\ \A x \in Worker : x # b => op'[x] = op[x]
      /\ op'[b].view = v
      /\ \A w \in {"pull", "push"} : At(b, <<"write", w>>)' => <<"read", way>> = <<"read", w>>
  BY <1>1, <1>2, Advance
<1>5. ViewOK(b)'
  <2>1. SUFFICES ASSUME NEW w \in {"pull", "push"}, At(b, <<"write", w>>)'
                 PROVE  /\ v \subseteq Bucket
                        /\ Leads(From(b, w), v)
                        /\ b \notin lost /\ To(b, w) \in v => Rule(b, w)'
    BY <1>2, <1>4 DEF ViewOK, Leads
  <2>2. w = way
    BY <1>4, <2>1
  <2>3. From(b, way) \in Bucket
    BY Places
  <2>4. v \subseteq Bucket
    BY <2>3 DEF Inv, TypeOK
  <2>5. Leads(From(b, way), v)
    BY <2>3 DEF Inv, Buckets, Leads
  <2>6. To(b, way) \in v => Rule(b, way)'
    BY <1>2 DEF Rule
  <2>7. QED
    BY <2>2, <2>4, <2>5, <2>6
<1>6. \A w \in Ways(b) : <<"read", way>> # <<"write", w>>
  OBVIOUS
<1>7. \A w : Rule(b, w)' = Rule(b, w)
  BY <1>2 DEF Rule
<1>8. Keeps(b)'
  BY <1>1, <1>2, <1>3, <1>5, <1>6, <1>7, AdvanceBinding
<1>9. TypeOK'
  BY <1>2 DEF Inv, TypeOK, namespace
<1>10. Jobs' /\ Buckets' /\ \A c \in Binding \ {b} : Keeps(c)'
  BY <1>2, <1>4, QuietOthers, QuietBuckets
<1>11. QED
  BY <1>2, <1>4, <1>8, <1>9, <1>10, BindingStep

-----------------------------------------------------------------------------
(* The documents *)

(* When the document of u becomes d, a binding whose rule was in it keeps the rule
   or is among those that are cut. *)
LEMMA CutOthers ==
  ASSUME Inv, NEW b \in Binding, NEW u \in Bucket, NEW d, NEW e, e \subseteq d,
         rules' = [rules EXCEPT ![u] = d], lost' = lost \union Cut(b, u, e),
         UNCHANGED <<data, bind, jobs>>, \A x \in Worker : x # b => op'[x] = op[x]
  PROVE  \A c \in Binding \ {b} : Keeps(c)'
<1>1. SUFFICES ASSUME NEW c \in Binding \ {b} PROVE Keeps(c)'
  OBVIOUS
<1>2. rules'[u] = d /\ \A x \in Bucket : x # u => rules'[x] = rules[x]
  BY DEF Inv, TypeOK
<1>3. ASSUME NEW way \in Ways(c), c \notin lost', Rule(c, way) PROVE Rule(c, way)'
  <2>1. From(c, way) \in Bucket
    BY Places
  <2>2. CASE From(c, way) # u
    BY <1>2, <1>3, <2>1, <2>2 DEF Rule
  <2>3. CASE From(c, way) = u
    <3>1. c \notin Cut(b, u, e)
      BY <1>3
    <3>2. To(c, way) \in rules[u] => To(c, way) \in e
      BY <2>3, <3>1 DEF Cut
    <3>3. QED
      BY <1>2, <1>3, <2>3, <3>2 DEF Rule
  <2>4. QED
    BY <2>2, <2>3
<1>4. Removing(c)' <=> Removing(c)
  BY DEF Removing
<1>5. op'[c] = op[c]
  BY Workers
<1>6. QED
  BY <1>3, <1>4, <1>5, OtherBinding

LEMMA CutKeeps ==
  ASSUME Inv, NEW b \in Binding, NEW u, NEW d, lost' = lost \union Cut(b, u, d)
  PROVE  lost' \subseteq Binding /\ (b \in lost' <=> b \in lost)
  BY DEF Cut, Inv, TypeOK

LEMMA WriteRulesInv ==
  ASSUME Inv, NEW b \in Binding, NEW way \in {"pull", "push"}, WriteRules(b, way)
  PROVE  Inv'
<1> DEFINE u == From(b, way)
           view == op[b].view
<1>1. /\ At(b, <<"write", way>>) /\ Continue(b, None)
      /\ UNCHANGED <<namespace, data, bind, jobs, late, spent>>
  BY DEF WriteRules
<1>2. /\ view \subseteq Bucket /\ Leads(u, view)
      /\ b \notin lost /\ To(b, way) \in view => Rule(b, way)
  BY <1>1 DEF Inv, Keeps, ViewOK
<1>3. bind[b] = "Pending" /\ way \in Ways(b)
  <2>1. bind[b] = "Pending"
    BY <1>1, CallKinds DEF BindCall, SyncCall
  <2>2. QED
    BY <1>1, <2>1, AtCall, BindCallsTail
<1>4. /\ OpShape' /\ \A x \in Worker : x # b => op'[x] = op[x]
      /\ \A w \in {"pull", "push"} : At(b, <<"write", w>>)' => <<"write", way>> = <<"read", w>>
  BY <1>1, Advance
<1>5. ViewOK(b)'
  BY <1>4 DEF ViewOK
<1>6. u \in Bucket /\ To(b, way) \in Bucket
  BY Places
<1>7. \A w \in Ways(b) : <<"write", way>> = <<"write", w>> => w = way
  OBVIOUS
<1>8. CASE To(b, way) \in view
  <2>1. UNCHANGED <<rules, lost>>
    BY <1>8 DEF WriteRules
  <2>2. \A w : Rule(b, w)' = Rule(b, w)
    BY <1>1, <2>1 DEF Rule
  <2>3. Keeps(b)'
    BY <1>1, <1>2, <1>3, <1>5, <1>7, <1>8, <2>1, <2>2, AdvanceBinding
  <2>4. TypeOK'
    BY <1>1, <2>1 DEF Inv, TypeOK, namespace
  <2>5. Jobs' /\ Buckets' /\ \A c \in Binding \ {b} : Keeps(c)'
    BY <1>1, <1>4, <2>1, QuietOthers, QuietBuckets
  <2>6. QED
    BY <1>1, <1>4, <2>3, <2>4, <2>5, BindingStep
<1>9. CASE To(b, way) \notin view
  <2> DEFINE d == WithRule(b, way)
  <2>1. rules' = [rules EXCEPT ![u] = d] /\ lost' = lost \union Cut(b, u, view)
    BY <1>9 DEF WriteRules
  <2>2. d = view \union {To(b, way)}
    BY DEF WithRule
  <2> HIDE DEF d, u
  <2>3. /\ rules' \in [Bucket -> SUBSET Bucket] /\ rules'[u] = d
        /\ \A x \in Bucket : x # u => rules'[x] = rules[x]
    BY <1>2, <1>6, <2>1, <2>2 DEF Inv, TypeOK
  <2>4. lost' \subseteq Binding /\ (b \in lost' <=> b \in lost)
    BY <2>1, CutKeeps
  <2>5. Rule(b, way)'
    BY <2>2, <2>3 DEF Rule, u
  <2>6. ASSUME NEW w \in Ways(b), Rule(b, w) PROVE Rule(b, w)'
    <3>1. CASE w = way
      BY <2>5, <3>1
    <3>2. CASE w # way
      <4>1. From(b, w) # u /\ From(b, w) \in Bucket
        BY <1>3, <3>2, Places DEF u
      <4>2. QED
        BY <1>1, <2>3, <2>6, <4>1 DEF Rule
    <3>3. QED
      BY <3>1, <3>2
  <2>7. Keeps(b)'
    BY <1>1, <1>3, <1>5, <1>7, <2>4, <2>5, <2>6, AdvanceBinding
  <2>8. TypeOK'
    BY <1>1, <2>3, <2>4 DEF Inv, TypeOK, namespace
  <2>9. \A c \in Binding \ {b} : Keeps(c)'
    BY <1>1, <1>4, <1>6, <2>1, <2>2, CutOthers
  <2>10. Leads(u, d)
    <3>1. SUFFICES ASSUME NEW c \in Binding, There(c) = To(b, way) PROVE u = Here(c)
      BY <1>2, <2>2 DEF Leads, u
    <3>2. CASE way = "pull"
      BY <3>1, <3>2, Places DEF u
    <3>3. CASE way = "push"
      BY <3>1, <3>3, Places
    <3>4. QED
      BY <3>2, <3>3
  <2>11. Buckets'
    BY <1>1, <2>3, <2>10 DEF Inv, Buckets, Leads
  <2>12. Jobs'
    BY <1>1 DEF Inv, Jobs
  <2>13. QED
    BY <1>1, <1>4, <2>7, <2>8, <2>9, <2>11, <2>12, BindingStep
<1>10. QED
  BY <1>8, <1>9

LEMMA DropRulesInv ==
  ASSUME Inv, NEW b \in Binding, NEW way \in {"pull", "push"}, DropRules(b, way)
  PROVE  Inv'
<1> DEFINE u == From(b, way)
<1>1. /\ At(b, <<"drop", way>>) /\ Continue(b, None)
      /\ UNCHANGED <<namespace, data, bind, jobs, late, spent>>
  BY DEF DropRules
<1>2. bind[b] = "Deleting"
  BY <1>1, CallKinds DEF UnbindCall
<1>3. OpShape' /\ \A x \in Worker : x # b => op'[x] = op[x]
  BY <1>1, Advance
<1>4. u \in Bucket
  BY Places
<1>5. Removing(b)' <=> Removing(b)
  BY <1>1 DEF Removing
<1>6. <<"drop", way>> \notin {<<"job", "push">>, <<"job", "delete">>}
  OBVIOUS
<1>7. CASE Found(b, way)
  <2>1. rules' = [rules EXCEPT ![u] = {}] /\ lost' = lost \union Cut(b, u, {})
    BY <1>7 DEF DropRules
  <2> HIDE DEF u
  <2>2. /\ rules' \in [Bucket -> SUBSET Bucket] /\ rules'[u] = {}
        /\ \A x \in Bucket : x # u => rules'[x] = rules[x]
    BY <1>4, <2>1 DEF Inv, TypeOK
  <2>3. lost' \subseteq Binding /\ (b \in lost' <=> b \in lost)
    BY <2>1, CutKeeps
  <2>4. Keeps(b)'
    BY <1>1, <1>2, <1>5, <1>6, <2>3, AdvanceUnbinding
  <2>5. TypeOK'
    BY <1>1, <2>2, <2>3 DEF Inv, TypeOK, namespace
  <2>6. \A c \in Binding \ {b} : Keeps(c)'
    BY <1>1, <1>3, <1>4, <2>1, CutOthers
  <2>7. Buckets'
    BY <1>1, <2>2 DEF Inv, Buckets, Leads
  <2>8. Jobs'
    BY <1>1 DEF Inv, Jobs
  <2>9. QED
    BY <1>1, <1>3, <2>4, <2>5, <2>6, <2>7, <2>8, BindingStep
<1>8. CASE ~Found(b, way)
  <2>1. UNCHANGED <<rules, lost>>
    BY <1>8 DEF DropRules
  <2>2. Keeps(b)'
    BY <1>1, <1>2, <1>5, <1>6, <2>1, AdvanceUnbinding
  <2>3. TypeOK'
    BY <1>1, <2>1 DEF Inv, TypeOK, namespace
  <2>4. Jobs' /\ Buckets' /\ \A c \in Binding \ {b} : Keeps(c)'
    BY <1>1, <1>3, <2>1, QuietOthers, QuietBuckets
  <2>5. QED
    BY <1>1, <1>3, <2>2, <2>3, <2>4, BindingStep
<1>9. QED
  BY <1>7, <1>8

-----------------------------------------------------------------------------
(* The Jobs *)

LEMMA MakeJobInv ==
  ASSUME Inv, NEW b \in Binding, NEW way \in {"pull", "push", "delete"}, MakeJob(b, way)
  PROVE  Inv'
<1>1. /\ At(b, <<"job", way>>) /\ Continue(b, None)
      /\ UNCHANGED <<namespace, data, rules, bind, late>>
  BY DEF MakeJob
<1>2. /\ way = "pull" => bind[b] = "Pending"
      /\ way # "pull" => bind[b] = "Deleting"
      /\ way = "delete" => b.push # "OnDelete"
  <2>1. way = "pull" => bind[b] = "Pending"
    BY <1>1, CallKinds DEF BindCall, SyncCall
  <2>2. way # "pull" => bind[b] = "Deleting"
    BY <1>1, CallKinds DEF UnbindCall
  <2>3. way = "delete" => b.push # "OnDelete"
    BY <1>1, <2>2, AtCall, UnbindCallsTail
  <2>4. QED
    BY <2>1, <2>2, <2>3
<1>3. /\ OpShape' /\ \A x \in Worker : x # b => op'[x] = op[x]
      /\ \A w \in {"pull", "push"} : At(b, <<"write", w>>)' => <<"job", way>> = <<"read", w>>
  BY <1>1, Advance
<1>4. ViewOK(b)'
  BY <1>3 DEF ViewOK
<1>5. \A w \in Ways(b) : <<"job", way>> # <<"write", w>>
  OBVIOUS
<1>6. \A c \in Binding : \A w \in Ways(c) : Rule(c, w)' = Rule(c, w)
  BY <1>1 DEF Rule
<1>7. jobs \subseteq jobs' /\ spent' \in 0 .. Limit /\ lost \subseteq lost'
      /\ lost' \subseteq lost \union {b}
      /\ jobs' \subseteq jobs \union {Job(b, way)}
      /\ (Job(b, way) \in jobs' \/ b \in lost')
  BY SpentStep DEF MakeJob, Inv, TypeOK
<1>8. \A c \in Binding : Removing(c) => Removing(c)'
  BY <1>1, <1>7 DEF Removing
<1>9. Keeps(b)'
  <2>1. CASE way = "pull"
    BY <1>1, <1>2, <1>4, <1>5, <1>6, <1>7, <2>1, AdvanceBinding
  <2>2. CASE way # "pull"
    <3>1. Removing(b)' \/ b \in lost'
      BY <1>7, <2>2 DEF Removing, Job
    <3>2. QED
      BY <1>1, <1>2, <1>7, <1>8, <2>2, <3>1, AdvanceUnbinding
  <2>3. QED
    BY <2>1, <2>2
<1>10. \A c \in Binding \ {b} : Keeps(c)'
  <2>1. ASSUME NEW c \in Binding \ {b} PROVE Keeps(c)'
    <3>1. op'[c] = op[c] /\ bind'[c] = bind[c] /\ (c \in lost => c \in lost')
      BY <1>1, <1>3, <1>7, Workers
    <3>2. QED
      BY <1>6, <1>8, <3>1, OtherBinding
  <2>2. QED
    BY <2>1
<1>11. Jobs'
  <2> DEFINE n == Job(b, way)
  <2>1. /\ n \in [b : Binding, way : {"pull", "push", "delete"}, at : {"sync", "remove"}]
        /\ n.b = b /\ n.way = way /\ (n.at = "remove" <=> way = "delete")
    BY DEF Job
  <2> HIDE DEF n
  <2>2. ASSUME NEW j \in jobs'
        PROVE  /\ j \in [b : Binding, way : {"pull", "push", "delete"}, at : {"sync", "remove"}]
               /\ j.at = "remove" => j.way # "pull"
               /\ j.way = "delete" => j.at = "remove" /\ j.b.push # "OnDelete"
               /\ j.at = "remove" /\ j.way = "push" /\ data[There(j.b)] # None =>
                     data[There(j.b)] \ late[j.b] \subseteq data[Here(j.b)]
    <3>1. CASE j = n
      BY <1>2, <2>1, <3>1
    <3>2. CASE j \in jobs
      BY <3>2 DEF Inv, Jobs
    <3>3. QED
      BY <1>7, <3>1, <3>2 DEF n
  <2>3. QED
    BY <1>1, <2>2 DEF Jobs
<1>12. Buckets'
  BY <1>1 DEF Inv, Buckets, Leads
<1>13. TypeOK'
  BY <1>1, <1>7 DEF Inv, TypeOK, namespace
<1>14. QED
  BY <1>1, <1>3, <1>9, <1>10, <1>11, <1>12, <1>13, BindingStep

(* What a Job or the storage itself does to the buckets: no binding is working,
   and nobody is bound or lost by it. *)
LEMMA DataStep ==
  ASSUME Inv, UNCHANGED <<namespace, bind, op, lost>>, spent' \in 0 .. Limit,
         late' \in [Binding -> SUBSET Item],
         data' \in [Bucket -> {None} \union SUBSET Item], rules' \in [Bucket -> SUBSET Bucket],
         Jobs', Buckets',
         \A b \in Binding : \A way \in Ways(b) : Rule(b, way) => Rule(b, way)',
         \A b \in Binding : b.policy = "Delete" /\ Removing(b) => Removing(b)'
  PROVE  Inv'
<1>1. Secrets' /\ OneBusy' /\ \A s \in Storage : StorageCalls(s)'
  BY StoragesKept
<1>2. \A b \in Binding : Keeps(b)'
  BY OtherBinding
<1>3. TypeOK' /\ OpShape'
  BY DEF Inv, TypeOK, OpShape, namespace
<1>4. QED
  BY <1>1, <1>2, <1>3 DEF Inv

(* A bucket that is filled: from its own source, or from one it is the source of. *)
LEMMA Fill ==
  ASSUME Inv, NEW u \in Bucket, NEW v \in Bucket, data[u] # None, data[v] # None,
         data' = [data EXCEPT ![v] = @ \union data[u]],
         \A b \in Binding : v = There(b) => u = Here(b)
  PROVE  /\ data' \in [Bucket -> {None} \union SUBSET Item]
         /\ \A x \in Bucket : data'[x] = None <=> data[x] = None
         /\ \A b \in Binding : data[Here(b)] \subseteq data'[Here(b)]
         /\ \A b \in Binding : data[There(b)] # None =>
               data'[There(b)] \subseteq data[There(b)] \union data[Here(b)]
         /\ data[u] \subseteq data'[v]
         /\ \A x \in Bucket : x # v => data'[x] = data[x]
<1>1. data[u] \subseteq Item /\ data[v] \subseteq Item /\ data \in [Bucket -> {None} \union SUBSET Item]
  BY DEF Inv, TypeOK
<1>2. data'[v] = data[v] \union data[u] /\ \A x \in Bucket : x # v => data'[x] = data[x]
  BY <1>1
<1>3. data'[v] # None /\ data'[v] \in SUBSET Item
  BY <1>1, <1>2, DashStorageAssumption
<1>4. data' \in [Bucket -> {None} \union SUBSET Item]
  BY <1>1, <1>3
<1>5. \A b \in Binding : There(b) \in Bucket /\ Here(b) \in Bucket
  BY Places
<1>6. QED
  BY <1>2, <1>3, <1>4, <1>5

(* What has been pushed back stays so, whatever is synced. *)
LEMMA FillJobs ==
  ASSUME Inv, NEW j \in jobs, NEW u \in Bucket, NEW v \in Bucket,
         data[u] # None, data[v] # None,
         data' = [data EXCEPT ![v] = @ \union data[u]],
         \A b \in Binding : v = There(b) => u = Here(b), late' = late
  PROVE  j.at = "remove" /\ j.way = "push" /\ data'[There(j.b)] # None =>
            data'[There(j.b)] \ late[j.b] \subseteq data'[Here(j.b)]
<1>1. SUFFICES ASSUME j.at = "remove", j.way = "push", data'[There(j.b)] # None
               PROVE  data'[There(j.b)] \ late[j.b] \subseteq data'[Here(j.b)]
  OBVIOUS
<1>2. j.b \in Binding /\ There(j.b) \in Bucket
  BY Places DEF Inv, Jobs
<1>3. data[There(j.b)] # None
  BY <1>1, <1>2, Fill
<1>4. data[There(j.b)] \ late[j.b] \subseteq data[Here(j.b)]
  BY <1>1, <1>3 DEF Inv, Jobs
<1>5. /\ data[Here(j.b)] \subseteq data'[Here(j.b)]
      /\ data'[There(j.b)] \subseteq data[There(j.b)] \union data[Here(j.b)]
  BY <1>2, <1>3, Fill
<1>6. QED
  BY <1>4, <1>5

LEMMA ReplicateInv ==
  ASSUME Inv, NEW u \in Bucket, NEW v \in Bucket, Replicate(u, v)
  PROVE  Inv'
<1>1. /\ v \in rules[u] /\ data[u] # None /\ data[v] # None
      /\ data' = [data EXCEPT ![v] = @ \union data[u]]
      /\ UNCHANGED <<namespace, rules, bind, op, jobs, late, lost, spent>>
  BY DEF Replicate
<1>2. \A b \in Binding : v = There(b) => u = Here(b)
  BY <1>1 DEF Inv, Buckets, Leads
<1>3. /\ data' \in [Bucket -> {None} \union SUBSET Item]
      /\ \A x \in Bucket : data'[x] = None <=> data[x] = None
  BY <1>1, <1>2, Fill
<1>4. Jobs'
  BY <1>1, <1>2, FillJobs DEF Inv, Jobs
<1>5. Buckets'
  BY <1>1, <1>3, Places DEF Inv, Buckets, Leads
<1>6. \A b \in Binding : \A way \in Ways(b) : Rule(b, way) => Rule(b, way)'
  BY <1>1, <1>3, Places DEF Rule
<1>7. \A b \in Binding : Removing(b) => Removing(b)'
  BY <1>1, <1>3, Places DEF Removing
<1>8. QED
  BY <1>1, <1>3, <1>4, <1>5, <1>6, <1>7, DataStep DEF Inv, TypeOK

LEMMA JobSyncsInv ==
  ASSUME Inv, NEW j \in jobs, JobSyncs(j)
  PROVE  Inv'
<1> DEFINE b == j.b
           u == From(b, j.way)
           v == To(b, j.way)
<1>1. /\ j.at = "sync" /\ b \in Binding /\ j.way \in {"pull", "push"}
      /\ j \in [b : Binding, way : {"pull", "push", "delete"}, at : {"sync", "remove"}]
      /\ UNCHANGED <<namespace, rules, bind, op, late, lost, spent>>
  BY DEF JobSyncs, Inv, Jobs
<1>2. spent' \in 0 .. Limit /\ rules' \in [Bucket -> SUBSET Bucket]
      /\ late' \in [Binding -> SUBSET Item]
  BY <1>1 DEF Inv, TypeOK
<1>3. u \in Bucket /\ v \in Bucket
  BY <1>1, Places
<1>4. CASE data[u] = None \/ data[v] = None
  <2>1. jobs' = jobs \ {j} /\ UNCHANGED data
    BY <1>4 DEF JobSyncs
  <2>2. Jobs' /\ Buckets'
    BY <1>1, <2>1 DEF Inv, Jobs, Buckets, Leads
  <2>3. \A c \in Binding : \A way \in Ways(c) : Rule(c, way) => Rule(c, way)'
    BY <1>1, <2>1 DEF Rule
  <2>4. j.way = "push" => data[There(b)] = None
    BY <1>1, <1>4, Places DEF Inv, Buckets
  <2>5. \A c \in Binding : Removing(c) => Removing(c)'
    BY <1>1, <2>1, <2>4 DEF Removing
  <2>6. data' \in [Bucket -> {None} \union SUBSET Item]
    BY <2>1 DEF Inv, TypeOK
  <2>7. QED
    BY <1>1, <1>2, <2>2, <2>3, <2>5, <2>6, DataStep
<1>5. CASE data[u] # None /\ data[v] # None
  <2> DEFINE n == [j EXCEPT !.at = "remove"]
  <2>1. /\ data' = [data EXCEPT ![v] = @ \union data[u]]
        /\ jobs' = (jobs \ {j}) \union IF j.way = "push" /\ b.policy = "Delete" THEN {n} ELSE {}
    BY <1>5 DEF JobSyncs
  <2>2. n.b = b /\ n.way = j.way /\ n.at = "remove"
        /\ n \in [b : Binding, way : {"pull", "push", "delete"}, at : {"sync", "remove"}]
    BY <1>1
  <2> HIDE DEF n
  <2>3. \A c \in Binding : v = There(c) => u = Here(c)
    <3>1. CASE j.way = "pull"
      BY <1>1, <3>1, Places
    <3>2. CASE j.way = "push"
      BY <1>1, <3>2, Places
    <3>3. QED
      BY <1>1, <3>1, <3>2
  <2> HIDE DEF u, v
  <2>4. /\ data' \in [Bucket -> {None} \union SUBSET Item]
        /\ \A x \in Bucket : data'[x] = None <=> data[x] = None
        /\ data[u] \subseteq data'[v]
        /\ \A x \in Bucket : x # v => data'[x] = data[x]
    BY <1>3, <1>5, <2>1, <2>3, Fill
  <2>5. Buckets'
    BY <1>1, <2>4, Places DEF Inv, Buckets, Leads
  <2>6. \A c \in Binding : \A way \in Ways(c) : Rule(c, way) => Rule(c, way)'
    BY <1>1, <2>4, Places DEF Rule
  <2>7. \A c \in Binding : c.policy = "Delete" /\ Removing(c) => Removing(c)'
    <3>1. SUFFICES ASSUME NEW c \in Binding, c.policy = "Delete", Removing(c) PROVE Removing(c)'
      OBVIOUS
    <3>2. CASE data[There(c)] = None
      BY <2>4, <3>2, Places DEF Removing
    <3>3. CASE \E k \in jobs : k.b = c /\ k.way \in {"push", "delete"}
      <4>1. PICK k \in jobs : k.b = c /\ k.way \in {"push", "delete"}
        BY <3>3
      <4>2. CASE k = j
        BY <1>1, <2>1, <2>2, <3>1, <4>1, <4>2 DEF Removing
      <4>3. CASE k # j
        BY <2>1, <4>1, <4>3 DEF Removing
      <4>4. QED
        BY <4>2, <4>3
    <3>4. QED
      BY <3>1, <3>2, <3>3 DEF Removing
  <2>8. j.way = "push" => data'[There(b)] \ late[b] \subseteq data'[Here(b)]
    <3>1. SUFFICES ASSUME j.way = "push" PROVE data'[There(b)] \ late[b] \subseteq data'[Here(b)]
      OBVIOUS
    <3>2. u = There(b) /\ v = Here(b) /\ u # v
      BY <1>1, <3>1, Places DEF u, v
    <3>3. data'[u] = data[u]
      BY <1>3, <2>4, <3>2
    <3>4. QED
      BY <2>4, <3>2, <3>3
  <2>9. Jobs'
    <3>1. \A k \in jobs \ {j} :
            /\ k.at = "remove" => k.way # "pull"
            /\ k.way = "delete" => k.at = "remove" /\ k.b.push # "OnDelete"
            /\ k.at = "remove" /\ k.way = "push" /\ data'[There(k.b)] # None =>
                  data'[There(k.b)] \ late[k.b] \subseteq data'[Here(k.b)]
      <4>1. ASSUME NEW k \in jobs \ {j}
            PROVE  k.at = "remove" /\ k.way = "push" /\ data'[There(k.b)] # None =>
                      data'[There(k.b)] \ late[k.b] \subseteq data'[Here(k.b)]
        BY <1>1, <1>3, <1>5, <2>1, <2>3, FillJobs
      <4>2. QED
        BY <4>1 DEF Inv, Jobs
    <3>2. \A k \in jobs' : k \in jobs \ {j} \/ (k = n /\ j.way = "push")
      BY <2>1
    <3>3. jobs \subseteq [b : Binding, way : {"pull", "push", "delete"}, at : {"sync", "remove"}]
      BY DEF Inv, Jobs
    <3>4. jobs' \subseteq [b : Binding, way : {"pull", "push", "delete"}, at : {"sync", "remove"}]
      BY <2>2, <3>2, <3>3
    <3> HIDE DEF b
    <3>5. j.way = "push" =>
            /\ n.at = "remove" => n.way # "pull"
            /\ n.way = "delete" => n.at = "remove" /\ n.b.push # "OnDelete"
            /\ n.at = "remove" /\ n.way = "push" /\ data'[There(n.b)] # None =>
                  data'[There(n.b)] \ late[n.b] \subseteq data'[Here(n.b)]
      BY <2>2, <2>8
    <3>6. \A k \in jobs' :
            /\ k.at = "remove" => k.way # "pull"
            /\ k.way = "delete" => k.at = "remove" /\ k.b.push # "OnDelete"
            /\ k.at = "remove" /\ k.way = "push" /\ data'[There(k.b)] # None =>
                  data'[There(k.b)] \ late[k.b] \subseteq data'[Here(k.b)]
      BY <3>1, <3>2, <3>5
    <3>7. QED
      BY <1>1, <3>4, <3>6 DEF Jobs
  <2>10. QED
    BY <1>1, <1>2, <2>4, <2>5, <2>6, <2>7, <2>9, DataStep
<1>6. QED
  BY <1>4, <1>5

LEMMA JobRemovesInv ==
  ASSUME Inv, NEW j \in jobs, JobRemoves(j)
  PROVE  Inv'
<1> DEFINE b == j.b
           u == There(b)
<1>1. /\ b \in Binding /\ data' = [data EXCEPT ![u] = None]
      /\ rules' = [rules EXCEPT ![u] = {}] /\ jobs' = jobs \ {j}
      /\ late' = [late EXCEPT ![b] = {}]
      /\ UNCHANGED <<namespace, bind, op, lost, spent>>
  BY DEF JobRemoves, Inv, Jobs
<1>2. u \in Bucket
  BY <1>1, Places
<1>3. /\ data' \in [Bucket -> {None} \union SUBSET Item] /\ data'[u] = None
      /\ rules' \in [Bucket -> SUBSET Bucket] /\ rules'[u] = {}
      /\ \A x \in Bucket : x # u => data'[x] = data[x] /\ rules'[x] = rules[x]
  BY <1>1, <1>2 DEF Inv, TypeOK
<1>4. \A c \in Binding : data'[Here(c)] = data[Here(c)]
  BY <1>1, <1>3, Places
<1>5. Buckets'
  BY <1>3, <1>4 DEF Inv, Buckets, Leads
<1>6. \A c \in Binding : data'[There(c)] = None \/ data'[There(c)] = data[There(c)]
  BY <1>3, Places
<1>12. /\ late' \in [Binding -> SUBSET Item]
       /\ \A c \in Binding : data'[There(c)] # None => late'[c] = late[c]
  BY <1>1, <1>3 DEF Inv, TypeOK
<1>7. Jobs'
  BY <1>1, <1>4, <1>6, <1>12 DEF Inv, Jobs
<1>8. \A c \in Binding : \A way \in Ways(c) : Rule(c, way) => Rule(c, way)'
  <2>1. SUFFICES ASSUME NEW c \in Binding, NEW way \in Ways(c), Rule(c, way) PROVE Rule(c, way)'
    OBVIOUS
  <2>2. From(c, way) \in Bucket
    BY Places
  <2>3. CASE From(c, way) = u
    BY <1>3, <2>3 DEF Rule
  <2>4. CASE From(c, way) # u
    BY <1>3, <2>1, <2>2, <2>4 DEF Rule
  <2>5. QED
    BY <2>3, <2>4
<1>9. \A c \in Binding : Removing(c) => Removing(c)'
  <2>1. SUFFICES ASSUME NEW c \in Binding, Removing(c) PROVE Removing(c)'
    OBVIOUS
  <2>2. CASE c = b
    BY <1>3, <2>2 DEF Removing
  <2>3. CASE c # b
    BY <1>1, <1>6, <2>1, <2>3 DEF Removing
  <2>4. QED
    BY <2>2, <2>3
<1>10. spent' \in 0 .. Limit
  BY <1>1 DEF Inv, TypeOK
<1>11. QED
  BY <1>1, <1>3, <1>5, <1>7, <1>8, <1>9, <1>10, <1>12, DataStep

-----------------------------------------------------------------------------
(* Users, and failed calls *)

(* A binding that is Absent or Ready has nothing to call. *)
LEMMA Resting ==
  ASSUME Inv, NEW b \in Binding, bind[b] \notin {"Pending", "Deleting"} \/ op[b] = Idle
  PROVE  Left(b) = <<>>
  BY IdleLeft DEF Inv, Keeps, BindingCalls

LEMMA RestingKeeps ==
  ASSUME NEW b, Left(b)' = <<>>,
         b.policy = "Delete" /\ b \notin lost' /\ bind'[b] = "Absent" => Removing(b)',
         SyncedAt(b)'
  PROVE  Keeps(b)'
  BY DEF Keeps, BindingCalls, ViewOK, At, Binds, Unbinds

LEMMA UserBindsInv ==
  ASSUME Inv, NEW b \in Binding, UserBinds(b)
  PROVE  Inv'
<1>1. /\ bind[b] = "Absent" /\ bind' = [bind EXCEPT ![b] = "Pending"] /\ lost' = lost \ {b}
      /\ UNCHANGED <<namespace, data, rules, op, jobs, late>> /\ spent' \in 0 .. Limit
  BY SpentStep DEF UserBinds, Inv
<1>2. /\ bind' \in [Binding -> {"Absent", "Pending", "Ready", "Deleting"}] /\ bind'[b] = "Pending"
      /\ \A c \in Binding \ {b} : bind'[c] = bind[c]
  BY <1>1 DEF Inv, TypeOK
<1>3. Left(b)' = <<>>
  BY <1>1, Resting DEF Left
<1>4. Keeps(b)'
  BY <1>2, <1>3, RestingKeeps DEF SyncedAt
<1>5. Jobs' /\ Buckets' /\ \A c \in Binding \ {b} : Keeps(c)'
  BY <1>1, <1>2, QuietOthers, QuietBuckets
<1>6. TypeOK' /\ OpShape'
  BY <1>1, <1>2 DEF Inv, TypeOK, OpShape, namespace
<1>7. QED
  BY <1>1, <1>4, <1>5, <1>6, BindingStep

LEMMA UserUnbindsInv ==
  ASSUME Inv, NEW b \in Binding, UserUnbinds(b)
  PROVE  Inv'
<1>1. /\ op[b] = Idle /\ bind' = [bind EXCEPT ![b] = "Deleting"]
      /\ UNCHANGED <<namespace, data, rules, op, jobs, late, lost>> /\ spent' \in 0 .. Limit
  BY SpentStep DEF UserUnbinds, Inv
<1>2. /\ bind' \in [Binding -> {"Absent", "Pending", "Ready", "Deleting"}] /\ bind'[b] = "Deleting"
      /\ \A c \in Binding \ {b} : bind'[c] = bind[c]
  BY <1>1 DEF Inv, TypeOK
<1>3. Left(b)' = <<>>
  BY <1>1, Resting DEF Left
<1>4. Keeps(b)'
  BY <1>2, <1>3, RestingKeeps DEF SyncedAt
<1>5. Jobs' /\ Buckets' /\ \A c \in Binding \ {b} : Keeps(c)'
  BY <1>1, <1>2, QuietOthers, QuietBuckets
<1>6. TypeOK' /\ OpShape'
  BY <1>1, <1>2 DEF Inv, TypeOK, OpShape, namespace
<1>7. QED
  BY <1>1, <1>4, <1>5, <1>6, BindingStep

LEMMA UserPutsInv ==
  ASSUME Inv, NEW b \in Binding, NEW i \in Item, UserPuts(b, i)
  PROVE  Inv'
<1> DEFINE u == There(b)
<1>1. /\ data[u] # None /\ data' = [data EXCEPT ![u] = @ \union {i}]
      /\ late' = [late EXCEPT ![b] = IF Doomed(b) THEN @ \union {i} ELSE @]
      /\ UNCHANGED <<namespace, rules, bind, op, jobs, lost>> /\ spent' \in 0 .. Limit
  BY SpentStep DEF UserPuts, Inv
<1>2. u \in Bucket
  BY Places
<1>3. data[u] \in SUBSET Item
  BY <1>1, <1>2 DEF Inv, TypeOK
<1>4. /\ data'[u] = data[u] \union {i} /\ data'[u] # None
      /\ data' \in [Bucket -> {None} \union SUBSET Item]
      /\ \A x \in Bucket : x # u => data'[x] = data[x]
  <2>1. data[u] \union {i} \in SUBSET Item
    BY <1>3
  <2>2. data[u] \union {i} # None
    BY <2>1, DashStorageAssumption
  <2>3. QED
    BY <1>1, <1>2, <2>1, <2>2 DEF Inv, TypeOK
<1>5. \A x \in Bucket : data'[x] = None <=> data[x] = None
  BY <1>1, <1>4
<1>6. \A c \in Binding : data'[Here(c)] = data[Here(c)]
  BY <1>4, Places
<1>7. Buckets'
  BY <1>1, <1>6 DEF Inv, Buckets, Leads
<1>13. late \in [Binding -> SUBSET Item] /\ late' \in [Binding -> SUBSET Item]
  BY <1>1 DEF Inv, TypeOK
<1>8. Jobs'
  <2>1. ASSUME NEW j \in jobs, j.at = "remove", j.way = "push", data'[There(j.b)] # None
        PROVE  data'[There(j.b)] \ late'[j.b] \subseteq data'[Here(j.b)]
    <3>1. j.b \in Binding
      BY DEF Inv, Jobs
    <3>2. There(j.b) \in Bucket /\ data[There(j.b)] # None
      BY <1>5, <2>1, <3>1, Places
    <3>3. data[There(j.b)] \ late[j.b] \subseteq data[Here(j.b)]
      BY <2>1, <3>2 DEF Inv, Jobs
    <3>4. CASE j.b = b
      <4>1. Doomed(b)
        BY <2>1, <3>4 DEF Doomed
      <4>2. late'[b] = late[b] \union {i}
        BY <1>1, <1>13, <4>1
      <4>3. QED
        BY <1>4, <1>6, <3>1, <3>3, <3>4, <4>1, <4>2
    <3>5. CASE j.b # b
      <4>1. There(j.b) # u
        BY <3>1, <3>5, Places
      <4>2. late'[j.b] = late[j.b]
        BY <1>1, <1>13, <3>1, <3>5
      <4>3. QED
        BY <1>4, <1>6, <3>1, <3>2, <3>3, <4>1, <4>2
    <3>6. QED
      BY <3>4, <3>5
  <2>2. QED
    BY <1>1, <2>1 DEF Inv, Jobs
<1>9. \A c \in Binding : \A way \in Ways(c) : Rule(c, way) => Rule(c, way)'
  BY <1>1, <1>5, Places DEF Rule
<1>10. \A c \in Binding : Removing(c) => Removing(c)'
  BY <1>1, <1>5, Places DEF Removing
<1>11. rules' \in [Bucket -> SUBSET Bucket]
  BY <1>1 DEF Inv, TypeOK
<1>12. QED
  BY <1>1, <1>4, <1>7, <1>8, <1>9, <1>10, <1>11, <1>13, DataStep

LEMMA BindingFaultInv ==
  ASSUME Inv, NEW b \in Binding, Fault(b)
  PROVE  Inv'
<1>1. /\ Stop(b) /\ UNCHANGED <<namespace, data, rules, bind, jobs, late, lost>>
      /\ spent' \in 0 .. Limit
  BY SpentStep DEF Fault, Inv
<1>2. OpShape' /\ (\A x \in Worker : x # b => op'[x] = op[x]) /\ Left(b)' = <<>>
  BY <1>1, Halt
<1>3. Keeps(b)'
  <2>1. Unbinds(b) /\ SyncedAt(b)
    BY DEF Inv, Keeps
  <2>2. Removing(b)' <=> Removing(b)
    BY <1>1 DEF Removing
  <2>3. SyncedAt(b)'
    BY <1>1, <2>1 DEF SyncedAt, Rule
  <2>4. b.policy = "Delete" /\ b \notin lost' /\ bind'[b] = "Absent" => Removing(b)'
    BY <1>1, <2>1, <2>2 DEF Unbinds
  <2>5. QED
    BY <1>2, <2>3, <2>4, RestingKeeps
<1>4. Jobs' /\ Buckets' /\ \A c \in Binding \ {b} : Keeps(c)'
  BY <1>1, <1>2, QuietOthers, QuietBuckets
<1>5. TypeOK'
  BY <1>1 DEF Inv, TypeOK, namespace
<1>6. QED
  BY <1>1, <1>2, <1>3, <1>4, <1>5, BindingStep

(* Whatever step is taken, every worker keeps what the others rely on. *)
LEMMA StorageNextInv ==
  ASSUME Inv, NEW s \in Storage, StorageNext(s)
  PROVE  Inv'
  BY ValidateInv, StorageReadyInv, GetInv, CreateObjectInv DEF StorageNext

LEMMA BindingNextInv ==
  ASSUME Inv, NEW b \in Binding, BindingNext(b)
  PROVE  Inv'
<1>1. CASE BindStarts(b) \/ MakeBucket(b) \/ BindEnds(b) \/ UnbindStarts(b) \/ UnbindEnds(b)
  BY <1>1, BindStartsInv, MakeBucketInv, BindEndsInv, UnbindStartsInv, UnbindEndsInv
<1>2. CASE \E way \in {"pull", "push"} : ReadRules(b, way) \/ WriteRules(b, way) \/ DropRules(b, way)
  BY <1>2, ReadRulesInv, WriteRulesInv, DropRulesInv
<1>3. CASE \E way \in {"pull", "push", "delete"} : MakeJob(b, way)
  BY <1>3, MakeJobInv
<1>4. QED
  BY <1>1, <1>2, <1>3 DEF BindingNext

LEMMA UsersInv ==
  ASSUME Inv, Users
  PROVE  Inv'
<1>1. CASE \E b \in Binding : UserBinds(b) \/ UserUnbinds(b) \/ \E i \in Item : UserPuts(b, i)
  BY <1>1, UserBindsInv, UserUnbindsInv, UserPutsInv
<1>2. CASE \E w \in Worker : Fault(w)
  BY <1>2, StorageFaultInv, BindingFaultInv DEF Worker
<1>3. QED
  BY <1>1, <1>2 DEF Users

LEMMA StutterInv ==
  ASSUME Inv, UNCHANGED vars
  PROVE  Inv'
<1>1. /\ UNCHANGED <<namespace, bind, op, lost>> /\ UNCHANGED <<data, rules, jobs, late, spent>>
  BY DEF vars
<1>2. /\ spent' \in 0 .. Limit /\ data' \in [Bucket -> {None} \union SUBSET Item]
      /\ rules' \in [Bucket -> SUBSET Bucket] /\ late' \in [Binding -> SUBSET Item]
  BY <1>1 DEF Inv, TypeOK
<1>3. Jobs' /\ Buckets'
  BY <1>1, QuietBuckets
<1>4. \A b \in Binding : Removing(b) => Removing(b)'
  BY <1>1 DEF Removing
<1>5. \A b \in Binding : \A way \in Ways(b) : Rule(b, way) => Rule(b, way)'
  BY <1>1 DEF Rule
<1>6. QED
  BY <1>1, <1>2, <1>3, <1>4, <1>5, DataStep

LEMMA StepInv == Inv /\ [Next]_vars => Inv'
<1>1. SUFFICES ASSUME Inv, [Next]_vars PROVE Inv'
  OBVIOUS
<1>2. CASE \E s \in Storage : StorageNext(s)
  BY <1>1, <1>2, StorageNextInv
<1>3. CASE \E b \in Binding : BindingNext(b)
  BY <1>1, <1>3, BindingNextInv
<1>4. CASE \E j \in jobs : JobSyncs(j) \/ JobRemoves(j)
  BY <1>1, <1>4, JobSyncsInv, JobRemovesInv
<1>5. CASE \E u, v \in Bucket : Replicate(u, v)
  BY <1>1, <1>5, ReplicateInv
<1>6. CASE Users
  BY <1>1, <1>6, UsersInv
<1>7. CASE UNCHANGED vars
  BY <1>1, <1>7, StutterInv
<1>8. QED
  BY <1>1, <1>2, <1>3, <1>4, <1>5, <1>6, <1>7 DEF Next

LEMMA InitInv == Init => Inv
<1>1. SUFFICES ASSUME Init PROVE Inv
  OBVIOUS
<1>2. \A u \in Bucket : data[u] = IF u \in Sources THEN {} ELSE None
  BY <1>1 DEF Init
<1>3. {} # None
  BY DashStorageAssumption
<1>4. \A b \in Binding : data[Here(b)] # None /\ data[There(b)] = None
  <2>1. ASSUME NEW b \in Binding PROVE data[Here(b)] # None /\ data[There(b)] = None
    <3>1. Here(b) \in Sources /\ There(b) \notin Sources
      BY Places DEF Sources
    <3>2. Here(b) \in Bucket /\ There(b) \in Bucket
      BY Places
    <3>3. QED
      BY <1>2, <1>3, <3>1, <3>2
  <2>2. QED
    BY <2>1
<1>5. TypeOK
  <2>1. /\ kind \in Kinds /\ store \in [Storage -> {"Pending", "Ready"}]
        /\ secret \in Storage \union {None} /\ held \in [Storage -> Storage \union {None}]
        /\ bind \in [Binding -> {"Absent", "Pending", "Ready", "Deleting"}]
        /\ late \in [Binding -> SUBSET Item] /\ lost \subseteq Binding
    BY <1>1 DEF Init
  <2>2. data \in [Bucket -> {None} \union SUBSET Item] /\ rules \in [Bucket -> SUBSET Bucket]
    BY <1>1 DEF Init
  <2>3. spent \in 0 .. Limit
    BY <1>1, DashStorageAssumption DEF Init
  <2>4. QED
    BY <2>1, <2>2, <2>3 DEF TypeOK
<1>6. \A w \in Worker : op[w] = Idle /\ Left(w) = <<>>
  BY <1>1 DEF Init, Idle, Left
<1>7. OpShape
  <2>1. op = [w \in Worker |-> Idle]
    BY <1>1 DEF Init
  <2>2. Idle = [rest |-> Idle.rest, view |-> Idle.view]
    BY DEF Idle
  <2>3. QED
    BY <2>1, <2>2 DEF OpShape
<1>8. \A s \in Storage : StorageCalls(s) /\ ~Past(s) /\ ~Busy(s)
  <2>1. SUFFICES ASSUME NEW s \in Storage PROVE StorageCalls(s) /\ ~Past(s) /\ ~Busy(s)
    OBVIOUS
  <2>2. Left(s) = <<>> /\ store[s] = "Pending"
    BY <1>1, <1>6, Workers DEF Init
  <2>3. QED
    BY <2>2 DEF StorageCalls, Past, Busy
<1>9. Secrets /\ OneBusy
  BY <1>8 DEF Secrets, OneBusy
<1>10. Jobs
  BY <1>1 DEF Init, Jobs
<1>11. Buckets
  BY <1>1, <1>4 DEF Init, Buckets, Leads
<1>12. ASSUME NEW b \in Binding PROVE Keeps(b)
  <2>1. Left(b) = <<>> /\ bind[b] = "Absent"
    BY <1>1, <1>6, Workers DEF Init
  <2>2. QED
    BY <1>4, <2>1 DEF Keeps, BindingCalls, ViewOK, At, Binds, Unbinds, Removing, SyncedAt
<1>13. QED
  BY <1>5, <1>7, <1>8, <1>9, <1>10, <1>11, <1>12 DEF Inv

(* The invariant of the calls, the documents and the Jobs holds at all times. *)
THEOREM Invariance == Spec => []Inv
  BY InitInv, StepInv, PTL DEF Spec

(* However reconciles overtake each other and calls fail: Ready storages sign in
   with the tenant's secret, one unique storage is Ready, the rules of a Ready
   binding are in force and the bucket of a deleted one goes. *)
THEOREM StorageSafe == Spec => []Safe
<1>1. Inv => Safe
  <2>1. SUFFICES ASSUME Inv PROVE Safe
    OBVIOUS
  <2>2. SameTenant
    BY <2>1 DEF Inv, Secrets, Past, SameTenant
  <2>3. OneUnique
    BY <2>1 DEF Inv, OneBusy, Busy, OneUnique
  <2>4. Synced
    BY <2>1 DEF Inv, Keeps, SyncedAt, Rule, Synced
  <2>5. BucketsGo
    BY <2>1 DEF Inv, Keeps, Unbinds, Removing, BucketsGo
  <2>6. QED
    BY <2>1, <2>2, <2>3, <2>4, <2>5 DEF Inv, Safe
<1>2. QED
  BY <1>1, Invariance, PTL

-----------------------------------------------------------------------------
(* What is in a bucket when it goes *)

PushedStep ==
    \A b \in Binding :
        b.push = "OnDelete" /\ data[There(b)] # None /\ data'[There(b)] = None
        => data[There(b)] \ late[b] \subseteq data[Here(b)]

(* No other step takes a bucket away. *)
LEMMA NoneKept ==
  ASSUME Inv, [Next]_vars, ~(\E j \in jobs : JobRemoves(j))
  PROVE  \A u \in Bucket : data[u] # None => data'[u] # None
<1>1. data \in [Bucket -> {None} \union SUBSET Item]
  BY DEF Inv, TypeOK
<1>2. CASE UNCHANGED data
  BY <1>2
<1>3. ASSUME NEW u \in Bucket, NEW v \in Bucket, data[u] # None, data[v] # None,
             data' = [data EXCEPT ![v] = @ \union data[u]]
      PROVE  \A x \in Bucket : data[x] # None => data'[x] # None
  <2>1. data[u] \in SUBSET Item /\ data[v] \in SUBSET Item
    BY <1>1, <1>3
  <2>2. data[v] \union data[u] # None
    BY <2>1, DashStorageAssumption
  <2>3. QED
    BY <1>1, <1>3, <2>2
<1>4. CASE \E j \in jobs : JobSyncs(j)
  <2>1. PICK j \in jobs : JobSyncs(j)
    BY <1>4
  <2>2. From(j.b, j.way) \in Bucket /\ To(j.b, j.way) \in Bucket
    <3>1. j.b \in Binding /\ j.at = "sync" /\ j.way \in {"pull", "push"}
      BY <2>1 DEF JobSyncs, Inv, Jobs
    <3>2. QED
      BY <3>1, Places
  <2>3. QED
    BY <1>2, <1>3, <2>1, <2>2 DEF JobSyncs
<1>5. CASE \E u, v \in Bucket : Replicate(u, v)
  BY <1>3, <1>5 DEF Replicate
<1>6. CASE \E b \in Binding, i \in Item : UserPuts(b, i)
  <2>1. PICK b \in Binding, i \in Item : UserPuts(b, i)
    BY <1>6
  <2>2. There(b) \in Bucket /\ data[There(b)] # None
        /\ data' = [data EXCEPT ![There(b)] = @ \union {i}]
    BY <2>1, Places DEF UserPuts
  <2>3. data[There(b)] \union {i} \in SUBSET Item
    BY <1>1, <2>2
  <2>4. data[There(b)] \union {i} # None
    BY <2>3, DashStorageAssumption
  <2>5. QED
    BY <1>1, <2>2, <2>4
<1>7. CASE \E b \in Binding : MakeBucket(b)
  <2>1. PICK b \in Binding : MakeBucket(b)
    BY <1>7
  <2>2. {} # None
    BY DashStorageAssumption
  <2>3. QED
    BY <1>1, <2>1, <2>2 DEF MakeBucket
<1>8. CASE \E s \in Storage : StorageNext(s)
  BY <1>2, <1>8 DEF StorageNext, Validate, StorageReady, Get, CreateObject
<1>9. CASE \E b \in Binding : BindingNext(b)
  <2>1. PICK b \in Binding : BindingNext(b)
    BY <1>9
  <2>2. MakeBucket(b) \/ UNCHANGED data
    BY <2>1 DEF BindingNext, BindStarts, BindEnds, UnbindStarts, UnbindEnds, ReadRules,
                WriteRules, DropRules, MakeJob
  <2>3. QED
    BY <1>2, <1>7, <2>2
<1>10. CASE Users
  BY <1>2, <1>6, <1>10 DEF Users, UserBinds, UserUnbinds, Fault
<1>11. QED
  BY <1>2, <1>4, <1>5, <1>8, <1>9, <1>10 DEF Next, vars

LEMMA StepPushed == Inv /\ [Next]_vars => PushedStep
<1>1. SUFFICES ASSUME Inv, [Next]_vars, NEW b \in Binding, b.push = "OnDelete",
                      data[There(b)] # None, data'[There(b)] = None
               PROVE  data[There(b)] \ late[b] \subseteq data[Here(b)]
  BY DEF PushedStep
<1>2. There(b) \in Bucket
  BY Places
<1>3. PICK j \in jobs : JobRemoves(j)
  BY <1>1, <1>2, NoneKept
<1>4. j.b \in Binding /\ j.at = "remove" /\ data' = [data EXCEPT ![There(j.b)] = None]
  BY <1>1, <1>3 DEF JobRemoves, Inv, Jobs
<1>5. j.b = b
  <2>1. There(j.b) = There(b)
    BY <1>1, <1>2, <1>4 DEF Inv, TypeOK
  <2>2. QED
    BY <1>4, <2>1, Places
<1>6. j.way = "push"
  BY <1>1, <1>3, <1>4, <1>5 DEF Inv, Jobs
<1>7. QED
  BY <1>1, <1>3, <1>4, <1>5, <1>6 DEF Inv, Jobs

(* unsync_bucket_push_on_delete: a bucket that is pushed back on deletion is not
   removed before everything in it has come to its source, but for what is put
   between the copy and the removal of one Job, whatever else replicates, syncs,
   unbinds or is bound again meanwhile. *)
THEOREM BackFirst == Spec => PushedBack
<1>1. Inv /\ [Next]_vars => [\A b \in Binding :
        b.push = "OnDelete" /\ data[There(b)] # None /\ data'[There(b)] = None
        => data[There(b)] \ late[b] \subseteq data[Here(b)]]_vars
  BY StepPushed DEF PushedStep
<1>2. QED
  BY <1>1, Invariance, PTL DEF Spec, PushedBack
=============================================================================
