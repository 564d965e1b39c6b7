----------------------------- MODULE VineProofs -----------------------------
(***************************************************************************)
(* Theorems about VineSession, for any users, nodes, bindings, clients and  *)
(* quotas and any number of disturbances, and one about VineAccess, for any *)
(* lists and requests.                                                     *)
(***************************************************************************)
EXTENDS VineSession, VineAccess, SequenceTheorems, TLAPS

(* What is left of the calls of a session from the k-th on. *)
Rest(act, k) == SubSeq(Steps(act), k, 5)

(* Who is at work: with a user who has a name when he logs in, an operator at its
   own node or binding, and calls of its own kind before it. *)
WorksOn(w, x) ==
    /\ x.act = "login" => x.user \in User
    /\ w \in Node => x.node = w
    /\ w \in Binding => x.node = w.node
    /\ \E k \in 1 .. 5 : x.rest = Rest(x.act, k)
    /\ x.pc # "do" => x.rest = Steps(x.act)
Works(w) == op[w] # Idle => WorksOn(w, op[w])

(* A node that somebody is on says who. *)
Labelled == \A n \in Node : node[n].on => node[n].user # None

(* At a node without a race at most one worker acts. *)
Apart ==
    \A n \in Node \ raced : \A v, w \in Worker :
        Acting(v, n) /\ Acting(w, n) => v = w

(* What that worker has written is there: the label of a login that has begun, *)
Begun(w) ==
    Starting(w, op[w].node) => node[op[w].node].on /\ node[op[w].node].user = op[w].user

(* what it has looked at stays as it was: who the node is labelled with, *)
Seen(w) == node[op[w].node].on => node[op[w].node].user = op[w].user

(* and the labels that a logout has taken away do not come back. *)
Cleaned(w) ==
    op[w].pc = "do" /\ op[w].act = "logout" =>
        /\ Len(op[w].rest) < 5 /\ op[w].user \in User => desktop[op[w].user] # op[w].node
        /\ Len(op[w].rest) < 4 => box[op[w].node] \notin User
        /\ Len(op[w].rest) < 3 /\ op[w].user \in User => user[op[w].user] # op[w].node
        /\ Len(op[w].rest) < 2 /\ op[w].user \in User => ns[op[w].user] # op[w].node

Alone(w) == op[w] # Idle /\ Acting(w, op[w].node) /\ Free(op[w].node) /\ op[w].node \notin raced
Keeps(w) == Alone(w) => Begun(w) /\ Seen(w) /\ Cleaned(w)

Inv ==
    /\ TypeOK /\ NoLeak /\ NodesAreNamed /\ Labelled /\ Apart
    /\ \A w \in Worker : Works(w) /\ Keeps(w)

(* A step says nothing new of a node: nobody else is on it, nothing more is there. *)
Same(n) ==
    /\ node'[n].on = node[n].on /\ node'[n].user = node[n].user /\ box'[n] = box[n]
    /\ \A u \in User : /\ ns'[u] = n => ns[u] = n
                       /\ user'[u] = n => user[u] = n
                       /\ desktop'[u] = n => desktop[u] = n

StepName == {"node", "ns", "user", "box", "desktop"}

LEMMA StepsAre ==
  /\ Steps("login")[1] = "node" /\ Steps("login")[2] = "ns" /\ Steps("login")[3] = "user"
  /\ Steps("login")[4] = "box" /\ Steps("login")[5] = "desktop"
  /\ Steps("logout")[1] = "desktop" /\ Steps("logout")[2] = "box" /\ Steps("logout")[3] = "user"
  /\ Steps("logout")[4] = "ns" /\ Steps("logout")[5] = "node"
  /\ \A act : Steps(act) \in Seq(StepName) /\ Len(Steps(act)) = 5
  /\ Steps("login") = CreateSteps /\ Steps("logout") = DeleteSteps
<1>1. Steps("login") = CreateSteps /\ Steps("logout") = DeleteSteps
  BY DEF Steps
<1>2. /\ CreateSteps \in Seq(StepName) /\ Len(CreateSteps) = 5
      /\ CreateSteps[1] = "node" /\ CreateSteps[2] = "ns" /\ CreateSteps[3] = "user"
      /\ CreateSteps[4] = "box" /\ CreateSteps[5] = "desktop"
  <2>1. CreateSteps \in Seq(StepName)
    BY DEF CreateSteps, StepName
  <2>2. Len(CreateSteps) = 5
    BY DEF CreateSteps
  <2>3. CreateSteps[1] = "node" /\ CreateSteps[2] = "ns" /\ CreateSteps[3] = "user"
    BY DEF CreateSteps
  <2>4. CreateSteps[4] = "box" /\ CreateSteps[5] = "desktop"
    BY DEF CreateSteps
  <2>5. QED
    BY <2>1, <2>2, <2>3, <2>4
<1>3. /\ DeleteSteps \in Seq(StepName) /\ Len(DeleteSteps) = 5
      /\ DeleteSteps[1] = "desktop" /\ DeleteSteps[2] = "box" /\ DeleteSteps[3] = "user"
      /\ DeleteSteps[4] = "ns" /\ DeleteSteps[5] = "node"
  <2>1. DeleteSteps \in Seq(StepName)
    BY DEF DeleteSteps, StepName
  <2>2. Len(DeleteSteps) = 5
    BY DEF DeleteSteps
  <2>3. DeleteSteps[1] = "desktop" /\ DeleteSteps[2] = "box" /\ DeleteSteps[3] = "user"
    BY DEF DeleteSteps
  <2>4. DeleteSteps[4] = "ns" /\ DeleteSteps[5] = "node"
    BY DEF DeleteSteps
  <2>5. QED
    BY <2>1, <2>2, <2>3, <2>4
<1>4. \A act : Steps(act) = CreateSteps \/ Steps(act) = DeleteSteps
  BY DEF Steps
<1>5. QED
  BY <1>1, <1>2, <1>3, <1>4

(* The calls that are left have a first one, and it can be taken off. *)
LEMMA RestProps ==
  ASSUME NEW act, NEW k \in 1 .. 5
  PROVE  /\ Len(Rest(act, k)) = 6 - k
         /\ Head(Rest(act, k)) = Steps(act)[k]
         /\ k < 5 => Tail(Rest(act, k)) = Rest(act, k + 1)
         /\ k = 1 => Rest(act, k) = Steps(act)
         /\ k > 1 => Rest(act, k) # Steps(act)
<1> DEFINE s == Steps(act)
<1>1. s \in Seq(StepName) /\ Len(s) = 5
  BY StepsAre
<1> HIDE DEF s
<1>2. ASSUME NEW j \in 1 .. 5
      PROVE  /\ SubSeq(s, j, 5) \in Seq(StepName) /\ Len(SubSeq(s, j, 5)) = 6 - j
             /\ \A i \in 1 .. 6 - j : SubSeq(s, j, 5)[i] = s[j + i - 1]
  <2>1. \A i \in j .. 5 : s[i] \in StepName
    <3>1. \A i \in 1 .. Len(s) : s[i] \in StepName
      BY <1>1, ElementOfSeq
    <3>2. \A i \in j .. 5 : i \in 1 .. 5
      OBVIOUS
    <3>3. QED
      BY <1>1, <3>1, <3>2
  <2>2. j \in Int /\ 5 \in Int /\ j <= 5 /\ 5 - j + 1 = 6 - j
    OBVIOUS
  <2>3. QED
    BY <2>1, <2>2, SubSeqProperties
<1>3. Head(SubSeq(s, k, 5)) = s[k]
  BY <1>2
<1>4. ASSUME k < 5 PROVE Tail(SubSeq(s, k, 5)) = SubSeq(s, k + 1, 5)
  <2> DEFINE t == SubSeq(s, k, 5)  r == SubSeq(s, k + 1, 5)
  <2>1. k + 1 \in 1 .. 5
    BY <1>4
  <2>2. /\ t \in Seq(StepName) /\ Len(t) = 6 - k /\ \A i \in 1 .. 6 - k : t[i] = s[k + i - 1]
        /\ r \in Seq(StepName) /\ Len(r) = 5 - k /\ \A i \in 1 .. 5 - k : r[i] = s[k + i]
    <3>1. r \in Seq(StepName) /\ Len(r) = 6 - (k + 1) /\ \A i \in 1 .. 6 - (k + 1) : r[i] = s[(k + 1) + i - 1]
      BY <1>2, <2>1
    <3>2. 6 - (k + 1) = 5 - k /\ \A i \in 1 .. 5 - k : (k + 1) + i - 1 = k + i
      OBVIOUS
    <3>3. QED
      BY <1>2, <3>1, <3>2
  <2> HIDE DEF t, r
  <2>3. t # <<>>
    BY <2>2
  <2>4. Tail(t) \in Seq(StepName) /\ Len(Tail(t)) = 5 - k
        /\ \A i \in 1 .. 5 - k : Tail(t)[i] = t[i + 1]
    BY <2>2, <2>3, HeadTailProperties
  <2>5. \A i \in 1 .. 5 - k : i + 1 \in 1 .. 6 - k /\ k + (i + 1) - 1 = k + i
    OBVIOUS
  <2>6. \A i \in 1 .. 5 - k : Tail(t)[i] = r[i]
    BY <2>2, <2>4, <2>5
  <2>7. Tail(t) = r
    BY <2>2, <2>4, <2>6, SeqEqual
  <2>8. QED
    BY <2>7 DEF t, r
<1>5. k = 1 => SubSeq(s, k, 5) = s
  <2>1. ASSUME k = 1 PROVE SubSeq(s, 1, 5) = s
    <3> DEFINE t == SubSeq(s, 1, 5)
    <3>1. t \in Seq(StepName) /\ Len(t) = 5 /\ \A i \in 1 .. 5 : t[i] = s[i]
      <4>1. t \in Seq(StepName) /\ Len(t) = 6 - 1 /\ \A i \in 1 .. 6 - 1 : t[i] = s[1 + i - 1]
        BY <1>2
      <4>2. 6 - 1 = 5 /\ \A i \in 1 .. 5 : 1 + i - 1 = i
        OBVIOUS
      <4>3. QED
        BY <4>1, <4>2
    <3> HIDE DEF t
    <3>2. t = s
      BY <1>1, <3>1, SeqEqual
    <3>3. QED
      BY <3>2 DEF t
  <2>2. QED
    BY <2>1
<1>6. k > 1 => SubSeq(s, k, 5) # s
  <2>1. Len(SubSeq(s, k, 5)) = 6 - k
    BY <1>2
  <2>2. k > 1 => 6 - k # 5
    OBVIOUS
  <2>3. QED
    BY <1>1, <2>1, <2>2
<1>7. QED
  BY <1>2, <1>3, <1>4, <1>5, <1>6 DEF Rest, s

(* A session of five calls has none behind it. *)
LEMMA Whole ==
  ASSUME NEW l, l = 5
  PROVE  ~(l < 5) /\ ~(l < 4) /\ ~(l < 3) /\ ~(l < 2)
  OBVIOUS

(* A worker that is neither idle nor finished is doing something to someone. *)
LEMMA Doing ==
  ASSUME TypeOK, NEW w \in Worker, op[w] # Idle
  PROVE  /\ op[w] \in Op /\ op[w].pc # "idle"
         /\ op[w].node \in Node /\ op[w].user \in User \union {Empty}
         /\ op[w].act \in {"login", "logout"}
<1>1. op[w] \in Op
  BY DEF TypeOK
<1>2. QED
  BY <1>1 DEF Op

(* What another worker keeps is not touched where nothing happens. *)
LEMMA Others ==
  ASSUME Inv, NEW v \in Worker, op'[v] = op[v],
         Alone(v)' => Alone(v) /\ Same(op[v].node)
  PROVE  Works(v)' /\ Keeps(v)'
<1>1. Works(v) /\ Keeps(v)
  BY DEF Inv
<1>2. Works(v)'
  BY <1>1 DEF Works, WorksOn
<1>3. ASSUME Alone(v)' PROVE Begun(v)' /\ Seen(v)' /\ Cleaned(v)'
  <2>1. Begun(v) /\ Seen(v) /\ Cleaned(v) /\ Same(op[v].node)
    BY <1>1, <1>3 DEF Keeps
  <2>2. Begun(v)' /\ Seen(v)'
    <3>1. /\ op'[v].node = op[v].node /\ op'[v].user = op[v].user
          /\ Starting(v, op[v].node)' <=> Starting(v, op[v].node)
      BY DEF Starting
    <3>2. node'[op[v].node].on = node[op[v].node].on /\ node'[op[v].node].user = node[op[v].node].user
      BY <2>1 DEF Same
    <3>3. node'[op'[v].node].on <=> node[op[v].node].on
      BY <3>1, <3>2, Zenon
    <3>4. node'[op'[v].node].user = node[op[v].node].user
      BY <3>1, <3>2
    <3>5. Begun(v)'
      BY <2>1, <3>1, <3>3, <3>4, Zenon DEF Begun
    <3>6. Seen(v)'
      BY <2>1, <3>1, <3>3, <3>4, Zenon DEF Seen
    <3>7. QED
      BY <3>5, <3>6
  <2>3. Cleaned(v)'
    <3>1. SUFFICES ASSUME op[v].pc = "do" /\ op[v].act = "logout"
                   PROVE  Cleaned(v)'
      BY DEF Cleaned
    <3>2. /\ box'[op[v].node] = box[op[v].node]
          /\ \A u \in User : /\ ns'[u] = op[v].node => ns[u] = op[v].node
                             /\ user'[u] = op[v].node => user[u] = op[v].node
                             /\ desktop'[u] = op[v].node => desktop[u] = op[v].node
      BY <2>1 DEF Same
    <3>3. /\ Len(op[v].rest) < 5 /\ op[v].user \in User => desktop'[op[v].user] # op[v].node
          /\ Len(op[v].rest) < 4 => box'[op[v].node] \notin User
          /\ Len(op[v].rest) < 3 /\ op[v].user \in User => user'[op[v].user] # op[v].node
          /\ Len(op[v].rest) < 2 /\ op[v].user \in User => ns'[op[v].user] # op[v].node
      BY <2>1, <3>1, <3>2 DEF Cleaned
    <3>4. QED
      BY <3>3, Zenon DEF Cleaned
  <2>4. QED
    BY <2>2, <2>3
<1>4. QED
  BY <1>2, <1>3 DEF Keeps

(* A worker that has made no call yet has cleaned nothing up and begun nothing. *)
LEMMA FreshNext ==
  ASSUME NEW w, op'[w].rest = Steps(op'[w].act), Seen(w)'
  PROVE  Keeps(w)'
<1>1. Len(op'[w].rest) = 5 /\ (op'[w].act = "login" => op'[w].rest = CreateSteps)
  BY StepsAre
<1>2. Begun(w)'
  BY <1>1 DEF Begun, Starting
<1>3. /\ ~(Len(op'[w].rest) < 5) /\ ~(Len(op'[w].rest) < 4)
      /\ ~(Len(op'[w].rest) < 3) /\ ~(Len(op'[w].rest) < 2)
  BY <1>1, Whole
<1>4. Cleaned(w)'
  BY <1>3 DEF Cleaned
<1>5. QED
  BY <1>2, <1>4 DEF Keeps

(* A step of one worker that writes no label, and decides nothing new, leaves
   everything in place. *)
LEMMA QuietStep ==
  ASSUME Inv, NEW w \in Worker, NEW x \in Op \union {Idle},
         UNCHANGED <<node, ns, user, box, desktop, raced>>, op' = [op EXCEPT ![w] = x],
         bind' \in [Binding -> Expiry \union {None}], due' \subseteq Binding, spent' \in 0 .. Limit,
         x # Idle => WorksOn(w, x) /\ x.rest = Steps(x.act),
         x # Idle /\ x.pc \in {"bindings", "do", "exists"} =>
             /\ op[w].pc \in {"bindings", "do", "exists"}
             /\ x.user = op[w].user /\ x.node = op[w].node
  PROVE  Inv'
<1>1. op \in [Worker -> Op \union {Idle}] /\ op' \in [Worker -> Op \union {Idle}]
  BY DEF Inv, TypeOK
<1>2. TypeOK'
  BY <1>1 DEF Inv, TypeOK
<1>3. NoLeak' /\ Labelled' /\ NodesAreNamed'
  BY DEF Inv, NoLeak, Labelled, NodesAreNamed, Nameless, Left
<1>4. op'[w] = x /\ \A v \in Worker \ {w} : op'[v] = op[v]
  BY <1>1
<1>5. \A v \in Worker, n \in Node : Acting(v, n)' => Acting(v, n)
  BY <1>4 DEF Acting, Idle
<1>6. Apart'
  BY <1>5 DEF Inv, Apart
<1>7. \A n \in Node : Same(n)
  BY DEF Same
<1>8. ASSUME NEW v \in Worker \ {w} PROVE Works(v)' /\ Keeps(v)'
  <2>1. Alone(v)' => Alone(v) /\ op[v].node \in Node
    BY <1>4, Doing DEF Alone, Acting, Free, Inv
  <2>2. QED
    BY <1>4, <1>7, <2>1, Others
<1>9. Works(w)'
  BY <1>4 DEF Works
<1>10. Keeps(w)'
  <2>1. ASSUME Alone(w)' PROVE Keeps(w)'
    <3>1. x # Idle /\ x.pc \in {"bindings", "do", "exists"} /\ Free(x.node) /\ x.node \notin raced
      BY <1>4, <2>1 DEF Alone, Acting, Free
    <3>2. op[w] # Idle /\ op[w].node = x.node /\ op[w].user = x.user /\ Acting(w, op[w].node)
      BY <3>1 DEF Idle, Acting
    <3>3. Seen(w)
      BY <3>1, <3>2 DEF Inv, Keeps, Alone
    <3>4. Seen(w)' /\ op'[w].rest = Steps(op'[w].act)
      BY <1>4, <3>1, <3>2, <3>3 DEF Seen
    <3>5. QED
      BY <3>4, FreshNext
  <2>2. QED
    BY <2>1 DEF Keeps
<1>11. QED
  BY <1>2, <1>3, <1>6, <1>8, <1>9, <1>10 DEF Inv

(* A worker that decides is alone at its node, and at one that is labelled with
   its user or with nobody, or it has raced. *)
LEMMA DecideStep ==
  ASSUME Inv, NEW w \in Worker, NEW x \in Op, Decide(w, x),
         UNCHANGED <<node, ns, user, box, desktop, bind, due, spent>>,
         WorksOn(w, x), x.rest = Steps(x.act), x.pc # "idle",
         node[x.node].on => node[x.node].user = x.user
  PROVE  Inv'
<1>1. /\ op \in [Worker -> Op \union {Idle}] /\ op' \in [Worker -> Op \union {Idle}]
      /\ x.node \in Node /\ raced \subseteq Node /\ raced' \subseteq Node
  BY DEF Inv, TypeOK, Decide, Op
<1>2. TypeOK'
  BY <1>1 DEF Inv, TypeOK
<1>3. op'[w] = x /\ \A v \in Worker \ {w} : op'[v] = op[v]
  BY <1>1 DEF Decide
<1>4. /\ \A n \in Node : n # x.node /\ n \notin raced' => n \notin raced
      /\ x.node \notin raced' => /\ \A v \in Worker \ {w} : ~Acting(v, x.node)
                                 /\ x.node \notin raced \/ Quiet(x.node)
  BY <1>1 DEF Decide
<1>5. NoLeak' /\ Labelled' /\ NodesAreNamed'
  <2>1. ASSUME NEW u \in User, NEW n \in Node, Free(n), n \notin raced', Left(u, n)
        PROVE  node[n].on /\ node[n].user = u
    BY <1>4, <2>1 DEF Inv, NoLeak, Quiet
  <2>2. NoLeak'
    BY <2>1 DEF NoLeak, Left, Free
  <2>3. QED
    BY <2>2 DEF Inv, Labelled, NodesAreNamed, Nameless, Free
<1>6. Apart'
  <2>1. SUFFICES ASSUME NEW n \in Node, n \notin raced', NEW v \in Worker, NEW z \in Worker,
                        Acting(v, n)', Acting(z, n)'
                 PROVE  v = z
    BY DEF Apart
  <2>2. \A y \in Worker \ {w} : Acting(y, n)' => Acting(y, n)
    BY <1>3 DEF Acting
  <2>3. Acting(w, n)' => n = x.node
    BY <1>3 DEF Acting
  <2>4. CASE n = x.node
    <3>1. \A y \in Worker \ {w} : ~Acting(y, n)'
      BY <1>4, <2>1, <2>2, <2>4, Zenon
    <3>2. QED
      BY <2>1, <3>1
  <2>5. CASE n # x.node
    <3>1. n \notin raced /\ v # w /\ z # w
      BY <1>4, <2>1, <2>3, <2>5
    <3>2. Acting(v, n) /\ Acting(z, n)
      BY <2>1, <2>2, <3>1
    <3>3. QED
      BY <3>1, <3>2 DEF Inv, Apart
  <2>6. QED
    BY <2>4, <2>5
<1>7. ASSUME NEW v \in Worker \ {w} PROVE Works(v)' /\ Keeps(v)'
  <2>1. ASSUME Alone(v)' PROVE Alone(v) /\ Same(op[v].node)
    <3>1. op[v] # Idle /\ Acting(v, op[v].node) /\ Free(op[v].node) /\ op[v].node \notin raced'
      <4>1. op'[v] = op[v]
        BY <1>3
      <4>2. QED
        BY <2>1, <4>1 DEF Alone, Acting, Free
    <3>2. op[v].node \in Node
      BY <3>1, Doing DEF Inv
    <3>3. op[v].node # x.node
      <4>1. SUFFICES ASSUME op[v].node = x.node PROVE FALSE
        OBVIOUS
      <4>2. x.node \notin raced' /\ Acting(v, x.node)
        BY <3>1, <4>1
      <4>3. QED
        BY <1>4, <4>2, Zenon
    <3>4. op[v].node \notin raced
      BY <1>4, <3>1, <3>2, <3>3
    <3>5. QED
      BY <3>1, <3>4 DEF Alone, Same
  <2>2. QED
    BY <1>3, <2>1, Others
<1>8. Works(w)'
  BY <1>3 DEF Works
<1>9. Keeps(w)'
  <2>1. Seen(w)' /\ op'[w].rest = Steps(op'[w].act)
    BY <1>3 DEF Seen
  <2>2. QED
    BY <2>1, FreshNext
<1>10. QED
  BY <1>2, <1>5, <1>6, <1>7, <1>8, <1>9 DEF Inv

LEMMA InitInv == Init => Inv
<1>1. SUFFICES ASSUME Init PROVE Inv
  OBVIOUS
<1>2. TypeOK
  <2>1. node \in [Node -> Labels]
    BY <1>1 DEF Init, Labels
  <2>2. spent \in 0 .. Limit
    BY <1>1, VineAssumption DEF Init
  <2>3. QED
    BY <1>1, <2>1, <2>2 DEF Init, TypeOK
<1>3. NoLeak
  BY <1>1, VineAssumption DEF Init, NoLeak, Left
<1>4. Labelled /\ NodesAreNamed
  BY <1>1 DEF Init, Labelled, NodesAreNamed, Nameless
<1>5. \A w \in Worker : op[w] = Idle
  BY <1>1 DEF Init
<1>6. \A w \in Worker, n \in Node : ~Acting(w, n)
  BY <1>5 DEF Acting, Idle
<1>7. QED
  BY <1>2, <1>3, <1>4, <1>5, <1>6 DEF Inv, Apart, Works, Keeps, Alone

-----------------------------------------------------------------------------
(* Requests, what they read, and how they fail *)

LEMMA Workers ==
  /\ Client \subseteq Worker /\ Node \subseteq Worker /\ Binding \subseteq Worker
  /\ \A c \in Client : c \notin Node /\ c \notin Binding
  /\ \A n \in Node : n \notin Binding
  BY VineAssumption DEF Worker

LEMMA StepsTyped ==
  ASSUME NEW act \in {"login", "logout"}
  PROVE  Steps(act) \in {SubSeq(CreateSteps, k, 5) : k \in 1 .. 6}
                       \union {SubSeq(DeleteSteps, k, 5) : k \in 1 .. 6}
<1>1. 1 \in 1 .. 5 /\ 1 \in 1 .. 6
  OBVIOUS
<1>2. Steps(act) = SubSeq(Steps(act), 1, 5)
  BY <1>1, RestProps DEF Rest
<1>3. QED
  BY <1>1, <1>2 DEF Steps

LEMMA SpentStep == TypeOK /\ Disturb => spent' \in 0 .. Limit
  BY VineAssumption DEF TypeOK, Disturb

LEMMA RequestInv ==
  ASSUME Inv, NEW c \in Client, NEW act \in {"login", "logout"}, NEW u \in User, NEW n \in Node,
         Request(c, act, u, n)
  PROVE  Inv'
<1> DEFINE x == [pc |-> "user", act |-> act, user |-> u, node |-> n,
                 persistent |-> FALSE, rest |-> Steps(act)]
<1>1. /\ op' = [op EXCEPT ![c] = x] /\ spent' \in 0 .. Limit
      /\ UNCHANGED <<node, ns, user, box, desktop, raced, bind, due>>
  BY SpentStep DEF Request, Go, Inv, labels
<1>2. x \in Op
  BY StepsTyped DEF Op
<1>3. x.user = u /\ x.node = n /\ x.act = act /\ x.pc = "user" /\ x.rest = Steps(act)
  OBVIOUS
<1> HIDE DEF x
<1>4. bind' \in [Binding -> Expiry \union {None}] /\ due' \subseteq Binding
  BY <1>1 DEF Inv, TypeOK
<1>5. c \in Worker /\ c \notin Node /\ c \notin Binding
  BY Workers
<1>6. WorksOn(c, x) /\ x.rest = Steps(x.act)
  <2>1. 1 \in 1 .. 5 /\ Steps(act) = Rest(act, 1)
    BY RestProps
  <2>2. QED
    BY <1>3, <1>5, <2>1 DEF WorksOn
<1>7. QED
  BY <1>1, <1>2, <1>3, <1>4, <1>5, <1>6, QuietStep

(* Moving on to the next look. *)
LEMMA Next1 ==
  ASSUME Inv, NEW w \in Worker, op[w] # Idle, op[w].pc # "do",
         NEW p \in {"user", "node", "bindings", "do", "exists", "get", "update"}, NEW q \in BOOLEAN,
         op' = [op EXCEPT ![w] = [op[w] EXCEPT !.pc = p, !.persistent = q]],
         UNCHANGED <<node, ns, user, box, desktop, raced, bind, due, spent>>,
         p \in {"bindings", "do", "exists"} => op[w].pc \in {"bindings", "do", "exists"}
  PROVE  Inv'
<1> DEFINE x == [op[w] EXCEPT !.pc = p, !.persistent = q]
<1>1. op[w] \in Op
  BY Doing DEF Inv
<1>2. /\ x \in Op /\ x.pc = p /\ x.user = op[w].user /\ x.node = op[w].node
      /\ x.act = op[w].act /\ x.rest = op[w].rest
  BY <1>1 DEF Op
<1>3. op' = [op EXCEPT ![w] = x]
  OBVIOUS
<1> HIDE DEF x
<1>4. /\ bind' \in [Binding -> Expiry \union {None}] /\ due' \subseteq Binding
      /\ spent' \in 0 .. Limit
  BY DEF Inv, TypeOK
<1>5. x \in Op \union {Idle} /\ UNCHANGED <<node, ns, user, box, desktop, raced>>
  BY <1>2
<1>6. x.rest = Steps(x.act) /\ WorksOn(w, x)
  <2>1. WorksOn(w, op[w])
    BY DEF Inv, Works
  <2>2. QED
    BY <1>2, <2>1 DEF WorksOn
<1>7. x # Idle => WorksOn(w, x) /\ x.rest = Steps(x.act)
  BY <1>6
<1>8. x # Idle /\ x.pc \in {"bindings", "do", "exists"} =>
             /\ op[w].pc \in {"bindings", "do", "exists"}
             /\ x.user = op[w].user /\ x.node = op[w].node
  BY <1>2
<1>9. QED
  BY <1>3, <1>4, <1>5, <1>7, <1>8, QuietStep, Zenon

LEMMA GiveUp ==
  ASSUME Inv, NEW w \in Worker, op[w] # Idle, op' = [op EXCEPT ![w] = Idle],
         UNCHANGED <<node, ns, user, box, desktop, raced, bind, due>>, spent' \in 0 .. Limit
  PROVE  Inv'
<1>1. bind' \in [Binding -> Expiry \union {None}] /\ due' \subseteq Binding
  BY DEF Inv, TypeOK
<1>2. QED
  BY <1>1, QuietStep

LEMMA NotIdle == \A w : op[w].pc # "idle" => op[w] # Idle
  BY DEF Idle

LEMMA ReadUserInv ==
  ASSUME Inv, NEW w \in Worker, ReadUser(w)
  PROVE  Inv'
<1>1. /\ op[w].pc = "user" /\ op[w] # Idle /\ op[w] \in Op
      /\ UNCHANGED <<node, ns, user, box, desktop, raced, bind, due, spent>>
  BY NotIdle, Doing DEF ReadUser, Go, labels, Inv
<1>2. CASE op' = [op EXCEPT ![w] = Idle]
  BY <1>1, <1>2, GiveUp DEF Inv, TypeOK
<1>3. CASE op' = [op EXCEPT ![w] = [op[w] EXCEPT !.pc = "node"]]
  <2>1. [op[w] EXCEPT !.pc = "node"] = [op[w] EXCEPT !.pc = "node", !.persistent = op[w].persistent]
        /\ op[w].persistent \in BOOLEAN
    BY <1>1 DEF Op
  <2>2. QED
    BY <1>1, <1>3, <2>1, Next1
<1>4. QED
  BY <1>2, <1>3 DEF ReadUser, Go

LEMMA ReadNodeInv ==
  ASSUME Inv, NEW w \in Worker, ReadNode(w)
  PROVE  Inv'
<1>1. /\ op[w].pc = "node" /\ op[w] # Idle /\ op[w] \in Op /\ op[w].node \in Node
      /\ UNCHANGED <<node, ns, user, box, desktop, bind, due, spent>>
  BY NotIdle, Doing DEF ReadNode, labels, Inv
<1> DEFINE n == op[w].node
           x == [op[w] EXCEPT !.pc = "bindings", !.persistent = node[n].persistent]
<1>2. CASE Go(w, Idle)
  BY <1>1, <1>2, GiveUp DEF Inv, TypeOK, Go
<1>3. CASE Allocable(node[n].on, node[n].user, n, n, op[w].user) /\ Decide(w, x)
  <2>1. node[n].persistent \in BOOLEAN
    BY <1>1 DEF Inv, TypeOK, Labels
  <2>2. node[n].on => node[n].user \in {None, op[w].user}
    BY <1>3 DEF Allocable, Allocation
  <2>3. node[n].on => node[n].user = op[w].user
    BY <1>1, <2>2 DEF Inv, Labelled
  <2>4. /\ x \in Op /\ x.pc = "bindings" /\ x.user = op[w].user /\ x.node = n
        /\ x.act = op[w].act /\ x.rest = op[w].rest
    BY <1>1, <2>1 DEF Op
  <2>5. WorksOn(w, op[w]) /\ op[w].rest = Steps(op[w].act)
    BY <1>1 DEF Inv, Works, WorksOn
  <2> HIDE DEF x
  <2>6. WorksOn(w, x) /\ x.rest = Steps(x.act)
    BY <2>4, <2>5 DEF WorksOn
  <2>7. QED
    BY <1>1, <1>3, <2>3, <2>4, <2>6, DecideStep
<1>4. QED
  BY <1>2, <1>3 DEF ReadNode

LEMMA ReadBindingsInv ==
  ASSUME Inv, NEW w \in Worker, ReadBindings(w)
  PROVE  Inv'
<1>1. /\ op[w].pc = "bindings" /\ op[w] # Idle /\ op[w] \in Op
      /\ UNCHANGED <<node, ns, user, box, desktop, raced, bind, due, spent>>
  BY NotIdle, Doing DEF ReadBindings, Go, labels, Inv
<1>2. CASE op' = [op EXCEPT ![w] = Idle]
  BY <1>1, <1>2, GiveUp DEF Inv, TypeOK
<1>3. CASE op' = [op EXCEPT ![w] = [op[w] EXCEPT !.pc = "do"]]
  <2>1. [op[w] EXCEPT !.pc = "do"] = [op[w] EXCEPT !.pc = "do", !.persistent = op[w].persistent]
        /\ op[w].persistent \in BOOLEAN
    BY <1>1 DEF Op
  <2>2. QED
    BY <1>1, <1>3, <2>1, Next1
<1>4. QED
  BY <1>2, <1>3 DEF ReadBindings, Go

LEMMA FailInv ==
  ASSUME Inv, NEW w \in Worker, Fail(w)
  PROVE  Inv'
<1>1. /\ op[w] # Idle /\ op' = [op EXCEPT ![w] = Idle] /\ spent' \in 0 .. Limit
      /\ UNCHANGED <<node, ns, user, box, desktop, raced, bind, due>>
  BY SpentStep DEF Fail, Go, labels, Inv
<1>2. QED
  BY <1>1, GiveUp

-----------------------------------------------------------------------------
(* The operators *)

LEMMA ReconcileInv ==
  ASSUME Inv, NEW n \in Node, Reconcile(n)
  PROVE  Inv'
<1> DEFINE x == [pc |-> IF node[n].ready THEN "exists" ELSE "do", act |-> "logout",
                 user |-> node[n].user, node |-> n, persistent |-> FALSE, rest |-> DeleteSteps]
<1>1. /\ op[n] = Idle /\ Started(n) /\ Decide(n, x)
      /\ UNCHANGED <<node, ns, user, box, desktop, bind, due, spent>>
  BY DEF Reconcile, labels
<1>2. node[n].user \in User \union {Empty} /\ ~node[n].fresh
  BY <1>1 DEF Inv, TypeOK, Labels, Started
<1>3. x \in Op
  BY <1>2, StepsTyped, StepsAre DEF Op
<1>4. x.user = node[n].user /\ x.node = n /\ x.act = "logout" /\ x.rest = Steps("logout")
      /\ x.pc # "idle"
  BY StepsAre
<1> HIDE DEF x
<1>5. n \in Worker /\ n \notin Binding
  BY Workers
<1>6. WorksOn(n, x) /\ x.rest = Steps(x.act)
  <2>1. 1 \in 1 .. 5 /\ Steps("logout") = Rest("logout", 1)
    BY RestProps
  <2>2. QED
    BY <1>4, <1>5, <2>1 DEF WorksOn
<1>7. QED
  BY <1>1, <1>3, <1>4, <1>5, <1>6, DecideStep

LEMMA ExistsInv ==
  ASSUME Inv, NEW n \in Node, Exists(n)
  PROVE  Inv'
<1>1. /\ op[n].pc = "exists" /\ op[n] # Idle /\ op[n] \in Op /\ n \in Worker
      /\ UNCHANGED <<node, ns, user, box, desktop, raced, bind, due, spent>>
  BY NotIdle, Doing, Workers DEF Exists, Go, labels, Inv
<1>2. CASE op' = [op EXCEPT ![n] = Idle]
  BY <1>1, <1>2, GiveUp DEF Inv, TypeOK
<1>3. CASE op' = [op EXCEPT ![n] = [op[n] EXCEPT !.pc = "do"]]
  <2>1. [op[n] EXCEPT !.pc = "do"] = [op[n] EXCEPT !.pc = "do", !.persistent = op[n].persistent]
        /\ op[n].persistent \in BOOLEAN
    BY <1>1 DEF Op
  <2>2. QED
    BY <1>1, <1>3, <2>1, Next1
<1>4. QED
  BY <1>2, <1>3 DEF Exists, Go

LEMMA ReconcileBindingInv ==
  ASSUME Inv, NEW b \in Binding, ReconcileBinding(b)
  PROVE  Inv'
<1> DEFINE act == IF b.autologin /\ ~IsExpired(b) THEN "login" ELSE "logout"
           x == [pc |-> "get", act |-> act, user |-> b.user, node |-> b.node,
                 persistent |-> FALSE, rest |-> Steps(act)]
<1>1. /\ op' = [op EXCEPT ![b] = x] /\ due' \subseteq Binding
      /\ UNCHANGED <<node, ns, user, box, desktop, raced, bind, spent>>
  BY DEF ReconcileBinding, Go, labels, Inv, TypeOK
<1>2. b.user \in User /\ b.node \in Node /\ act \in {"login", "logout"}
  BY VineAssumption
<1> HIDE DEF act
<1>3. x \in Op
  BY <1>2, StepsTyped DEF Op
<1>4. x.user = b.user /\ x.node = b.node /\ x.pc = "get" /\ x.act = act /\ x.rest = Steps(act)
  OBVIOUS
<1> HIDE DEF x
<1>5. bind' \in [Binding -> Expiry \union {None}] /\ spent' \in 0 .. Limit
  BY <1>1 DEF Inv, TypeOK
<1>6. b \in Worker /\ b \notin Node
  BY Workers
<1>7. WorksOn(b, x) /\ x.rest = Steps(x.act)
  <2>1. 1 \in 1 .. 5 /\ Steps(act) = Rest(act, 1)
    BY RestProps
  <2>2. QED
    BY <1>2, <1>4, <1>6, <2>1 DEF WorksOn
<1>8. QED
  BY <1>1, <1>2, <1>3, <1>4, <1>5, <1>6, <1>7, QuietStep

LEMMA GetNodeInv ==
  ASSUME Inv, NEW b \in Binding, GetNode(b)
  PROVE  Inv'
<1>1. /\ op[b].pc = "get" /\ op[b] # Idle /\ op[b] \in Op /\ b \in Worker
      /\ UNCHANGED <<node, ns, user, box, desktop, raced, bind, due, spent>>
  BY NotIdle, Doing, Workers DEF GetNode, Go, labels, Inv
<1>2. CASE op' = [op EXCEPT ![b] = Idle]
  BY <1>1, <1>2, GiveUp DEF Inv, TypeOK
<1>3. CASE op' = [op EXCEPT ![b] = [op[b] EXCEPT !.pc = "update"]]
  <2>1. [op[b] EXCEPT !.pc = "update"] = [op[b] EXCEPT !.pc = "update", !.persistent = op[b].persistent]
        /\ op[b].persistent \in BOOLEAN
    BY <1>1 DEF Op
  <2>2. QED
    BY <1>1, <1>3, <2>1, Next1
<1>4. QED
  BY <1>2, <1>3 DEF GetNode, Go

(* A binding writes on a node that is its own, and so on none that is free. *)
LEMMA UpdateNodeAutologinInv ==
  ASSUME Inv, NEW b \in Binding, UpdateNodeAutologin(b)
  PROVE  Inv'
<1> DEFINE n == op[b].node
           x == [op[b] EXCEPT !.pc = "user"]
<1>1. /\ op[b].pc = "update" /\ op[b] # Idle /\ op[b] \in Op /\ b \in Worker
      /\ n \in Node /\ op[b].user \in User \union {Empty}
      /\ op' = [op EXCEPT ![b] = x] /\ UNCHANGED <<ns, user, box, desktop, raced, bind, due, spent>>
  BY NotIdle, Doing, Workers DEF UpdateNodeAutologin, Go, Inv
<1>2. n = b.node /\ (op[b].act = "login" => op[b].user \in User) /\ op[b].rest = Steps(op[b].act)
  BY <1>1 DEF Inv, Works, WorksOn
<1>3. /\ node' \in [Node -> Labels] /\ \A m \in Node \ {n} : node'[m] = node[m]
      /\ node'[n].user \in User \union {Empty}
  <2>1. node \in [Node -> Labels]
    BY DEF Inv, TypeOK
  <2>2. node[n] \in Labels
    BY <1>1, <2>1
  <2> DEFINE y == [node[n] EXCEPT !.user = IF op[b].act = "login" THEN op[b].user ELSE Empty,
                                  !.persistent = op[b].act = "login"]
  <2>3. y \in Labels /\ y.user \in User \union {Empty}
    BY <1>1, <1>2, <2>2 DEF Labels
  <2>4. node' = [node EXCEPT ![n] = y]
    BY <1>1, <2>1, <2>2 DEF UpdateNodeAutologin, Labels
  <2> HIDE DEF y
  <2>5. QED
    BY <1>1, <2>1, <2>3, <2>4
<1>4. x \in Op /\ x.pc = "user" /\ x.user = op[b].user /\ x.node = n
      /\ x.act = op[b].act /\ x.rest = op[b].rest
  BY <1>1 DEF Op
<1> HIDE DEF x
<1>5. op \in [Worker -> Op \union {Idle}] /\ op' \in [Worker -> Op \union {Idle}]
  BY <1>1, <1>4 DEF Inv, TypeOK
<1>6. op'[b] = x /\ \A v \in Worker \ {b} : op'[v] = op[v]
  BY <1>1, <1>5
<1>7. TypeOK'
  BY <1>1, <1>3, <1>5 DEF Inv, TypeOK
<1>8. \A m \in Node : Free(m) => m # n /\ node'[m] = node[m] /\ Same(m)
  BY <1>1, <1>2, <1>3 DEF Free, Same
<1>9. NoLeak' /\ NodesAreNamed'
  BY <1>1, <1>8 DEF Inv, NoLeak, Left, NodesAreNamed, Nameless, Free
<1>10. Labelled'
  BY <1>3, VineAssumption DEF Inv, Labelled
<1>11. \A v \in Worker, m \in Node : Acting(v, m)' => Acting(v, m)
  BY <1>4, <1>6 DEF Acting
<1>12. Apart'
  BY <1>1, <1>11 DEF Inv, Apart
<1>13. ASSUME NEW v \in Worker \ {b} PROVE Works(v)' /\ Keeps(v)'
  <2>1. Alone(v)' => Alone(v) /\ Free(op[v].node) /\ op[v].node \in Node
    BY <1>1, <1>6, Doing DEF Alone, Acting, Free, Inv
  <2>2. QED
    BY <1>6, <1>8, <2>1, Others
<1>14. Works(b)'
  BY <1>1, <1>4, <1>6 DEF Inv, Works, WorksOn
<1>15. Keeps(b)'
  BY <1>4, <1>6 DEF Keeps, Alone, Acting
<1>16. QED
  BY <1>7, <1>9, <1>10, <1>12, <1>13, <1>14, <1>15 DEF Inv

(* What happens to a node beside its sessions says nothing of who is on it. *)
LEMMA NodeStep ==
  ASSUME Inv, NEW n \in Node, NEW x \in Labels,
         node' = [node EXCEPT ![n] = x], x.user = node[n].user, x.on = node[n].on,
         UNCHANGED <<ns, user, box, desktop, bind, due, op, raced>>, spent' \in 0 .. Limit
  PROVE  Inv'
<1>1. node \in [Node -> Labels]
  BY DEF Inv, TypeOK
<1>2. /\ node' \in [Node -> Labels] /\ \A m \in Node \ {n} : node'[m] = node[m]
      /\ node'[n] = x
  BY <1>1
<1>3. \A m \in Node : node'[m].user = node[m].user /\ node'[m].on = node[m].on
  BY <1>2
<1>4. TypeOK'
  BY <1>2 DEF Inv, TypeOK
<1>5. NoLeak' /\ Labelled' /\ NodesAreNamed' /\ Apart'
  BY <1>3 DEF Inv, NoLeak, Left, Free, Labelled, NodesAreNamed, Nameless, Apart, Acting
<1>6. ASSUME NEW w \in Worker PROVE Works(w)' /\ Keeps(w)'
  <2>1. \A m \in Node : Same(m)
    BY <1>3 DEF Same
  <2>2. Alone(w)' => Alone(w) /\ op[w].node \in Node
    BY Doing DEF Alone, Acting, Free, Inv
  <2>3. QED
    BY <2>1, <2>2, Others
<1>7. QED
  BY <1>4, <1>5, <1>6 DEF Inv

LEMMA TickInv ==
  ASSUME Inv, NEW n \in Node, Tick(n)
  PROVE  Inv'
<1> DEFINE x == [node[n] EXCEPT !.fresh = FALSE]
<1>1. node[n] \in Labels
  BY DEF Inv, TypeOK
<1>2. x \in Labels /\ x.user = node[n].user /\ x.on = node[n].on
  BY <1>1 DEF Labels
<1>3. /\ node' = [node EXCEPT ![n] = x]
      /\ UNCHANGED <<ns, user, box, desktop, bind, due, op, raced>> /\ spent' \in 0 .. Limit
  BY <1>1 DEF Tick, Labels, Inv, TypeOK
<1> HIDE DEF x
<1>4. QED
  BY <1>2, <1>3, NodeStep

LEMMA DiesReturnsInv ==
  ASSUME Inv, NEW n \in Node, Dies(n) \/ Returns(n)
  PROVE  Inv'
<1> DEFINE x(r) == [node[n] EXCEPT !.ready = r]
<1>1. node[n] \in Labels
  BY DEF Inv, TypeOK
<1>2. \A r \in BOOLEAN : /\ x(r) \in Labels /\ x(r).user = node[n].user
                         /\ x(r).on = node[n].on
  BY <1>1 DEF Labels
<1>3. PICK r \in BOOLEAN : node' = [node EXCEPT ![n] = x(r)]
  <2>1. Dies(n) => node' = [node EXCEPT ![n] = x(FALSE)]
    BY DEF Dies
  <2>2. Returns(n) => node' = [node EXCEPT ![n] = x(TRUE)]
    BY DEF Returns
  <2>3. QED
    BY <2>1, <2>2
<1>4. UNCHANGED <<ns, user, box, desktop, bind, due, op, raced>> /\ spent' \in 0 .. Limit
  BY SpentStep DEF Dies, Returns, Inv, TypeOK
<1> HIDE DEF x
<1>5. QED
  BY <1>2, <1>3, <1>4, NodeStep

(* Bindings that come, go and run out change no label. *)
LEMMA BindingsInv ==
  ASSUME Inv, UNCHANGED <<node, ns, user, box, desktop, op, raced>>,
         bind' \in [Binding -> Expiry \union {None}], due' \subseteq Binding, spent' \in 0 .. Limit
  PROVE  Inv'
<1>1. TypeOK' /\ NoLeak' /\ Labelled' /\ NodesAreNamed' /\ Apart'
  BY DEF Inv, TypeOK, NoLeak, Left, Free, Labelled, NodesAreNamed, Nameless, Apart, Acting
<1>2. ASSUME NEW w \in Worker PROVE Works(w)' /\ Keeps(w)'
  <2>1. Alone(w)' => Alone(w)
    BY DEF Alone, Acting, Free
  <2>2. Same(op[w].node)
    BY DEF Same
  <2>3. QED
    BY <2>1, <2>2, Others
<1>3. QED
  BY <1>1, <1>2 DEF Inv

LEMMA BindInv ==
  ASSUME Inv, NEW b \in Binding, NEW e \in Expiry, Bind(b, e)
  PROVE  Inv'
<1>1. bind' \in [Binding -> Expiry \union {None}] /\ due' \subseteq Binding /\ spent' \in 0 .. Limit
  BY SpentStep DEF Bind, Inv, TypeOK
<1>2. UNCHANGED <<node, ns, user, box, desktop, op, raced>>
  BY DEF Bind, labels
<1>3. QED
  BY <1>1, <1>2, BindingsInv

LEMMA UnbindInv ==
  ASSUME Inv, NEW b \in Binding, Unbind(b)
  PROVE  Inv'
<1>1. bind' \in [Binding -> Expiry \union {None}] /\ due' \subseteq Binding /\ spent' \in 0 .. Limit
  BY SpentStep DEF Unbind, Inv, TypeOK
<1>2. UNCHANGED <<node, ns, user, box, desktop, op, raced>>
  BY DEF Unbind, labels
<1>3. QED
  BY <1>1, <1>2, BindingsInv

LEMMA ExpireInv ==
  ASSUME Inv, NEW b \in Binding, Expire(b)
  PROVE  Inv'
<1>1. bind' \in [Binding -> Expiry \union {None}] /\ due' \subseteq Binding /\ spent' \in 0 .. Limit
  BY DEF Expire, Inv, TypeOK, Expiry
<1>2. UNCHANGED <<node, ns, user, box, desktop, op, raced>>
  BY DEF Expire, labels
<1>3. QED
  BY <1>1, <1>2, BindingsInv

LEMMA RestartInv ==
  ASSUME Inv, Restart
  PROVE  Inv'
<1>1. /\ \A w \in Worker : op'[w] = op[w] \/ op'[w] = Idle
      /\ op' \in [Worker -> Op \union {Idle}] /\ due' \subseteq Binding /\ spent' \in 0 .. Limit
      /\ UNCHANGED <<node, ns, user, box, desktop, bind, raced>>
  BY SpentStep DEF Restart, Inv, TypeOK, labels
<1>2. TypeOK' /\ NoLeak' /\ Labelled' /\ NodesAreNamed' /\ Apart'
  <2>1. TypeOK' /\ NoLeak' /\ Labelled' /\ NodesAreNamed'
    BY <1>1 DEF Inv, TypeOK, NoLeak, Left, Free, Labelled, NodesAreNamed, Nameless
  <2>2. \A v \in Worker, n \in Node : Acting(v, n)' => Acting(v, n)
    BY <1>1 DEF Acting, Idle
  <2>3. Apart'
    BY <1>1, <2>2 DEF Inv, Apart
  <2>4. QED
    BY <2>1, <2>3
<1>3. ASSUME NEW w \in Worker PROVE Works(w)' /\ Keeps(w)'
  <2>1. CASE op'[w] = op[w]
    <3>1. Alone(w)' => Alone(w)
      BY <1>1, <2>1 DEF Alone, Acting, Free
    <3>2. Same(op[w].node)
      BY <1>1 DEF Same
    <3>3. QED
      BY <2>1, <3>1, <3>2, Others
  <2>2. CASE op'[w] = Idle
    BY <2>2 DEF Works, Keeps, Alone
  <2>3. QED
    BY <1>1, <2>1, <2>2
<1>4. QED
  BY <1>2, <1>3 DEF Inv

-----------------------------------------------------------------------------
(* The calls of a session *)

(* A call, as Write takes it: the k-th of the session of x, which goes on with y. *)
Call(w, x, k, step, y) ==
    /\ op[w] = x /\ x # Idle /\ x \in Op /\ x.pc = "do" /\ w \in Worker
    /\ k \in 1 .. 5 /\ x.rest = Rest(x.act, k) /\ step = Steps(x.act)[k]
    /\ Len(x.rest) = 6 - k /\ (k = 1 <=> x.rest = Steps(x.act))
    /\ op' = [op EXCEPT ![w] = y]
    /\ IF k = 5 THEN y = Idle
       ELSE y = [x EXCEPT !.rest = Rest(x.act, k + 1)]
    /\ node' = IF step = "node" THEN Set(node, x.node, NodeLabels(x.node, x)) ELSE node
    /\ LET here == IF x.act = "login" THEN x.node ELSE None
       IN  /\ ns' = IF step = "ns" THEN Set(ns, x.user, here) ELSE ns
           /\ user' = IF step = "user" THEN Set(user, x.user, here) ELSE user
           /\ box' = IF step = "box" THEN Set(box, x.node, NodeLabels(x.node, x).user) ELSE box
           /\ desktop' = IF step = "desktop" THEN Set(desktop, x.user, here) ELSE desktop
    /\ UNCHANGED <<raced, bind, due, spent>>

LEMMA WriteIsCall ==
  ASSUME Inv, NEW w \in Worker, Write(w)
  PROVE  \/ /\ op[w] # Idle /\ op' = [op EXCEPT ![w] = Idle]
            /\ UNCHANGED <<node, ns, user, box, desktop, raced, bind, due, spent>>
         \/ \E k \in 1 .. 5, y \in Op \union {Idle} : Call(w, op[w], k, Steps(op[w].act)[k], y)
<1> DEFINE x == op[w]
<1>1. x.pc = "do" /\ x # Idle /\ x \in Op /\ x.act \in {"login", "logout"}
  BY NotIdle, Doing DEF Write, Inv
<1>2. PICK k \in 1 .. 5 : x.rest = Rest(x.act, k)
  BY <1>1 DEF Inv, Works, WorksOn
<1>3. /\ Len(x.rest) = 6 - k /\ Head(x.rest) = Steps(x.act)[k]
      /\ (k < 5 => Tail(x.rest) = Rest(x.act, k + 1)) /\ (k = 1 <=> x.rest = Steps(x.act))
  BY <1>2, RestProps
<1>4. CASE ~Written(x)
  <2>1. Head(x.rest) \in {"user", "ns"}
    BY <1>4 DEF Written
  <2>2. op' = [op EXCEPT ![w] = Idle] /\ UNCHANGED <<node, ns, user, box, desktop, raced, bind, due, spent>>
    BY <1>1, <1>4 DEF Write, Go
  <2>3. QED
    BY <1>1, <2>2
<1>5. CASE Written(x)
  <2> DEFINE step == Head(x.rest)
             y == IF k = 5 THEN Idle ELSE [x EXCEPT !.rest = Rest(x.act, k + 1)]
  <2>1. step # "none"
    BY <1>1, <1>3, StepsAre
  <2>2. op' = [op EXCEPT ![w] = y]
    <3>1. op' = [op EXCEPT ![w] = IF Len(x.rest) = 1 THEN Idle ELSE [x EXCEPT !.rest = Tail(@)]]
      BY <1>5, <2>1 DEF Write, Go
    <3>2. Len(x.rest) = 1 <=> k = 5
      BY <1>3
    <3>3. k # 5 => [x EXCEPT !.rest = Tail(@)] = [x EXCEPT !.rest = Rest(x.act, k + 1)]
      <4>1. k # 5 => Tail(x.rest) = Rest(x.act, k + 1)
        BY <1>3
      <4> HIDE DEF x
      <4>2. QED
        BY <4>1
    <3>4. QED
      BY <3>1, <3>2, <3>3
  <2>3. y \in Op \union {Idle}
    <3>1. CASE k = 5
      BY <3>1
    <3>2. CASE k # 5
      <4>1. k + 1 \in 1 .. 6
        OBVIOUS
      <4>2. Rest(x.act, k + 1) \in {SubSeq(CreateSteps, j, 5) : j \in 1 .. 6}
                                  \union {SubSeq(DeleteSteps, j, 5) : j \in 1 .. 6}
        BY <4>1 DEF Rest, Steps
      <4>3. QED
        BY <1>1, <3>2, <4>2 DEF Op
    <3>3. QED
      BY <3>1, <3>2
  <2>4. Call(w, x, k, Steps(x.act)[k], y)
    <3>1. UNCHANGED <<raced, bind, due, spent>>
      BY DEF Write, Go
    <3>2. IF k = 5 THEN y = Idle ELSE y = [x EXCEPT !.rest = Rest(x.act, k + 1)]
      OBVIOUS
    <3> HIDE DEF y
    <3>3. QED
      BY <1>1, <1>2, <1>3, <1>5, <2>1, <2>2, <3>1, <3>2 DEF Write, Call
  <2>5. QED
    BY <2>3, <2>4
<1>6. QED
  BY <1>4, <1>5

(* What a call leaves where: its own label, and nothing else. *)
LEMMA CallFacts ==
  ASSUME Inv, NEW w, NEW x, NEW k, NEW step, NEW y \in Op \union {Idle}, Call(w, x, k, step, y)
  PROVE  /\ x.node \in Node /\ x.user \in User \union {Empty} /\ x.act \in {"login", "logout"}
         /\ x.act = "login" => x.user \in User
         /\ \A m \in Node : m # x.node \/ step # "node" => node'[m] = node[m]
         /\ step = "node" => /\ node'[x.node].on = (x.act = "login")
                             /\ node'[x.node].fresh = (x.act = "login")
                             /\ node'[x.node].user = IF x.act = "login" THEN x.user ELSE Empty
         /\ \A m \in Node : box'[m] = IF step = "box" /\ m = x.node
                                      THEN (IF x.act = "login" THEN x.user ELSE Empty) ELSE box[m]
         /\ LET here == IF x.act = "login" THEN x.node ELSE None
            IN  \A u \in User :
                  /\ ns'[u] = IF step = "ns" /\ u = x.user THEN here ELSE ns[u]
                  /\ user'[u] = IF step = "user" /\ u = x.user THEN here ELSE user[u]
                  /\ desktop'[u] = IF step = "desktop" /\ u = x.user THEN here ELSE desktop[u]
         /\ TypeOK'
<1>1. /\ x.node \in Node /\ x.user \in User \union {Empty} /\ x.act \in {"login", "logout"}
      /\ x.persistent \in BOOLEAN /\ (x.act = "login" => x.user \in User)
  BY DEF Call, Op, Inv, Works, WorksOn
<1>2. /\ node \in [Node -> Labels] /\ ns \in [User -> Node \union {None}]
      /\ user \in [User -> Node \union {None}] /\ box \in [Node -> User \union {None, Empty}]
      /\ desktop \in [User -> Node \union {None}] /\ op \in [Worker -> Op \union {Idle}]
  BY DEF Inv, TypeOK
<1> DEFINE l == NodeLabels(x.node, x)
           here == IF x.act = "login" THEN x.node ELSE None
<1>3. /\ l \in Labels /\ l.on = (x.act = "login") /\ l.fresh = (x.act = "login")
      /\ l.user = IF x.act = "login" THEN x.user ELSE Empty
  <2>1. node[x.node] \in Labels
    BY <1>1, <1>2
  <2>2. QED
    BY <1>1, <2>1 DEF NodeLabels, Labels
<1>4. here \in Node \union {None}
  BY <1>1
<1>5. /\ op' = [op EXCEPT ![w] = y] /\ UNCHANGED <<raced, bind, due, spent>>
      /\ node' = IF step = "node" THEN Set(node, x.node, l) ELSE node
      /\ ns' = IF step = "ns" THEN Set(ns, x.user, here) ELSE ns
      /\ user' = IF step = "user" THEN Set(user, x.user, here) ELSE user
      /\ box' = IF step = "box" THEN Set(box, x.node, l.user) ELSE box
      /\ desktop' = IF step = "desktop" THEN Set(desktop, x.user, here) ELSE desktop
  BY DEF Call
<1> HIDE DEF l, here
<1>6. /\ node' \in [Node -> Labels]
      /\ \A m \in Node : node'[m] = IF step = "node" /\ m = x.node THEN l ELSE node[m]
  BY <1>2, <1>3, <1>5 DEF Set
<1>7. /\ box' \in [Node -> User \union {None, Empty}]
      /\ \A m \in Node : box'[m] = IF step = "box" /\ m = x.node THEN l.user ELSE box[m]
  BY <1>1, <1>2, <1>3, <1>5 DEF Set
<1>8. /\ ns' \in [User -> Node \union {None}]
      /\ \A u \in User : ns'[u] = IF step = "ns" /\ u = x.user THEN here ELSE ns[u]
  BY <1>2, <1>4, <1>5 DEF Set
<1>9. /\ user' \in [User -> Node \union {None}]
      /\ \A u \in User : user'[u] = IF step = "user" /\ u = x.user THEN here ELSE user[u]
  BY <1>2, <1>4, <1>5 DEF Set
<1>10. /\ desktop' \in [User -> Node \union {None}]
       /\ \A u \in User : desktop'[u] = IF step = "desktop" /\ u = x.user THEN here ELSE desktop[u]
  BY <1>2, <1>4, <1>5 DEF Set
<1>11. op' \in [Worker -> Op \union {Idle}]
  BY <1>2, <1>5
<1>12. TypeOK'
  BY <1>5, <1>6, <1>7, <1>8, <1>9, <1>10, <1>11 DEF Inv, TypeOK
<1>13. \A m \in Node : m # x.node \/ step # "node" => node'[m] = node[m]
  BY <1>6
<1>14. step = "node" => /\ node'[x.node].on = (x.act = "login")
                        /\ node'[x.node].fresh = (x.act = "login")
                        /\ node'[x.node].user = IF x.act = "login" THEN x.user ELSE Empty
  BY <1>1, <1>3, <1>6
<1>15. \A m \in Node : box'[m] = IF step = "box" /\ m = x.node
                                 THEN (IF x.act = "login" THEN x.user ELSE Empty) ELSE box[m]
  BY <1>3, <1>7
<1>16. QED
  BY <1>1, <1>8, <1>9, <1>10, <1>12, <1>13, <1>14, <1>15 DEF here

(* Which call comes when. *)
LEMMA CallOrder ==
  ASSUME NEW w, NEW x, NEW k, NEW step, NEW y, Call(w, x, k, step, y)
  PROVE  /\ k \in 1 .. 5
         /\ x.act = "login" => (step = "node" <=> k = 1)
         /\ x.act = "logout" => /\ step = "desktop" <=> k = 1
                                /\ step = "box" <=> k = 2
                                /\ step = "user" <=> k = 3
                                /\ step = "ns" <=> k = 4
                                /\ step = "node" <=> k = 5
<1>1. k \in 1 .. 5 /\ step = Steps(x.act)[k]
  BY DEF Call
<1>2. k = 1 \/ k = 2 \/ k = 3 \/ k = 4 \/ k = 5
  BY <1>1
<1>3. QED
  BY <1>1, <1>2, StepsAre

LEMMA CallNoLeak ==
  ASSUME Inv, NEW w, NEW x, NEW k, NEW step, NEW y \in Op \union {Idle}, Call(w, x, k, step, y)
  PROVE  NoLeak'
<1>1. SUFFICES ASSUME NEW u \in User, NEW n \in Node, n \notin raced, Free(n),
                      n \in {ns'[u], user'[u], desktop'[u]} \/ box'[n] = u
               PROVE  node'[n].on /\ node'[n].user = u
  BY DEF NoLeak, Free, Left, Call
<1>2. /\ op[w] = x /\ x # Idle /\ x.pc = "do" /\ w \in Worker /\ Len(x.rest) = 6 - k
      /\ k \in 1 .. 5 /\ (k = 1 <=> x.rest = Steps(x.act))
  BY DEF Call
<1>3. n = x.node => Begun(w) /\ Seen(w) /\ Cleaned(w)
  BY <1>1, <1>2 DEF Inv, Keeps, Alone, Acting
<1>4. n \in {ns[u], user[u], desktop[u]} \/ box[n] = u => node[n].on /\ node[n].user = u
  BY <1>1 DEF Inv, NoLeak, Left
<1>5. None \notin Node /\ None \notin User /\ Empty \notin User /\ None # Empty
  BY VineAssumption
<1>6. CASE n # x.node
  <2>1. n \in {ns[u], user[u], desktop[u]} \/ box[n] = u
    BY <1>1, <1>5, <1>6, CallFacts
  <2>2. node'[n] = node[n]
    BY <1>6, CallFacts
  <2>3. QED
    BY <1>4, <2>1, <2>2
<1>7. CASE n = x.node /\ x.act = "login"
  <2>1. CASE k = 1
    <3>1. step = "node"
      BY <1>7, <2>1, CallOrder
    <3>2. n \in {ns[u], user[u], desktop[u]} \/ box[n] = u
      BY <1>1, <3>1, CallFacts
    <3>3. u = x.user
      BY <1>1, <1>2, <1>3, <1>4, <1>7, <3>2 DEF Seen
    <3>4. QED
      BY <1>7, <3>1, <3>3, CallFacts
  <2>2. CASE k # 1
    <3>1. step # "node"
      BY <1>7, <2>2, CallOrder
    <3>2. Starting(w, n)
      BY <1>2, <1>7, <2>2, StepsAre DEF Starting
    <3>3. node[n].on /\ node[n].user = x.user
      BY <1>1, <1>2, <1>3, <1>7, <3>2 DEF Begun
    <3>4. u # x.user => n \in {ns[u], user[u], desktop[u]} \/ box[n] = u
      BY <1>1, <1>7, CallFacts
    <3>5. u = x.user
      BY <1>4, <3>3, <3>4
    <3>6. QED
      BY <3>1, <3>3, <3>5, CallFacts
  <2>3. QED
    BY <2>1, <2>2
<1>8. CASE n = x.node /\ x.act = "logout"
  <2>1. n \in {ns[u], user[u], desktop[u]} \/ box[n] = u
    BY <1>1, <1>5, <1>8, CallFacts
  <2>2. u = x.user /\ node[n].on /\ node[n].user = u
    BY <1>1, <1>2, <1>3, <1>4, <1>8, <2>1 DEF Seen
  <2>3. k # 5
    <3>1. SUFFICES ASSUME k = 5 PROVE FALSE
      OBVIOUS
    <3>2. Len(x.rest) < 5 /\ Len(x.rest) < 4 /\ Len(x.rest) < 3 /\ Len(x.rest) < 2
      BY <1>2, <3>1
    <3>3. desktop[u] # n /\ box[n] \notin User /\ user[u] # n /\ ns[u] # n
      BY <1>2, <1>3, <1>8, <2>2, <3>2 DEF Cleaned
    <3>4. QED
      BY <1>5, <2>1, <3>3
  <2>4. node'[n] = node[n]
    BY <1>8, <2>3, CallFacts, CallOrder
  <2>5. QED
    BY <2>2, <2>4
<1>9. QED
  BY <1>6, <1>7, <1>8, CallFacts

LEMMA CallKeeps ==
  ASSUME Inv, NEW w, NEW x, NEW k, NEW step, NEW y \in Op \union {Idle}, Call(w, x, k, step, y)
  PROVE  Works(w)' /\ Keeps(w)'
<1>1. /\ op[w] = x /\ x # Idle /\ x.pc = "do" /\ w \in Worker /\ Len(x.rest) = 6 - k
      /\ k \in 1 .. 5 /\ (k = 1 <=> x.rest = Steps(x.act)) /\ x \in Op
      /\ x.rest = Rest(x.act, k) /\ raced' = raced
  BY DEF Call
<1>2. op'[w] = y
  BY <1>1 DEF Call, Inv, TypeOK
<1>3. CASE k = 5
  BY <1>2, <1>3 DEF Call, Works, Keeps, Alone
<1>4. CASE k # 5
  <2>1. y = [x EXCEPT !.rest = Rest(x.act, k + 1)]
    BY <1>4 DEF Call
  <2>2. /\ y.pc = "do" /\ y.act = x.act /\ y.user = x.user /\ y.node = x.node
        /\ y.rest = Rest(x.act, k + 1)
    BY <1>1, <2>1 DEF Op
  <2>3. k + 1 \in 1 .. 5 /\ k + 1 > 1 /\ 6 - (k + 1) = 5 - k
    BY <1>1, <1>4
  <2>4. Len(y.rest) = 5 - k
    BY <2>2, <2>3, RestProps
  <2>5. Works(w)'
    <3>1. Works(w)
      BY <1>1 DEF Inv
    <3>2. QED
      BY <1>1, <1>2, <2>2, <2>3, <3>1 DEF Works, WorksOn
  <2>6. ASSUME Alone(w) PROVE Begun(w)' /\ Seen(w)' /\ Cleaned(w)'
    <3>1. Begun(w) /\ Seen(w) /\ Cleaned(w)
      BY <1>1, <2>6 DEF Inv, Keeps
    <3>2. CASE x.act = "login"
      <4>1. CASE k = 1
        <5>1. step = "node"
          BY <3>2, <4>1, CallOrder
        <5>2. node'[x.node].on /\ node'[x.node].fresh /\ node'[x.node].user = x.user
          BY <3>2, <5>1, CallFacts
        <5>3. QED
          BY <1>2, <2>2, <3>2, <5>2 DEF Begun, Seen, Cleaned
      <4>2. CASE k # 1
        <5>1. step # "node"
          BY <3>2, <4>2, CallOrder
        <5>2. node'[x.node] = node[x.node]
          BY <5>1, CallFacts
        <5>3. Starting(w, x.node)
          BY <1>1, <3>2, <4>2, StepsAre DEF Starting
        <5>4. Begun(w)'
          BY <1>1, <1>2, <2>2, <3>1, <5>2, <5>3 DEF Begun, Free
        <5>5. Seen(w)'
          BY <1>1, <1>2, <2>2, <3>1, <5>2 DEF Seen, Free
        <5>6. Cleaned(w)'
          BY <1>2, <2>2, <3>2 DEF Cleaned
        <5>7. QED
          BY <5>4, <5>5, <5>6
      <4>3. QED
        BY <4>1, <4>2
    <3>3. CASE x.act = "logout"
      <4>1. step # "node"
        BY <1>4, <3>3, CallOrder
      <4>2. node'[x.node] = node[x.node]
        BY <4>1, CallFacts
      <4>3. Begun(w)'
        BY <1>2, <2>2, <3>3 DEF Begun, Starting
      <4>4. Seen(w)'
        BY <1>1, <1>2, <2>2, <3>1, <4>2 DEF Seen, Free
      <4>5. x.node \in Node /\ Empty \notin User /\ None # x.node
        BY CallFacts, VineAssumption
      <4>6. x.user \in User => desktop'[x.user] # x.node
        BY <1>1, <3>1, <3>3, <4>5, CallFacts, CallOrder DEF Cleaned
      <4>7. k >= 2 => box'[x.node] \notin User
        BY <1>1, <3>1, <3>3, <4>5, CallFacts, CallOrder DEF Cleaned
      <4>8. k >= 3 /\ x.user \in User => user'[x.user] # x.node
        BY <1>1, <3>1, <3>3, <4>5, CallFacts, CallOrder DEF Cleaned
      <4>9. k >= 4 /\ x.user \in User => ns'[x.user] # x.node
        BY <1>1, <3>1, <3>3, <4>5, CallFacts, CallOrder DEF Cleaned
      <4>10. Cleaned(w)'
        <5>1. (5 - k < 4 => k >= 2) /\ (5 - k < 3 => k >= 3) /\ (5 - k < 2 => k >= 4)
          BY <1>1
        <5>2. QED
          BY <1>2, <2>2, <2>4, <4>6, <4>7, <4>8, <4>9, <5>1 DEF Cleaned
      <4>11. QED
        BY <4>3, <4>4, <4>10
    <3>4. QED
      BY <3>2, <3>3, CallFacts
  <2>7. Alone(w)' => Alone(w)
    BY <1>1, <1>2, <2>2 DEF Alone, Acting, Free
  <2>8. QED
    BY <2>5, <2>6, <2>7 DEF Keeps
<1>5. QED
  BY <1>3, <1>4

LEMMA WriteInv ==
  ASSUME Inv, NEW w \in Worker, Write(w)
  PROVE  Inv'
<1>1. CASE /\ op[w] # Idle /\ op' = [op EXCEPT ![w] = Idle]
           /\ UNCHANGED <<node, ns, user, box, desktop, raced, bind, due, spent>>
  BY <1>1, GiveUp DEF Inv, TypeOK
<1>2. CASE \E k \in 1 .. 5, y \in Op \union {Idle} : Call(w, op[w], k, Steps(op[w].act)[k], y)
  <2>1. PICK k \in 1 .. 5, y \in Op \union {Idle} : Call(w, op[w], k, Steps(op[w].act)[k], y)
    BY <1>2
  <2> DEFINE x == op[w]
             step == Steps(op[w].act)[k]
  <2>2. Call(w, x, k, step, y)
    BY <2>1
  <2>3. op[w] # Idle /\ raced' = raced /\ op' = [op EXCEPT ![w] = y]
        /\ (y # Idle => y.user = x.user /\ y.node = x.node)
    <3>1. x \in Op
      BY <2>2 DEF Call
    <3>2. QED
      BY <2>2, <3>1 DEF Call, Op
  <2> HIDE DEF step
  <2>4. \A v \in Worker \ {w} : op'[v] = op[v]
    BY <2>3 DEF Inv, TypeOK
  <2>5. op'[w] = y
    BY <2>3 DEF Inv, TypeOK
  <2>6. Acting(w, x.node) /\ x.node \in Node
    <3>1. x.node \in Node
      BY <2>2, CallFacts
    <3>2. x.pc = "do"
      BY <2>2 DEF Call
    <3>3. QED
      BY <3>1, <3>2 DEF Acting
  <2>7. ASSUME NEW v \in Worker \ {w} PROVE Works(v)' /\ Keeps(v)'
    <3>1. ASSUME Alone(v)' PROVE Alone(v) /\ Same(op[v].node)
      <4>1. Alone(v) /\ op[v].node \in Node
        BY <2>3, <2>4, <3>1, Doing DEF Alone, Acting, Free, Inv
      <4>2. op[v].node # x.node
        BY <2>6, <4>1 DEF Alone, Apart, Inv
      <4>3. None # op[v].node
        BY <4>1, VineAssumption
      <4>4. Same(op[v].node)
        BY <2>2, <4>1, <4>2, <4>3, CallFacts DEF Same
      <4>5. QED
        BY <4>1, <4>4
    <3>2. QED
      BY <2>4, <3>1, Others
  <2>8. Works(w)' /\ Keeps(w)'
    BY <2>2, CallKeeps
  <2>9. Apart'
    <3>1. \A v \in Worker, n \in Node : Acting(v, n)' => Acting(v, n)
      BY <2>3, <2>4, <2>5, <2>6 DEF Acting, Idle
    <3>2. QED
      BY <2>3, <3>1 DEF Inv, Apart
  <2>10. Labelled'
    <3>1. None \notin User /\ None # Empty
      BY VineAssumption
    <3>2. QED
      BY <2>2, <3>1, CallFacts DEF Inv, Labelled
  <2>11. NodesAreNamed'
    <3>1. SUFFICES ASSUME NEW n \in Node, Free(n), node'[n].on PROVE node'[n].user \in User
      BY DEF NodesAreNamed, Nameless, Free
    <3>2. QED
      BY <2>2, <3>1, CallFacts DEF Inv, NodesAreNamed, Nameless
  <2>12. NoLeak' /\ TypeOK'
    BY <2>2, CallNoLeak, CallFacts
  <2>13. QED
    BY <2>7, <2>8, <2>9, <2>10, <2>11, <2>12 DEF Inv
<1>3. QED
  BY <1>1, <1>2, WriteIsCall

-----------------------------------------------------------------------------
(* All of the operators and requests together *)

(* A step of a session, whoever takes it. *)
LEMMA SessionInv ==
  ASSUME Inv, NEW w \in Worker, Session(w)
  PROVE  Inv'
<1>1. CASE ReadUser(w)
  BY <1>1, ReadUserInv
<1>2. CASE ReadNode(w)
  BY <1>2, ReadNodeInv
<1>3. CASE ReadBindings(w)
  BY <1>3, ReadBindingsInv
<1>4. CASE Write(w)
  BY <1>4, WriteInv
<1>5. QED
  BY <1>1, <1>2, <1>3, <1>4 DEF Session

LEMMA StutterInv == Inv /\ UNCHANGED vars => Inv'
<1>1. SUFFICES ASSUME Inv, UNCHANGED vars PROVE Inv'
  OBVIOUS
<1>2. bind' \in [Binding -> Expiry \union {None}] /\ due' \subseteq Binding /\ spent' \in 0 .. Limit
  BY <1>1 DEF vars, Inv, TypeOK
<1>3. QED
  BY <1>1, <1>2, BindingsInv DEF vars

LEMMA StepInv == Inv /\ [Next]_vars => Inv'
<1>1. SUFFICES ASSUME Inv, [Next]_vars PROVE Inv'
  OBVIOUS
<1>2. CASE \E c \in Client : \/ \E act \in {"login", "logout"}, u \in User, n \in Node : Request(c, act, u, n)
                             \/ Session(c)
  BY <1>1, <1>2, RequestInv, SessionInv, Workers
<1>3. CASE \E n \in Node : UserSession(n) \/ Tick(n) \/ Dies(n) \/ Returns(n)
  <2>1. PICK n \in Node : UserSession(n) \/ Tick(n) \/ Dies(n) \/ Returns(n)
    BY <1>3
  <2>2. CASE UserSession(n)
    BY <1>1, <2>2, ReconcileInv, ExistsInv, SessionInv, Workers DEF UserSession
  <2>3. QED
    BY <1>1, <2>1, <2>2, TickInv, DiesReturnsInv
<1>4. CASE \E b \in Binding : \/ UserBoxBinding(b) \/ Unbind(b) \/ Expire(b)
                              \/ \E e \in Expiry : Bind(b, e)
  <2>1. PICK b \in Binding : \/ UserBoxBinding(b) \/ Unbind(b) \/ Expire(b)
                             \/ \E e \in Expiry : Bind(b, e)
    BY <1>4
  <2>2. CASE UserBoxBinding(b)
    BY <1>1, <2>2, ReconcileBindingInv, GetNodeInv, UpdateNodeAutologinInv, SessionInv, Workers
       DEF UserBoxBinding
  <2>3. QED
    BY <1>1, <2>1, <2>2, UnbindInv, ExpireInv, BindInv
<1>5. CASE \E w \in Worker : Fail(w)
  BY <1>1, <1>5, FailInv
<1>6. CASE Restart
  BY <1>1, <1>6, RestartInv
<1>7. CASE UNCHANGED vars
  BY <1>1, <1>7, StutterInv
<1>8. QED
  BY <1>1, <1>2, <1>3, <1>4, <1>5, <1>6, <1>7 DEF Next

(* The invariant of the workers and the labels holds at all times. *)
THEOREM Invariance == Spec => []Inv
  BY InitInv, StepInv, PTL DEF Spec

(* Whatever call of SessionManager::create or delete fails, and however requests
   and operators overlap: all that is left of a session is on a node that is still
   labelled with its user, if no binding is for the node and nobody has read it
   while another was acting there. *)
THEOREM NothingLeaks == Spec => []Safe
<1>1. Inv => Safe
  BY DEF Inv, Safe
<1>2. QED
  BY <1>1, Invariance, PTL

-----------------------------------------------------------------------------
(* Whose sessions end *)

(* What a step may do to a node that no binding is for. *)
OwnStep ==
    \A n \in Node :
        LET u == node[n].user
        IN  Free(n) /\ n \notin raced /\ node[n].on /\ (node'[n].on => node'[n].user # u)
            => \E w \in Client \union {n} :
                  /\ op[w].pc = "do" /\ op[w].act = "logout"
                  /\ op[w].user = u /\ op[w].node = n
                  /\ ~Left(u, n) /\ ~node'[n].on

(* A node on which the user stays is none of its business. *)
LEMMA StaysOwn ==
  ASSUME \A n \in Node : Free(n) => node'[n].on = node[n].on /\ node'[n].user = node[n].user
  PROVE  OwnStep
  BY DEF OwnStep

(* The call that takes a user off a node is the last one of a logout, of his own or
   the operator's, and has all of the session behind it. *)
LEMMA WriteOwn ==
  ASSUME Inv, NEW w \in Worker, Write(w)
  PROVE  OwnStep
<1>1. CASE node' = node
  BY <1>1, StaysOwn
<1>2. CASE \E k \in 1 .. 5, y \in Op \union {Idle} : Call(w, op[w], k, Steps(op[w].act)[k], y)
  <2>1. PICK k \in 1 .. 5, y \in Op \union {Idle} : Call(w, op[w], k, Steps(op[w].act)[k], y)
    BY <1>2
  <2> DEFINE x == op[w]
             step == Steps(op[w].act)[k]
  <2>2. Call(w, x, k, step, y)
    BY <2>1
  <2>3. x.pc = "do" /\ x # Idle /\ Len(x.rest) = 6 - k /\ WorksOn(w, x)
    BY <2>2 DEF Call, Inv, Works
  <2> HIDE DEF step
  <2>4. SUFFICES ASSUME NEW n \in Node, Free(n), n \notin raced, node[n].on,
                        node'[n].on => node'[n].user # node[n].user
                 PROVE  \E v \in Client \union {n} :
                           /\ op[v].pc = "do" /\ op[v].act = "logout"
                           /\ op[v].user = node[n].user /\ op[v].node = n
                           /\ ~Left(node[n].user, n) /\ ~node'[n].on
    BY DEF OwnStep
  <2>5. n = x.node /\ step = "node"
    BY <2>2, <2>4, CallFacts
  <2>6. Begun(w) /\ Seen(w) /\ Cleaned(w)
    BY <2>3, <2>4, <2>5 DEF Inv, Keeps, Alone, Acting
  <2>7. node[n].user = x.user /\ node[n].user \in User
    <3>1. node[n].user = x.user
      BY <2>4, <2>5, <2>6 DEF Seen
    <3>2. node[n].user \in User
      BY <2>4 DEF Inv, NodesAreNamed, Nameless
    <3>3. QED
      BY <3>1, <3>2
  <2>8. x.act = "logout" /\ ~node'[n].on
    <3>1. /\ x.act \in {"login", "logout"} /\ node'[n].on = (x.act = "login")
          /\ node'[n].user = IF x.act = "login" THEN x.user ELSE Empty
      BY <2>2, <2>5, CallFacts
    <3>2. x.act # "login"
      BY <2>4, <2>7, <3>1
    <3>3. QED
      BY <3>1, <3>2
  <2>9. k = 5
    BY <2>2, <2>5, <2>8, CallOrder
  <2>10. Len(x.rest) < 5 /\ Len(x.rest) < 4 /\ Len(x.rest) < 3 /\ Len(x.rest) < 2
    BY <2>3, <2>9
  <2>11. ~Left(node[n].user, n)
    BY <2>3, <2>5, <2>6, <2>7, <2>8, <2>10 DEF Cleaned, Left
  <2>12. w \in Client \union {n}
    BY <2>3, <2>4, <2>5 DEF WorksOn, Worker, Free
  <2>13. QED
    BY <2>3, <2>5, <2>7, <2>8, <2>11, <2>12
<1>3. QED
  BY <1>1, <1>2, WriteIsCall

(* The automatic login takes over the node of its binding, which is no free one. *)
LEMMA UpdateOwn ==
  ASSUME Inv, NEW b \in Binding, UpdateNodeAutologin(b)
  PROVE  OwnStep
<1>1. b \in Worker /\ op[b] # Idle /\ op[b].node = b.node
  BY NotIdle, Workers DEF Inv, Works, WorksOn, UpdateNodeAutologin
<1>2. \A n \in Node : n # b.node => node'[n] = node[n]
  BY <1>1 DEF UpdateNodeAutologin, Inv, TypeOK
<1>3. QED
  BY <1>2, StaysOwn DEF Free

(* The five seconds, and what becomes of the machine, leave the user there. *)
LEMMA NodeOwn ==
  ASSUME Inv, NEW n \in Node, Tick(n) \/ Dies(n) \/ Returns(n)
  PROVE  OwnStep
<1>1. node[n] \in Labels /\ node \in [Node -> Labels]
  BY DEF Inv, TypeOK
<1>2. \A m \in Node : m # n => node'[m] = node[m]
  BY <1>1 DEF Tick, Dies, Returns
<1>3. node'[n].user = node[n].user /\ node'[n].on = node[n].on
  BY <1>1 DEF Tick, Dies, Returns, Labels
<1>4. QED
  BY <1>2, <1>3, StaysOwn

LEMMA SessionOwn ==
  ASSUME Inv, NEW w \in Worker, Session(w)
  PROVE  OwnStep
<1>1. CASE ReadUser(w) \/ ReadNode(w) \/ ReadBindings(w)
  BY <1>1, StaysOwn DEF ReadUser, ReadNode, ReadBindings, labels
<1>2. QED
  BY <1>1, WriteOwn DEF Session

LEMMA StepOwn == Inv /\ [Next]_vars => OwnStep
<1>1. SUFFICES ASSUME Inv, [Next]_vars PROVE OwnStep
  OBVIOUS
<1>2. CASE \E c \in Client : \/ \E act \in {"login", "logout"}, u \in User, n \in Node : Request(c, act, u, n)
                             \/ Session(c)
  BY <1>1, <1>2, SessionOwn, StaysOwn, Workers DEF Request, labels
<1>3. CASE \E n \in Node : UserSession(n) \/ Tick(n) \/ Dies(n) \/ Returns(n)
  <2>1. PICK n \in Node : UserSession(n) \/ Tick(n) \/ Dies(n) \/ Returns(n)
    BY <1>3
  <2>2. CASE Reconcile(n) \/ Exists(n)
    BY <2>2, StaysOwn DEF Reconcile, Exists, labels
  <2>3. CASE Session(n)
    BY <1>1, <2>3, SessionOwn, Workers
  <2>4. QED
    BY <1>1, <2>1, <2>2, <2>3, NodeOwn DEF UserSession
<1>4. CASE \E b \in Binding : \/ UserBoxBinding(b) \/ Unbind(b) \/ Expire(b)
                              \/ \E e \in Expiry : Bind(b, e)
  <2>1. PICK b \in Binding : \/ UserBoxBinding(b) \/ Unbind(b) \/ Expire(b)
                             \/ \E e \in Expiry : Bind(b, e)
    BY <1>4
  <2>2. CASE ReconcileBinding(b) \/ GetNode(b) \/ Unbind(b) \/ Expire(b) \/ \E e \in Expiry : Bind(b, e)
    BY <2>2, StaysOwn DEF ReconcileBinding, GetNode, Unbind, Expire, Bind, labels
  <2>3. CASE Session(b)
    BY <1>1, <2>3, SessionOwn, Workers
  <2>4. QED
    BY <1>1, <2>1, <2>2, <2>3, UpdateOwn DEF UserBoxBinding
<1>5. CASE (\E w \in Worker : Fail(w)) \/ Restart \/ UNCHANGED vars
  BY <1>5, StaysOwn DEF Fail, Restart, vars, labels
<1>6. QED
  BY <1>1, <1>2, <1>3, <1>4, <1>5 DEF Next

(* execute_with and the operators: from a node that no binding is for, and that
   nobody has read while another was acting there, only its own user and the
   node's operator take a session, after everything else of it; nobody takes the
   node over. *)
THEOREM OwnSessions == Spec => SessionsAreOwn
<1>1. Inv /\ [Next]_vars => [OwnStep]_vars
  BY StepOwn
<1>2. Spec => [][OwnStep]_vars
  BY <1>1, Invariance, PTL DEF Spec
<1>3. QED
  BY <1>2 DEF OwnStep, SessionsAreOwn

-----------------------------------------------------------------------------
(* Requests. *)

(* What a request that comes with a known user gets. *)
Granted(c, key, n) ==
    IF n.ok THEN Accept(SessionOf(c, key, UserRole(c, PreferredName(c, key), 1), n.value, 1)) ELSE n
Known(c, key) == "users" \notin c.fails /\ key \in DOMAIN c.users
Wanted(c, key, r) ==
    RequestNamespace(r, PreferredName(c, key), UserRole(c, PreferredName(c, key), 1))

LEMMA FromRequestIs ==
  ASSUME NEW c, NEW r
  PROVE  LET k == Then(UserToken(r), UserName)
         IN  FromRequest(c, r, 1)
                = IF ~k.ok THEN k
                  ELSE IF Known(c, k.value) THEN Granted(c, k.value, Wanted(c, k.value, r))
                  ELSE Deny("UserNotRegistered")
BY DEF FromRequest, Then, Known, Granted, Wanted

(* namespaced and from_request_with_timestamp: whatever is in the lists and in the
   request, a namespace that is asked for later is given exactly if it would have
   been given with the request, and the session is then the same.             *)
THEOREM NamespacesAreOne ==
  ASSUME NEW Header, NEW Token, NEW Name,
         Requests \subseteq [authorization : Header, claims : Token, namespace : Name]
  PROVE  NamespacesAgree
<1> SUFFICES ASSUME NEW c \in Clusters, NEW r \in Requests, r.namespace # {<<"unreadable">>},
                    FromRequest(c, [r EXCEPT !.namespace = {}], 1).ok
             PROVE  LET s == FromRequest(c, [r EXCEPT !.namespace = {}], 1)
                        later == Namespaced(s.value, r.namespace)
                        once == FromRequest(c, r, 1)
                    IN  later.ok = once.ok /\ (once.ok => later = once)
  BY DEF NamespacesAgree
<1>1. PICK bare : bare = [r EXCEPT !.namespace = {}]
  OBVIOUS
<1>2. /\ bare.namespace = {}
      /\ bare.authorization = r.authorization
      /\ bare.claims = r.claims
  BY <1>1
<1>3. PICK k : k = Then(UserToken(r), UserName)
  OBVIOUS
<1>4. k = Then(UserToken(bare), UserName)
  <2>1. UserToken(bare) = UserToken(r)
    BY <1>2 DEF UserToken
  <2>2. QED
    BY <1>3, <2>1 DEF Then
<1>5. /\ FromRequest(c, r, 1)
             = IF ~k.ok THEN k
               ELSE IF Known(c, k.value) THEN Granted(c, k.value, Wanted(c, k.value, r))
               ELSE Deny("UserNotRegistered")
      /\ FromRequest(c, bare, 1)
             = IF ~k.ok THEN k
               ELSE IF Known(c, k.value) THEN Granted(c, k.value, Wanted(c, k.value, bare))
               ELSE Deny("UserNotRegistered")
  <2>1. k = Then(UserToken(r), UserName) /\ k = Then(UserToken(bare), UserName)
    BY <1>3, <1>4
  <2>2. QED
    BY <2>1, FromRequestIs
<1>6. FromRequest(c, bare, 1).ok
  BY <1>1
<1>7. k.ok /\ Known(c, k.value)
  BY <1>5, <1>6 DEF Deny
<1>8. PICK name : name = PreferredName(c, k.value)
  OBVIOUS
<1>9. PICK role : role = UserRole(c, PreferredName(c, k.value), 1)
  OBVIOUS
<1>10. PICK own : own = SessionOf(c, k.value, role, NamespaceOf(name), 1)
  OBVIOUS
<1>11. PICK given : given = CheckNamespace(r.namespace, name, role)
  OBVIOUS
<1>12. FromRequest(c, bare, 1) = Accept(own)
  <2>1. Wanted(c, k.value, bare) = Accept(NamespaceOf(name))
    BY <1>2, <1>8, <1>9 DEF Wanted, RequestNamespace, CheckNamespace
  <2>2. QED
    BY <1>5, <1>7, <1>9, <1>10, <2>1 DEF Granted, Accept
<1>13. FromRequest(c, r, 1)
          = IF given.ok THEN Accept(SessionOf(c, k.value, role, given.value, 1)) ELSE given
  <2>1. Wanted(c, k.value, r) = given
    BY <1>8, <1>9, <1>11 DEF Wanted, RequestNamespace
  <2>2. QED
    BY <1>5, <1>7, <1>9, <2>1 DEF Granted
<1>14. own.user_name = name /\ own.role = role
  BY <1>8, <1>10 DEF SessionOf
<1>15. \A n : [own EXCEPT !.namespace = n] = SessionOf(c, k.value, role, n, 1)
  BY <1>10 DEF SessionOf
<1>16. Namespaced(own, r.namespace)
          = IF given.ok THEN Accept([own EXCEPT !.namespace = given.value]) ELSE given
  BY <1>11, <1>14 DEF Namespaced, Then
<1>17. Namespaced(own, r.namespace) = FromRequest(c, r, 1)
  BY <1>13, <1>15, <1>16
<1>18. FromRequest(c, bare, 1).value = own
  BY <1>12 DEF Accept
<1>19. QED
  BY <1>1, <1>17, <1>18
=============================================================================
