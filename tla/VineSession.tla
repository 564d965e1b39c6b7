---------------------------- MODULE VineSession ----------------------------
(***************************************************************************)
(* Sessions of vine (crates/vine): a user's desktop on a node.  A session  *)
(* is a set of labels, on the node, the user's namespace, the user and the *)
(* box, and the objects of a template; creating and deleting it writes them *)
(* one after the other, each in a request that can fail.  Logins and logouts *)
(* come from users, an operator cleans nodes up, and another one logs users *)
(* in where a binding says so.                                             *)
(***************************************************************************)
EXTENDS Naturals, Sequences

CONSTANTS
    User,
    Node,
    Binding,   \* records [user, node, autologin]
    Client,    \* the requests to the bastion that can be under way at once
    Quota,     \* the pairs <<user, node>> with a quota that fits the node
    None,
    Empty,     \* what a label reads that has been written as null
    Limit      \* how many disturbances there are: requests, failed calls,
               \* nodes that die, bindings that are edited, restarts

ASSUME VineAssumption ==
    /\ Binding \subseteq [user : User, node : Node, autologin : BOOLEAN]
    /\ Quota \subseteq User \X Node
    /\ None \notin User \union Node \union {Empty} /\ Empty \notin User \union Node
    /\ Client \intersect (Node \union Binding) = {} /\ Node \intersect Binding = {}
    /\ Limit \in Nat

VARIABLES
    node,     \* node[n]: the labels of a node, and whether it is ready
    ns,       \* ns[u]: the node the namespace of u is labelled with
    user,     \* user[u]: the node u is labelled with
    box,      \* box[n]: the user the box of n is labelled with
    desktop,  \* desktop[u]: the node the objects of u's template ask for
    bind,     \* bind[b]: whether a binding is there, and when it expires
    due,      \* the bindings to reconcile: a change, a timer, a restart
    op,       \* op[w]: what worker w is doing
    raced,    \* the nodes at which two workers have acted at once
    spent

vars == <<node, ns, user, box, desktop, bind, due, op, raced, spent>>
labels == <<node, ns, user, box, desktop>>

Worker == Client \union Node \union Binding
Labels == [user : User \union {None, Empty}, on : BOOLEAN, persistent : BOOLEAN,
           fresh : BOOLEAN, ready : BOOLEAN]
Expiry == {"never", "future", "past"}

Idle == [pc |-> "idle"]

(* create and delete: the requests of a session in their order.  The label of
   the node is the first to be written and the last to be removed. *)
CreateSteps == <<"node", "ns", "user", "box", "desktop">>

(* Mutant: the node is given back before the rest is cleaned up. *)
DeleteNodeFirst == <<"node", "desktop", "box", "user", "ns">>

DeleteSteps == <<"desktop", "box", "user", "ns", "node">>
Steps(act) == IF act = "login" THEN CreateSteps ELSE DeleteSteps

Op == [pc : {"user", "node", "bindings", "do", "exists", "get", "update"},
       act : {"login", "logout"}, user : User \union {Empty}, node : Node,
       persistent : BOOLEAN, rest : {SubSeq(CreateSteps, k, 5) : k \in 1 .. 6}
                                \union {SubSeq(DeleteSteps, k, 5) : k \in 1 .. 6}]

Init ==
    /\ node = [n \in Node |-> [user |-> None, on |-> FALSE, persistent |-> FALSE,
                               fresh |-> FALSE, ready |-> TRUE]]
    /\ ns = [u \in User |-> None]
    /\ user = [u \in User |-> None]
    /\ box = [n \in Node |-> None]
    /\ desktop = [u \in User |-> None]
    /\ bind = [b \in Binding |-> None]
    /\ due = {}
    /\ op = [w \in Worker |-> Idle]
    /\ raced = {}
    /\ spent = 0

Disturb == spent < Limit /\ spent' = spent + 1

-----------------------------------------------------------------------------
(* Who is at what *)

(* A worker acts at a node from the moment it has read whose session is there. *)
Acting(w, n) == op[w].pc \in {"bindings", "do", "exists"} /\ op[w].node = n

(* A login that has labelled its node: for five seconds the operator takes the
   session for one that is starting. *)
Starting(w, n) ==
    /\ op[w].pc = "do" /\ op[w].act = "login" /\ op[w].node = n
    /\ op[w].rest # CreateSteps

(* What a session has put on a node, but for the label of the node itself. *)
Left(u, n) == n \in {ns[u], user[u], desktop[u]} \/ box[n] = u
Quiet(n) == ~node[n].on /\ \A u \in User : ~Left(u, n)

(* Whoever reads a node while another acts there has raced with it, until the
   node is read with nothing on it and nobody at it. *)
Decide(w, x) ==
    LET n == x.node
    IN  /\ op' = [op EXCEPT ![w] = x]
        /\ raced' = IF \E v \in Worker \ {w} : Acting(v, n) THEN raced \union {n}
                    ELSE IF Quiet(n) THEN raced \ {n} ELSE raced

Go(w, x) == op' = [op EXCEPT ![w] = x] /\ UNCHANGED raced

-----------------------------------------------------------------------------
(* is_allocable, assert_allocable *)

Allocation(on, by, at, n, u) ==
    CASE ~on                        -> "NotAllocated"
      [] on /\ n # None /\ at # n   -> "AllocatedByOtherNode"
      [] on /\ ~(n # None /\ at # n) /\ by \notin {None, u} -> "AllocatedByOtherUser"
      [] OTHER                      -> "AllocatedByMyself"

(* Mutant: the labels of the node are not looked at. *)
AnyAllocable(on, by, at, n, u) == TRUE

Allocable(on, by, at, n, u) ==
    Allocation(on, by, at, n, u) \in {"AllocatedByMyself", "NotAllocated"}

-----------------------------------------------------------------------------
(* execute_with *)

Request(c, act, u, n) ==
    /\ op[c] = Idle
    /\ Disturb
    /\ Go(c, [pc |-> "user", act |-> act, user |-> u, node |-> n,
              persistent |-> FALSE, rest |-> Steps(act)])
    /\ UNCHANGED <<labels, bind, due>>

(* The labels of the user are checked for no node: they say that he is himself. *)
ReadUser(w) ==
    /\ op[w].pc = "user"
    /\ LET u == op[w].user
       IN  Go(w, IF Allocable(user[u] # None, u, user[u], None, u)
                 THEN [op[w] EXCEPT !.pc = "node"] ELSE Idle)
    /\ UNCHANGED <<labels, bind, due, spent>>

ReadNode(w) ==
    /\ op[w].pc = "node"
    /\ LET n == op[w].node
       IN  IF Allocable(node[n].on, node[n].user, n, n, op[w].user)
           THEN Decide(w, [op[w] EXCEPT !.pc = "bindings", !.persistent = node[n].persistent])
           ELSE Go(w, Idle)
    /\ UNCHANGED <<labels, bind, due, spent>>

(* The bindings that count are those without an expiry, and those whose time is
   over. *)
Counts(b) == bind[b] \in {"never", "past"}
Reserved(u, n) ==
    LET bs == {b \in Binding : Counts(b) /\ b.node = n}
    IN  bs # {} /\ \A b \in bs : b.user # u

ReadBindings(w) ==
    /\ op[w].pc = "bindings"
    /\ LET u == op[w].user  n == op[w].node
       IN  Go(w, IF Reserved(u, n) \/ <<u, n>> \notin Quota THEN Idle
                 ELSE [op[w] EXCEPT !.pc = "do"])
    /\ UNCHANGED <<labels, bind, due, spent>>

-----------------------------------------------------------------------------
(* SessionManager::create, delete: one request of a session.  persistent is what
   the node said when it was read. *)

NodeLabels(n, x) ==
    [node[n] EXCEPT !.user = IF x.act = "login" THEN x.user ELSE Empty,
                    !.on = (x.act = "login"), !.fresh = (x.act = "login"),
                    !.persistent = x.persistent]

(* The label of a user without a name cannot be written. *)
Written(x) == x.user # Empty \/ Head(x.rest) \notin {"user", "ns"}
Set(f, k, v) == [a \in DOMAIN f |-> IF a = k THEN v ELSE f[a]]

Write(w) ==
    /\ op[w].pc = "do"
    /\ LET x == op[w]
           here == IF x.act = "login" THEN x.node ELSE None
           step == IF Written(x) THEN Head(x.rest) ELSE "none"
       IN  /\ node' = IF step = "node" THEN Set(node, x.node, NodeLabels(x.node, x)) ELSE node
           /\ ns' = IF step = "ns" THEN Set(ns, x.user, here) ELSE ns
           /\ user' = IF step = "user" THEN Set(user, x.user, here) ELSE user
           /\ box' = IF step = "box" THEN Set(box, x.node, NodeLabels(x.node, x).user) ELSE box
           /\ desktop' = IF step = "desktop" THEN Set(desktop, x.user, here) ELSE desktop
           /\ Go(w, IF step = "none" \/ Len(x.rest) = 1 THEN Idle ELSE [x EXCEPT !.rest = Tail(@)])
    /\ UNCHANGED <<bind, due, spent>>

(* A request fails, or its process ends: nobody cleans up (LOGOUT_ON_FAILED). *)
Fail(w) ==
    /\ op[w] # Idle
    /\ Disturb
    /\ Go(w, Idle)
    /\ UNCHANGED <<labels, bind, due>>

-----------------------------------------------------------------------------
(* The operator of sessions: a reconcile of a node, with the labels it had *)

Started(n) == node[n].on /\ node[n].user # None /\ ~node[n].fresh

Reconcile(n) ==
    /\ op[n] = Idle
    /\ ~node[n].persistent
    /\ Started(n)
    /\ Decide(n, [pc |-> IF node[n].ready THEN "exists" ELSE "do", act |-> "logout",
                  user |-> node[n].user, node |-> n, persistent |-> FALSE, rest |-> DeleteSteps])
    /\ UNCHANGED <<labels, bind, due, spent>>

(* Mutant: a node that answers keeps its session. *)
ExistsAlways(u) == TRUE

(* exists_template: objects are found by their names, whatever node they ask for *)
ExistsTemplate(u) == u # Empty /\ desktop[u] # None

Exists(n) ==
    /\ op[n].pc = "exists"
    /\ Go(n, IF ExistsTemplate(op[n].user) THEN Idle ELSE [op[n] EXCEPT !.pc = "do"])
    /\ UNCHANGED <<labels, bind, due, spent>>

(* Five seconds have passed since the node was labelled; the calls of a login
   take less. *)
Tick(n) ==
    /\ node[n].fresh
    /\ \A w \in Worker : ~Starting(w, n)
    /\ node' = [node EXCEPT ![n].fresh = FALSE]
    /\ UNCHANGED <<ns, user, box, desktop, bind, due, op, raced, spent>>

(* A node has not been ready for half an hour, or is back. *)
Dies(n) ==
    /\ node[n].ready
    /\ Disturb
    /\ node' = [node EXCEPT ![n].ready = FALSE]
    /\ UNCHANGED <<ns, user, box, desktop, bind, due, op, raced>>

Returns(n) ==
    /\ ~node[n].ready
    /\ node' = [node EXCEPT ![n].ready = TRUE]
    /\ UNCHANGED <<ns, user, box, desktop, bind, due, op, raced, spent>>

-----------------------------------------------------------------------------
(* The operator of bindings *)

(* An administrator makes a binding, or changes its expiry. *)
Bind(b, e) ==
    /\ bind[b] # e
    /\ Disturb
    /\ bind' = [bind EXCEPT ![b] = e]
    /\ due' = due \union {b}
    /\ UNCHANGED <<labels, op, raced>>

(* It is deleted: nothing reconciles it. *)
Unbind(b) ==
    /\ bind[b] # None
    /\ Disturb
    /\ bind' = [bind EXCEPT ![b] = None]
    /\ due' = due \ {b}
    /\ UNCHANGED <<labels, op, raced>>

Expire(b) ==
    /\ bind[b] = "future"
    /\ bind' = [bind EXCEPT ![b] = "past"]
    /\ UNCHANGED <<labels, due, op, raced, spent>>

(* is_expired: now < expired_timestamp *)
IsExpired(b) == bind[b] = "future"

(* A binding that is not "expired" is looked at again, one that is only when it
   changes. *)
Requeued(b) == ~IsExpired(b)

ReconcileBinding(b) ==
    /\ op[b] = Idle /\ b \in due
    /\ due' = IF Requeued(b) THEN due ELSE due \ {b}
    /\ LET act == IF b.autologin /\ ~IsExpired(b) THEN "login" ELSE "logout"
       IN  Go(b, [pc |-> "get", act |-> act, user |-> b.user, node |-> b.node,
                  persistent |-> FALSE, rest |-> Steps(act)])
    /\ UNCHANGED <<labels, bind, spent>>

PersistentBy(n, u) == node[n].persistent /\ node[n].user \in {u, Empty}

(* enable_autologin, disable_autologin: get_node *)
GetNode(b) ==
    /\ op[b].pc = "get"
    /\ LET n == op[b].node  mine == PersistentBy(n, op[b].user)
       IN  Go(b, IF mine \/ (op[b].act = "login" /\ ~node[n].persistent)
                 THEN [op[b] EXCEPT !.pc = "update"] ELSE Idle)
    /\ UNCHANGED <<labels, bind, due, spent>>

UpdateNodeAutologin(b) ==
    /\ op[b].pc = "update"
    /\ LET login == op[b].act = "login"
       IN  node' = [node EXCEPT ![op[b].node].user = IF login THEN op[b].user ELSE Empty,
                                ![op[b].node].persistent = login]
    /\ Go(b, [op[b] EXCEPT !.pc = "user"])
    /\ UNCHANGED <<ns, user, box, desktop, bind, due, spent>>

(* The operators start again: everything is reconciled. *)
Restart ==
    /\ Disturb
    /\ op' = [w \in Worker |-> IF w \in Client THEN op[w] ELSE Idle]
    /\ due' = {b \in Binding : bind[b] # None}
    /\ UNCHANGED <<labels, bind, raced>>

-----------------------------------------------------------------------------
Session(w) == ReadUser(w) \/ ReadNode(w) \/ ReadBindings(w) \/ Write(w)
UserSession(n) == Reconcile(n) \/ Exists(n) \/ Session(n)
UserBoxBinding(b) == ReconcileBinding(b) \/ GetNode(b) \/ UpdateNodeAutologin(b) \/ Session(b)

Next ==
    \/ \E c \in Client : \/ \E act \in {"login", "logout"}, u \in User, n \in Node : Request(c, act, u, n)
                         \/ Session(c)
    \/ \E n \in Node : UserSession(n) \/ Tick(n) \/ Dies(n) \/ Returns(n)
    \/ \E b \in Binding : \/ UserBoxBinding(b) \/ Unbind(b) \/ Expire(b)
                          \/ \E e \in Expiry : Bind(b, e)
    \/ \E w \in Worker : Fail(w)
    \/ Restart

Spec == Init /\ [][Next]_vars
LiveSpec ==
    /\ Spec
    /\ \A c \in Client : WF_vars(Session(c))
    /\ \A n \in Node : WF_vars(UserSession(n)) /\ WF_vars(Tick(n))
    /\ \A b \in Binding : WF_vars(UserBoxBinding(b))

-----------------------------------------------------------------------------
(* Every variable has the shape its Rust type, or label, gives it. *)
TypeOK ==
    /\ node \in [Node -> Labels]
    /\ ns \in [User -> Node \union {None}] /\ user \in [User -> Node \union {None}]
    /\ box \in [Node -> User \union {None, Empty}] /\ desktop \in [User -> Node \union {None}]
    /\ bind \in [Binding -> Expiry \union {None}] /\ due \subseteq Binding
    /\ op \in [Worker -> Op \union {Idle}]
    /\ raced \subseteq Node /\ spent \in 0 .. Limit

(* A node that no binding is for *)
Free(n) == \A b \in Binding : b.node # n

(* Whatever is left of a session, after any call of its creation or its deletion
   has failed, is on a node that is labelled with its user, where the operator
   and the next login find it.  Requests may overlap, and those of one user at
   several nodes act at once; excepted are nodes that an automatic login takes
   over, and those at which one worker has read the labels while another was
   acting on what it had read: nothing locks a node. *)
NoLeak ==
    \A u \in User, n \in Node :
        Free(n) /\ n \notin raced /\ Left(u, n) => node[n].on /\ node[n].user = u

(* A node that is on always names its user, unless a binding is for it. *)
Nameless(n) == node[n].on /\ node[n].user \notin User
NodesAreNamed == \A n \in Node : Free(n) => ~Nameless(n)

(* Types are right, nothing of a session is left where nobody looks for it, and
   no node is on for nobody. *)
Safe == TypeOK /\ NodesAreNamed /\ NoLeak

(* A node does not stay taken by a session whose desktop is gone, or whose node
   has died: however sessions have raced or failed, the operator gives it back,
   as long as the node names the user. *)
Stuck(n) ==
    /\ node[n].on /\ node[n].user \in User /\ ~node[n].persistent
    /\ ~node[n].ready \/ desktop[node[n].user] = None
NodesAreFreed == \A n \in Node : []<>~Stuck(n)

(* A node whose managed session a binding has logged out is free again.  It does
   not hold: the user is taken off the node's label first, and then every logout,
   the one that follows too, takes the node for somebody else's. *)
LoggedOutIsFree == \A n \in Node : []<>~(Nameless(n) /\ ~node[n].persistent)

(* A binding that stays, without an expiry, gets its user's desktop onto its node
   again and again, whoever has signed in there before, or wherever else the user
   does. *)
LoggedIn(b) ==
    node[b.node].on /\ node[b.node].user = b.user /\ desktop[b.user] = b.node
AutoLogsIn ==
    \A b \in Binding : <>[](bind[b] = "never") /\ b.autologin => []<>LoggedIn(b)

(* Nodes neither stay with users who have left nor keep out those who come. *)
NodesFollowUsers == NodesAreFreed /\ AutoLogsIn

(* A session is taken off a node, with no binding for the node, only by a request
   of its own user or by the operator of that node, in a logout that has taken
   everything else of the session away before, and nobody takes the node over
   from it.  Requests may overlap; excepted are nodes that one worker has read
   while another was acting there. *)
SessionsAreOwn ==
    [][\A n \in Node :
          LET u == node[n].user
          IN  Free(n) /\ n \notin raced /\ node[n].on /\ (node'[n].on => node'[n].user # u)
              => \E w \in Client \union {n} :
                    /\ op[w].pc = "do" /\ op[w].act = "logout"
                    /\ op[w].user = u /\ op[w].node = n
                    /\ ~Left(u, n) /\ ~node'[n].on]_vars

(* A binding whose time is over does not switch the automatic login on.  It does
   not hold: the comparison of the times is the wrong way round. *)
ExpiredStaysOff ==
    [][\A b \in Binding : op[b] = Idle /\ op'[b] # Idle /\ bind[b] = "past" => op'[b].act = "logout"]_vars
=============================================================================
