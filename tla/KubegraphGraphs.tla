-------------------------- MODULE KubegraphGraphs --------------------------
(***************************************************************************)
(* The graph database of the kubegraph VM (crates/kubegraph/vm/local, api) *)
(* follows the NetworkConnector objects of the cluster in three hops: the  *)
(* reloader watches the objects and keeps them in LocalResourceDB, which   *)
(* raises a flag for the type of an object that changes; the loop of each  *)
(* type takes the flag down, lists the objects of its type, pulls the      *)
(* graphs of those whose resourceVersion is new to it and stores them, and *)
(* removes those of the objects it no longer finds.                        *)
(***************************************************************************)
EXTENDS KubegraphDependency

CONSTANTS
    Connector,      \* names of NetworkConnector objects, one namespace
    Type,           \* connector types, each with its loop
    Born,           \* the types of the objects that are there before the program
    Limit,          \* bound on changes of objects and on failures
    None

VARIABLES
    api,            \* the objects in the cluster: [type, version]
    spent,          \* changes and failures so far; the next resourceVersion
    watching,       \* the reloader has a watch
    events,         \* what the watch has to deliver
    connectors,     \* LocalResourceDB.connectors
    updated,        \* LocalResourceDB.connectors_has_updated
    functions,      \* LocalResourceDB.functions
    loops,          \* the loop of each type: its scopes, the ones to be, what it stores
    graphs,         \* the graph database: [version, flows]
    missed,         \* connectors whose deletion nobody was told of
    retyped,        \* those whose type was changed under a loop
    lag,            \* connectors whose graph is known to be wrong for other reasons
    stray,          \* those whose graph no loop knows any more, or yet
    policy          \* the restart policy

watch == <<api, watching, events, missed>>
db == <<connectors, updated, retyped>>
graphVars == <<watch, spent, db, functions, loops, graphs, lag, stray, policy>>

Object == [type : Type, version : 1 .. Limit + 1]
Graph == [version : 1 .. Limit + 1, flows : SUBSET Function]

ASSUME GraphsAssumption ==
    /\ IsFiniteSet(Connector)
    /\ Born \subseteq Type
    /\ Limit \in Nat
    /\ None \notin Object \union Graph \union BOOLEAN

Spend == spent < Limit /\ spent' = spent + 1

Idle == [scopes |-> [c \in Connector |-> 0], next |-> [c \in Connector |-> 0],
         todo |-> {}, ended |-> FALSE]

GraphsInit ==
    /\ api \in [Connector -> [type : Born, version : {1}] \union {None}]
    /\ spent = 0
    /\ watching = FALSE /\ events = <<>>
    /\ connectors = [c \in Connector |-> None]
    /\ updated = [t \in Type |-> None]
    /\ functions = Function
    /\ loops = [t \in Type |-> Idle]
    /\ graphs = [c \in Connector |-> None]
    /\ missed = {} /\ retyped = {} /\ lag = {} /\ stray = {}

----------------------------------------------------------------------------
(* The cluster and the watch.                                              *)

Event(c, object) == [scope |-> c, object |-> object]

\* An object is created, changed, changed to another type, or deleted.  A
\* deletion nobody watches is never told: the next watch lists what there is.
Change(c, object) ==
    /\ Spend
    /\ object = None => api[c] # None
    /\ api' = [api EXCEPT ![c] = object]
    /\ events' = IF watching THEN Append(events, Event(c, object)) ELSE events
    /\ missed' = IF object = None /\ ~watching THEN missed \union {c} ELSE missed \ {c}
    /\ UNCHANGED <<watching, db, functions, loops, graphs, lag, stray, policy>>

\* A function is created or deleted (its watch is not modelled).
ChangeFunction(f) ==
    /\ Spend
    /\ functions' = IF f \in functions THEN functions \ {f} ELSE functions \union {f}
    /\ UNCHANGED <<watch, db, loops, graphs, lag, stray, policy>>

\* watcher(): all that is there, in some order.
Watch ==
    /\ ~watching
    /\ watching' = TRUE
    /\ LET live == {c \in Connector : api[c] # None}
       IN events' = CHOOSE seq \in [1 .. Cardinality(live) -> {Event(c, api[c]) : c \in live}] :
                        {seq[i].scope : i \in DOMAIN seq} = live
    /\ UNCHANGED <<api, missed, spent, db, functions, loops, graphs, lag, stray, policy>>

\* The watch fails: what it has not delivered is listed again, except the
\* deletions.
WatchFails ==
    /\ watching /\ Spend
    /\ watching' = FALSE
    /\ events' = <<>>
    /\ missed' = missed \union {c \in Connector : api[c] = None /\ Event(c, None) \in Elements(events)}
    /\ UNCHANGED <<api, db, functions, loops, graphs, lag, stray, policy>>

----------------------------------------------------------------------------
(* LocalResourceDB.                                                        *)

\* The flag of a type is raised if the type was listed before.
Raise(t) == [updated EXCEPT ![t] = IF @ = None THEN None ELSE TRUE]

\* The flag is that of the new object: the loop of the type an object had
\* before is not told.
InsertConnector(c, object) ==
    /\ connectors' = [connectors EXCEPT ![c] = object]
    /\ updated' = Raise(object.type)
    /\ retyped' = IF connectors[c] # None /\ connectors[c].type # object.type
                  THEN retyped \union {c} ELSE retyped

DeleteConnector(c) ==
    /\ connectors' = [connectors EXCEPT ![c] = None]
    /\ updated' = IF connectors[c] = None THEN updated ELSE Raise(connectors[c].type)
    /\ UNCHANGED retyped

HandleEvent ==
    /\ events # <<>>
    /\ LET e == Head(events)
       IN IF e.object = None THEN DeleteConnector(e.scope)
          ELSE InsertConnector(e.scope, e.object)
    /\ events' = Tail(events)
    /\ UNCHANGED <<api, missed, watching, spent, functions, loops, graphs, lag, stray, policy>>

----------------------------------------------------------------------------
(* NetworkConnectorExt::loop_forever.                                      *)

(* Mutant: an object that is known is not pulled again.                    *)
IsNewUnknown(t, c, next) == loops[t].scopes[c] = 0 /\ next[c] # 0

\* New, or of another version than the one that was stored.
IsNew(t, c, next) == next[c] # 0 /\ loops[t].scopes[c] # next[c]

IsRemoved(t, c, next) == next[c] = 0 /\ loops[t].scopes[c] # 0

Busy(t) == loops[t].todo # {}

\* A loop ends after its first list where nothing is to be restarted.
AfterList == policy = "Never"

\* The objects of the type are listed, if the flag is up (the first list of
\* a type always is), and the graphs of the new ones are pulled.  The flag is
\* down from now on, whatever fails.  A connector that cannot be loaded is
\* left out, but its version counts as stored.
List(t) ==
    /\ ~loops[t].ended /\ ~Busy(t)
    /\ updated[t] # FALSE
    /\ updated' = [updated EXCEPT ![t] = FALSE]
    /\ LET next == [c \in Connector |->
                        IF connectors[c] # None /\ connectors[c].type = t
                        THEN connectors[c].version ELSE 0]
           new == {c \in Connector : IsNew(t, c, next)}
           removed == {c \in Connector : IsRemoved(t, c, next)}
       IN \/ \* pulled
             \E loaded \in SUBSET new :
                /\ IF loaded = new THEN UNCHANGED <<spent, lag>>
                   ELSE Spend /\ lag' = lag \union (new \ loaded)
                /\ loops' = [loops EXCEPT ![t] =
                        [scopes |-> IF loaded \union removed = {} THEN next ELSE @.scopes,
                         next |-> next, todo |-> loaded \union removed,
                         ended |-> AfterList]]
          \/ \* the pull fails
             /\ Spend
             /\ lag' = lag \union new \union removed
             /\ loops' = [loops EXCEPT ![t].ended = AfterList]
    /\ UNCHANGED <<watch, connectors, retyped, functions, graphs, stray, policy>>

\* One of the graphs is inserted or removed; with the last one the scopes are
\* the new ones.  Where an object has changed its type, what the loop of the
\* new type has stored may be removed or replaced.
Store(t, c) ==
    /\ c \in loops[t].todo
    /\ LET left == loops[t].todo \ {c}
           next == loops[t].next
       IN /\ loops' = [loops EXCEPT ![t].todo = left,
                                    ![t].scopes = IF left = {} THEN next ELSE @]
          /\ graphs' = [graphs EXCEPT ![c] =
                IF next[c] = 0 THEN None ELSE [version |-> next[c], flows |-> {}]]
          /\ lag' = IF connectors[c] # None /\ connectors[c].type # t
                    THEN lag \union {c} ELSE lag \ {c}
          /\ stray' = stray \ {c}
    /\ UNCHANGED <<watch, spent, db, functions, policy>>

\* What a loop has stored that it did not know before.
Stored(t) ==
    {c \in Connector : /\ graphs[c] # None /\ c \notin loops[t].todo
                       /\ loops[t].scopes[c] = 0 /\ loops[t].next[c] # 0}

\* An insert or a removal fails: the others are dropped, the scopes stay, and
\* the flag is down.  What has been stored is not known to the loop.
StoreFails(t) ==
    /\ Busy(t) /\ Spend
    /\ lag' = lag \union {c \in Connector : loops[t].scopes[c] # loops[t].next[c]}
    /\ stray' = stray \union Stored(t)
    /\ loops' = [loops EXCEPT ![t].todo = {}]
    /\ UNCHANGED <<watch, db, functions, graphs, policy>>

GraphsStep ==
    \/ \E c \in Connector : Change(c, None)
    \/ \E c \in Connector, t \in Type : Change(c, [type |-> t, version |-> spent + 2])
    \/ \E f \in Function : ChangeFunction(f)
    \/ WatchFails
    \/ Watch
    \/ HandleEvent
    \/ \E t \in Type : List(t) \/ StoreFails(t) \/ \E c \in Connector : Store(t, c)

----------------------------------------------------------------------------
GraphsTypeOK ==
    /\ api \in [Connector -> Object \union {None}]
    /\ connectors \in [Connector -> Object \union {None}]
    /\ updated \in [Type -> BOOLEAN \union {None}]
    /\ functions \subseteq Function
    /\ \A t \in Type : loops[t].scopes \in [Connector -> 0 .. Limit + 1]
    /\ graphs \in [Connector -> Graph \union {None}]

\* A loop looks after a graph that it knows and will list again or is about to
\* remove, and after what it has just stored.
Keeps(t, c) ==
    LET l == loops[t]
    IN  IF Busy(t)
        THEN IF c \in l.todo THEN l.scopes[c] # 0 ELSE l.next[c] # 0
        ELSE l.scopes[c] # 0

\* A graph in the database is looked after by the loop of some type, which will
\* remove it when the object is gone: nothing else removes graphs.  Two ways of
\* losing one are excepted: a loop forgets what it has stored when a later store of
\* the same list fails (connector/mod.rs), and a function of the machine writes
\* back a graph that has been removed meanwhile (KubegraphVm, polars.rs).
Owned ==
    \A c \in Connector \ stray : graphs[c] # None => \E t \in Type : Keeps(t, c)

\* The graph of a connector is the one of its object.
InSync(c) ==
    IF api[c] = None THEN graphs[c] = None
    ELSE graphs[c] # None /\ graphs[c].version = api[c].version
=============================================================================
