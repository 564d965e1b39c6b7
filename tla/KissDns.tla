------------------------------ MODULE KissDns ------------------------------
(***************************************************************************)
(* The DNS server of KISS (crates/kiss/dns): a task watches the Box objects*)
(* and writes the address of each box under its name in several domains,   *)
(* while the server answers from the same catalog.  The watch is restarted *)
(* five seconds after an error, with a fresh list of the boxes and nothing *)
(* about those deleted meanwhile.                                          *)
(*                                                                         *)
(* A box takes a greater address whenever its lease changes, so that a     *)
(* stale record can be told from a current one.                            *)
(***************************************************************************)
EXTENDS Naturals, Sequences, SequencesExt

CONSTANTS
    Box,       \* the machines, by name
    Origin,    \* the domains a box is named in
    MaxAddr,   \* the bound on addresses, which are numbered from 1
    None,      \* no address, or no record
    Absent,    \* no such box
    Limit      \* Limit[f]: how often f happens

Addr  == 1 .. MaxAddr
Fault == {"delete", "error", "crash"}

ASSUME DnsAssumption ==
    /\ IsFiniteSet(Box)
    /\ MaxAddr \in Nat
    /\ None \notin Addr /\ Absent \notin Addr /\ None # Absent
    /\ Limit \in [Fault -> Nat]

VARIABLES
    addr,      \* addr[b]: status.access.primary of the box
    last,      \* last[b]: the last address it had
    up,        \* whether the watch is open
    events,    \* what the watch has yet to deliver
    cur,       \* the event being handled, or None
    todo,      \* the domains it has still to be written to
    catalog,   \* catalog[b][o]: the record of box b in domain o, or None
    spent

vars == <<addr, last, up, events, cur, todo, catalog, spent>>

Event == [box : Box, addr : Addr \union {None}]

Spend(f) == /\ spent[f] < Limit[f]
            /\ spent' = [spent EXCEPT ![f] = @ + 1]

Init ==
    /\ addr = [b \in Box |-> Absent]
    /\ last = [b \in Box |-> 0]
    /\ up = FALSE
    /\ events = <<>>
    /\ cur = None
    /\ todo = {}
    /\ catalog = [b \in Box |-> [o \in Origin |-> None]]
    /\ spent = [f \in Fault |-> 0]

-----------------------------------------------------------------------------
(* The Box objects; None is a box without an address. *)

(* A watch delivers in order; a Delete has the effect of an Apply without an
   address. *)
Deliver(b, a) ==
    events' = IF up THEN Append(events, [box |-> b, addr |-> a]) ELSE events

Create(b) ==
    /\ addr[b] = Absent
    /\ addr' = [addr EXCEPT ![b] = None]
    /\ Deliver(b, None)
    /\ UNCHANGED <<last, up, cur, todo, catalog, spent>>

Lease(b) ==
    /\ addr[b] # Absent
    /\ last[b] < MaxAddr
    /\ last' = [last EXCEPT ![b] = @ + 1]
    /\ addr' = [addr EXCEPT ![b] = last[b] + 1]
    /\ Deliver(b, last[b] + 1)
    /\ UNCHANGED <<up, cur, todo, catalog, spent>>

(* A status written without an address, or the object deleted. *)
Lose(b, to) ==
    /\ addr[b] \notin {Absent, to}
    /\ Spend("delete")
    /\ addr' = [addr EXCEPT ![b] = to]
    /\ Deliver(b, None)
    /\ UNCHANGED <<last, up, cur, todo, catalog>>

-----------------------------------------------------------------------------
(* loop_forever *)

(* Event::Init, one InitApply per listed box, Event::InitDone *)
Open ==
    /\ ~up /\ cur = None
    /\ up' = TRUE
    /\ events' = SetToSeq({[box |-> b, addr |-> addr[b]] : b \in {x \in Box : addr[x] # Absent}})
    /\ UNCHANGED <<addr, last, cur, todo, catalog, spent>>

(* The first error ends try_for_each: what was not delivered is lost. *)
Fail ==
    /\ up /\ cur = None
    /\ Spend("error")
    /\ up' = FALSE
    /\ events' = <<>>
    /\ UNCHANGED <<addr, last, cur, todo, catalog>>

(* Mutant: the events are handled as a set of futures, in any order. *)
HandleEventAnyOrder ==
    /\ cur = None
    /\ \E i \in DOMAIN events : cur' = events[i] /\ events' = RemoveAt(events, i)
    /\ todo' = Origin
    /\ UNCHANGED <<addr, last, up, catalog, spent>>

(* try_for_each: one event at a time, in the order of the watch *)
HandleEvent ==
    /\ cur = None /\ events # <<>>
    /\ cur' = Head(events)
    /\ events' = Tail(events)
    /\ todo' = Origin
    /\ UNCHANGED <<addr, last, up, catalog, spent>>

(* Mutant: a box without an address keeps its record. *)
HandleApplyKeepsRecord(o) ==
    /\ cur # None /\ o \in todo
    /\ catalog' = IF cur.addr = None THEN catalog
                  ELSE [catalog EXCEPT ![cur.box][o] = cur.addr]
    /\ todo' = todo \ {o}
    /\ cur' = IF todo = {o} THEN None ELSE cur
    /\ UNCHANGED <<addr, last, up, events, spent>>

(* handle_apply and handle_delete: one future per domain, in any order; the next
   event waits for all of them. *)
HandleApply(o) ==
    /\ cur # None /\ o \in todo
    /\ catalog' = [catalog EXCEPT ![cur.box][o] = cur.addr]
    /\ todo' = todo \ {o}
    /\ cur' = IF todo = {o} THEN None ELSE cur
    /\ UNCHANGED <<addr, last, up, events, spent>>

(* The catalog is kept in memory only. *)
Crash ==
    /\ Spend("crash")
    /\ up' = FALSE
    /\ events' = <<>>
    /\ cur' = None
    /\ todo' = {}
    /\ catalog' = [b \in Box |-> [o \in Origin |-> None]]
    /\ UNCHANGED <<addr, last>>

Reloader == Open \/ HandleEvent \/ (\E o \in Origin : HandleApply(o))

Next ==
    \/ \E b \in Box : Create(b)
    \/ \E b \in Box : Lease(b)
    \/ \E b \in Box, to \in {None, Absent} : Lose(b, to)
    \/ Reloader
    \/ Fail
    \/ Crash

(* The task goes on as long as the process lives. *)
Spec == Init /\ [][Next]_vars /\ WF_vars(Reloader)

-----------------------------------------------------------------------------
(* Every variable has the shape its Rust type gives it. *)
TypeOK ==
    /\ addr \in [Box -> Addr \union {None, Absent}]
    /\ last \in [Box -> 0 .. MaxAddr]
    /\ up \in BOOLEAN
    /\ events \in Seq(Event)
    /\ cur \in Event \union {None}
    /\ todo \in SUBSET Origin
    /\ catalog \in [Box -> [Origin -> Addr \union {None}]]
    /\ spent \in [Fault -> Nat]

(* A name never goes back to an address the box had before the one it shows:
   relisting after an error does not bring old events back. *)
NeverBack ==
    [][\A b \in Box, o \in Origin :
          catalog[b][o] \in Addr /\ catalog'[b][o] \in Addr =>
              catalog'[b][o] >= catalog[b][o]]_catalog

(* Every name of a box that keeps its address, or stays without one, ends up
   showing just that, whatever watches and processes were lost before. *)
Shows(b, a) == \A o \in Origin : catalog[b][o] = a
Resolves == \A b \in Box : \A a \in Addr \union {None} : <>[](addr[b] = a) => <>[]Shows(b, a)

(* The names of a deleted box disappear, whatever processes were lost before.
   It takes that no watch has failed: an object deleted while there is no watch
   is not missed in the next list. *)
Disappears ==
    \A b \in Box :
        [](spent["error"] = 0) /\ <>[](addr[b] = Absent) => <>[]Shows(b, None)

(* The catalogue follows the boxes: their addresses, and their deletion. *)
Follows == Resolves /\ Disappears
=============================================================================
