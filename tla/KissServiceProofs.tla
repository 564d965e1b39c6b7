------------------------- MODULE KissServiceProofs -------------------------
(***************************************************************************)
(* Theorems about the services beside the boxes: KissDns, for any finite   *)
(* set of boxes, any domains and addresses and any number of deletions,    *)
(* failed watches and crashes; and KissManager, for any number of releases *)
(* and any bound on what troubles it.                                      *)
(***************************************************************************)
EXTENDS KissDns, KissManager, FiniteSetTheorems, TLAPS

-----------------------------------------------------------------------------
(* The DNS server *)

(* Address a of an event may follow c, for the same box. *)
Follow(c, a) == c \in Addr /\ a \in Addr => c <= a

(* Address a of an event is none, or not greater than n. *)
UpTo(a, n) == a \in Addr => a <= n

(* Nothing but addresses a box has had is delivered, written or shown, and a
   box that has an address has the last. *)
Bounded ==
    /\ \A b \in Box : addr[b] \in Addr => addr[b] = last[b]
    /\ \A k \in DOMAIN events : UpTo(events[k].addr, last[events[k].box])
    /\ cur # None => UpTo(cur.addr, last[cur.box])
    /\ \A b \in Box, o \in Origin : UpTo(catalog[b][o], last[b])

(* The watch delivers the addresses of a box as they rose: what the catalog
   shows, what is being written and what is yet to be delivered is in order. *)
Ascending ==
    /\ \A k, l \in DOMAIN events :
          k < l /\ events[k].box = events[l].box => Follow(events[k].addr, events[l].addr)
    /\ \A k \in DOMAIN events :
          cur # None /\ cur.box = events[k].box => Follow(cur.addr, events[k].addr)
    /\ \A k \in DOMAIN events, o \in Origin : Follow(catalog[events[k].box][o], events[k].addr)
    /\ cur # None => \A o \in Origin : Follow(catalog[cur.box][o], cur.addr)

Inv == TypeOK /\ Bounded /\ Ascending

LEMMA AddrType == Addr \subseteq Nat \ {0} /\ None \notin Addr /\ Absent \notin Addr
  BY DnsAssumption DEF Addr

(* The events of a fresh list: one for each box, with the address it has. *)
LEMMA SeqOfSet ==
  ASSUME NEW S, IsFiniteSet(S)
  PROVE  SetToSeq(S) \in Seq(S)
<1>1. Cardinality(S) \in Nat /\ ExistsBijection(1 .. Cardinality(S), S)
  BY FS_CardinalityType
<1>2. PICK f \in [1 .. Cardinality(S) -> S] : IsInjective(f)
  BY <1>1 DEF ExistsBijection, Bijection, Injection, IsInjective
<1>3. SetToSeq(S) \in [1 .. Cardinality(S) -> S]
  BY <1>2 DEF SetToSeq
<1>4. QED
  BY <1>1, <1>3

LEMMA InitInv == Init => Inv
<1>1. SUFFICES ASSUME Init PROVE Inv
  OBVIOUS
<1>2. TypeOK
  <2>1. last \in [Box -> 0 .. MaxAddr] /\ spent \in [Fault -> Nat]
    BY <1>1, DnsAssumption DEF Init
  <2>2. catalog \in [Box -> [Origin -> Addr \union {None}]]
    BY <1>1 DEF Init
  <2>3. events \in Seq(Event) /\ addr \in [Box -> Addr \union {None, Absent}]
    BY <1>1 DEF Init
  <2>4. QED
    BY <1>1, <2>1, <2>2, <2>3 DEF Init, TypeOK
<1>3. Bounded /\ Ascending
  BY <1>1, AddrType DEF Init, Bounded, Ascending, Follow, UpTo
<1>4. QED
  BY <1>2, <1>3 DEF Inv

-----------------------------------------------------------------------------
(* What the watch delivers after a change of box b. *)
LEMMA DeliverStep ==
  ASSUME TypeOK, NEW b \in Box, NEW a \in Addr \union {None}, Deliver(b, a)
  PROVE  /\ events' \in Seq(Event)
         /\ \A k \in DOMAIN events' :
               \/ k \in DOMAIN events /\ events'[k] = events[k]
               \/ /\ k = Len(events) + 1 /\ events'[k] = [box |-> b, addr |-> a]
                  /\ \A l \in DOMAIN events' : l <= k
<1>1. events \in Seq(Event) /\ [box |-> b, addr |-> a] \in Event
  BY DEF TypeOK, Event
<1>2. CASE up
  BY <1>1, <1>2 DEF Deliver
<1>3. CASE ~up
  BY <1>1, <1>3 DEF Deliver
<1>4. QED
  BY <1>2, <1>3

(* A change the watch delivers keeps the order when the address is none or the
   last one. *)
LEMMA BoxStep ==
  ASSUME Inv, NEW b \in Box, NEW a \in Addr \union {None}, Deliver(b, a),
         a \in Addr => a = last'[b], \A x \in Box : last[x] <= last'[x],
         last' \in [Box -> 0 .. MaxAddr],
         \A x \in Box : addr'[x] \in Addr => addr'[x] = last'[x],
         UNCHANGED <<cur, catalog>>
  PROVE  events' \in Seq(Event) /\ Bounded' /\ Ascending'
<1> DEFINE e == [box |-> b, addr |-> a]
<1>1. TypeOK /\ Bounded /\ Ascending
  BY DEF Inv
<1>2. \A k \in DOMAIN events : events[k] \in Event /\ events[k].box \in Box
  <2>1. events \in Seq(Event)
    BY <1>1 DEF TypeOK
  <2>2. \A k \in DOMAIN events : events[k] \in Event
    BY <2>1
  <2>3. QED
    BY <2>2 DEF Event
<1>3. cur # None => cur.box \in Box
  BY <1>1 DEF TypeOK, Event
<1>4. /\ events' \in Seq(Event)
      /\ \A k \in DOMAIN events' :
            \/ k \in DOMAIN events /\ events'[k] = events[k]
            \/ /\ k = Len(events) + 1 /\ events'[k] = e
               /\ \A l \in DOMAIN events' : l <= k
  BY <1>1, DeliverStep
<1>5. \A x \in Box : last[x] \in Nat /\ last'[x] \in Nat
  BY <1>1, DnsAssumption DEF TypeOK
<1>6. ASSUME NEW x \in Box, NEW v, UpTo(v, last[x]) PROVE UpTo(v, last'[x])
  <2>1. SUFFICES ASSUME v \in Addr PROVE v <= last'[x]
    BY DEF UpTo
  <2>2. v \in Nat /\ v <= last[x]
    BY <1>6, <2>1, AddrType DEF UpTo
  <2>3. last[x] \in Nat /\ last'[x] \in Nat /\ last[x] <= last'[x]
    BY <1>5
  <2>4. QED
    BY <2>2, <2>3
<1>7. ASSUME NEW v, UpTo(v, last[b]) PROVE Follow(v, a)
  BY <1>5, <1>7, AddrType DEF UpTo, Follow
<1>8. e.box = b /\ e.addr = a /\ UpTo(a, last'[b])
  BY <1>5, AddrType DEF UpTo
<1> HIDE DEF e
<1>9. Bounded'
  <2>1. \A k \in DOMAIN events' : UpTo(events'[k].addr, last'[events'[k].box])
    BY <1>1, <1>2, <1>4, <1>6, <1>8 DEF Bounded
  <2>2. cur # None => UpTo(cur.addr, last'[cur.box])
    BY <1>1, <1>3, <1>6 DEF Bounded
  <2>3. \A x \in Box, o \in Origin : UpTo(catalog[x][o], last'[x])
    BY <1>1, <1>6 DEF Bounded
  <2>4. QED
    BY <2>1, <2>2, <2>3 DEF Bounded
<1>10. Ascending'
  <2>1. ASSUME NEW k \in DOMAIN events', NEW l \in DOMAIN events',
               k < l, events'[k].box = events'[l].box
        PROVE  Follow(events'[k].addr, events'[l].addr)
    <3>1. k \in Nat /\ l \in Nat
      BY <1>4
    <3>2. k \in DOMAIN events /\ events'[k] = events[k]
      BY <1>4, <2>1, <3>1
    <3>3. CASE l \in DOMAIN events /\ events'[l] = events[l]
      BY <1>1, <2>1, <3>2, <3>3 DEF Ascending
    <3>4. CASE events'[l] = e
      BY <1>1, <1>7, <1>8, <2>1, <3>2, <3>4 DEF Bounded
    <3>5. QED
      BY <1>4, <3>3, <3>4
  <2>2. ASSUME NEW k \in DOMAIN events', cur # None, cur.box = events'[k].box
        PROVE  Follow(cur.addr, events'[k].addr)
    BY <1>1, <1>4, <1>7, <1>8, <2>2 DEF Bounded, Ascending
  <2>3. ASSUME NEW k \in DOMAIN events', NEW o \in Origin
        PROVE  Follow(catalog[events'[k].box][o], events'[k].addr)
    BY <1>1, <1>4, <1>7, <1>8 DEF Bounded, Ascending
  <2>4. QED
    BY <1>1, <2>1, <2>2, <2>3 DEF Ascending
<1>11. QED
  BY <1>4, <1>9, <1>10

LEMMA BoxEmpties ==
  ASSUME Inv, NEW b \in Box, Deliver(b, None), UNCHANGED <<last, cur, catalog>>,
         \A x \in Box : addr'[x] \in Addr => addr'[x] = last[x]
  PROVE  events' \in Seq(Event) /\ Bounded' /\ Ascending'
<1>1. None \in Addr \union {None} /\ (None \in Addr => None = last'[b])
  BY AddrType
<1>2. last' = last /\ last' \in [Box -> 0 .. MaxAddr]
  BY DEF Inv, TypeOK
<1>3. \A x \in Box : last[x] <= last'[x]
  BY <1>2, DnsAssumption
<1>4. \A x \in Box : addr'[x] \in Addr => addr'[x] = last'[x]
  BY <1>2
<1>5. QED
  BY <1>1, <1>2, <1>3, <1>4, BoxStep

LEMMA StepInv == Inv /\ [Next]_vars => Inv'
<1>1. SUFFICES ASSUME Inv, [Next]_vars PROVE Inv'
  OBVIOUS
<1>2. TypeOK /\ Bounded /\ Ascending
  BY <1>1 DEF Inv
<1>3. /\ addr \in [Box -> Addr \union {None, Absent}] /\ last \in [Box -> 0 .. MaxAddr]
      /\ up \in BOOLEAN /\ events \in Seq(Event) /\ cur \in Event \union {None}
      /\ todo \in SUBSET Origin /\ catalog \in [Box -> [Origin -> Addr \union {None}]]
      /\ spent \in [Fault -> Nat]
  BY <1>2 DEF TypeOK
<1>4. \A b \in Box : last[b] \in Nat
  BY <1>3, DnsAssumption
<1>5. ASSUME NEW f \in Fault, Spend(f) PROVE spent' \in [Fault -> Nat]
  BY <1>3, <1>5 DEF Spend
<1>6. ASSUME NEW b \in Box, Create(b) PROVE Inv'
  <2>1. \A x \in Box : addr'[x] \in Addr => addr'[x] = last[x]
    BY <1>2, <1>3, <1>6, AddrType DEF Create, Bounded
  <2>2. events' \in Seq(Event) /\ Bounded' /\ Ascending'
    <3>1. Deliver(b, None) /\ UNCHANGED <<last, cur, catalog>>
      BY <1>6 DEF Create
    <3>2. QED
      BY <1>1, <2>1, <3>1, BoxEmpties
  <2>3. TypeOK'
    BY <1>3, <1>6, <2>2 DEF Create, TypeOK
  <2>4. QED
    BY <2>2, <2>3 DEF Inv
<1>7. ASSUME NEW b \in Box, Lease(b) PROVE Inv'
  <2>1. last[b] + 1 \in Addr /\ last' \in [Box -> 0 .. MaxAddr]
        /\ last'[b] = last[b] + 1 /\ \A x \in Box : x # b => last'[x] = last[x]
    BY <1>3, <1>4, <1>7, DnsAssumption DEF Lease, Addr
  <2>2. \A x \in Box : addr'[x] \in Addr => addr'[x] = last'[x]
    BY <1>2, <1>3, <1>7, <2>1 DEF Lease, Bounded
  <2>3. \A x \in Box : last[x] <= last'[x]
    BY <1>4, <2>1
  <2>4. events' \in Seq(Event) /\ Bounded' /\ Ascending'
    BY <1>1, <1>7, <2>1, <2>2, <2>3, BoxStep DEF Lease
  <2>5. TypeOK'
    BY <1>3, <1>7, <2>1, <2>4 DEF Lease, TypeOK
  <2>6. QED
    BY <2>4, <2>5 DEF Inv
<1>8. ASSUME NEW b \in Box, NEW to \in {None, Absent}, Lose(b, to) PROVE Inv'
  <2>1. \A x \in Box : addr'[x] \in Addr => addr'[x] = last[x]
    BY <1>2, <1>3, <1>8, AddrType DEF Lose, Bounded
  <2>2. events' \in Seq(Event) /\ Bounded' /\ Ascending'
    <3>1. Deliver(b, None) /\ UNCHANGED <<last, cur, catalog>>
      BY <1>8 DEF Lose
    <3>2. QED
      BY <1>1, <2>1, <3>1, BoxEmpties
  <2>3. "delete" \in Fault
    BY DEF Fault
  <2>4. TypeOK'
    BY <1>3, <1>5, <1>8, <2>2, <2>3 DEF Lose, TypeOK
  <2>5. QED
    BY <2>2, <2>4 DEF Inv
<1>9. CASE Open
  <2> DEFINE Here == {x \in Box : addr[x] # Absent}
             S == {[box |-> b, addr |-> addr[b]] : b \in Here}
  <2>1. IsFiniteSet(S)
    <3>1. IsFiniteSet(Here)
      BY FS_Subset, DnsAssumption
    <3>2. [b \in Here |-> [box |-> b, addr |-> addr[b]]] \in Surjection(Here, S)
      BY DEF Surjection
    <3>3. QED
      BY <3>1, <3>2, FS_Surjection
  <2>2. S \subseteq Event
    BY <1>3 DEF Event
  <2>3. events' \in Seq(S) /\ UNCHANGED <<addr, last, cur, catalog, todo, spent>>
        /\ cur = None /\ up' = TRUE
    BY <1>9, <2>1, SeqOfSet DEF Open
  <2>4. ASSUME NEW k \in DOMAIN events'
        PROVE  events'[k].box \in Box /\ events'[k].addr = addr[events'[k].box]
    <3>1. events'[k] \in S
      BY <2>3
    <3>2. QED
      BY <3>1
  <2>5. events' \in Seq(Event)
    BY <2>2, <2>3
  <2> HIDE DEF S
  <2>6. Bounded'
    BY <1>2, <1>4, <2>3, <2>4 DEF Bounded, UpTo
  <2>7. Ascending'
    BY <1>2, <1>4, <2>3, <2>4, AddrType DEF Bounded, Ascending, UpTo, Follow
  <2>8. TypeOK'
    BY <1>3, <2>3, <2>5 DEF TypeOK
  <2>9. QED
    BY <2>6, <2>7, <2>8 DEF Inv
<1>10. CASE HandleEvent
  <2>1. /\ events # <<>> /\ cur' = Head(events) /\ events' = Tail(events) /\ todo' = Origin
        /\ UNCHANGED <<addr, last, up, catalog, spent>>
    BY <1>10 DEF HandleEvent
  <2>2. cur' = events[1] /\ 1 \in DOMAIN events /\ cur' \in Event
    BY <1>3, <2>1
  <2>3. events' \in Seq(Event)
        /\ \A k \in DOMAIN events' : k \in Nat /\ k >= 1
              /\ k + 1 \in DOMAIN events /\ events'[k] = events[k + 1]
    BY <1>3, <2>1
  <2>4. TypeOK'
    BY <1>3, <2>1, <2>2, <2>3 DEF TypeOK
  <2>5. Bounded'
    BY <1>2, <2>1, <2>2, <2>3 DEF Bounded
  <2>6. Ascending'
    <3>1. \A k \in DOMAIN events' :
             cur'.box = events'[k].box => Follow(cur'.addr, events'[k].addr)
      BY <1>2, <2>2, <2>3 DEF Ascending
    <3>2. \A k, l \in DOMAIN events' :
             k < l /\ events'[k].box = events'[l].box => Follow(events'[k].addr, events'[l].addr)
      <4>1. SUFFICES ASSUME NEW k \in DOMAIN events', NEW l \in DOMAIN events', k < l,
                            events'[k].box = events'[l].box
            PROVE  Follow(events'[k].addr, events'[l].addr)
        OBVIOUS
      <4>2. k + 1 < l + 1
        BY <2>3, <4>1
      <4>3. QED
        BY <1>2, <2>3, <4>1, <4>2 DEF Ascending
    <3>3. \A o \in Origin : Follow(catalog[cur'.box][o], cur'.addr)
      BY <1>2, <2>2 DEF Ascending
    <3>4. \A k \in DOMAIN events', o \in Origin :
             Follow(catalog[events'[k].box][o], events'[k].addr)
      BY <1>2, <2>3 DEF Ascending
    <3>5. QED
      BY <2>1, <3>1, <3>2, <3>3, <3>4 DEF Ascending
  <2>7. QED
    BY <2>4, <2>5, <2>6 DEF Inv
<1>11. ASSUME NEW o \in Origin, HandleApply(o) PROVE Inv'
  <2>1. /\ cur # None /\ catalog' = [catalog EXCEPT ![cur.box][o] = cur.addr]
        /\ UNCHANGED <<addr, last, up, events, spent>>
        /\ todo' \subseteq todo /\ cur' \in {cur, None}
    BY <1>11 DEF HandleApply
  <2>2. cur.box \in Box /\ cur.addr \in Addr \union {None}
    BY <1>3, <2>1 DEF Event
  <2>3. /\ catalog' \in [Box -> [Origin -> Addr \union {None}]]
        /\ \A x \in Box, p \in Origin :
              catalog'[x][p] = IF x = cur.box /\ p = o THEN cur.addr ELSE catalog[x][p]
    BY <1>3, <2>1, <2>2
  <2>4. \A k \in DOMAIN events : events[k] \in Event /\ events[k].box \in Box
    <3>1. \A k \in DOMAIN events : events[k] \in Event
      BY <1>3
    <3>2. QED
      BY <3>1 DEF Event
  <2>5. TypeOK'
    BY <1>3, <2>1, <2>3 DEF TypeOK
  <2>6. Bounded'
    BY <1>2, <2>1, <2>2, <2>3 DEF Bounded
  <2>7. Ascending'
    <3>1. \A k \in DOMAIN events, p \in Origin :
             Follow(catalog'[events[k].box][p], events[k].addr)
      BY <1>2, <2>1, <2>3, <2>4 DEF Ascending
    <3>2. \A p \in Origin : Follow(catalog'[cur.box][p], cur.addr)
      <4>1. \A a \in Addr : a <= a
        BY AddrType
      <4>2. Follow(cur.addr, cur.addr)
        BY <4>1 DEF Follow
      <4>3. QED
        BY <1>2, <2>1, <2>2, <2>3, <4>2 DEF Ascending
    <3>3. QED
      BY <1>2, <2>1, <3>1, <3>2 DEF Ascending
  <2>8. QED
    BY <2>5, <2>6, <2>7 DEF Inv
<1>12. CASE Fail
  <2>1. "error" \in Fault /\ events' = <<>> /\ up' = FALSE
        /\ UNCHANGED <<addr, last, cur, todo, catalog>>
    BY <1>12 DEF Fail, Fault
  <2>2. TypeOK'
    <3>1. spent' \in [Fault -> Nat] /\ events' \in Seq(Event)
      BY <1>5, <1>12, <2>1 DEF Fail
    <3>2. QED
      BY <1>3, <2>1, <3>1 DEF TypeOK
  <2>3. Bounded' /\ Ascending'
    BY <1>2, <2>1 DEF Bounded, Ascending
  <2>4. QED
    BY <2>2, <2>3 DEF Inv
<1>13. CASE Crash
  <2>1. "crash" \in Fault /\ events' = <<>> /\ up' = FALSE /\ cur' = None /\ todo' = {}
        /\ catalog' = [b \in Box |-> [o \in Origin |-> None]]
        /\ UNCHANGED <<addr, last>>
    BY <1>13 DEF Crash, Fault
  <2>2. spent' \in [Fault -> Nat] /\ events' \in Seq(Event)
    BY <1>5, <1>13, <2>1 DEF Crash
  <2>3. TypeOK'
    BY <1>3, <2>1, <2>2 DEF TypeOK
  <2>4. Bounded' /\ Ascending'
    BY <1>2, <2>1, AddrType DEF Bounded, Ascending, UpTo
  <2>5. QED
    BY <2>3, <2>4 DEF Inv
<1>14. CASE UNCHANGED vars
  BY <1>2, <1>14 DEF vars, Inv, TypeOK, Bounded, Ascending
<1>15. QED
  BY <1>1, <1>6, <1>7, <1>8, <1>9, <1>10, <1>11, <1>12, <1>13, <1>14 DEF Next, Reloader

-----------------------------------------------------------------------------
LEMMA Invariance == Spec => []Inv
  BY InitInv, StepInv, PTL DEF Spec

(* Every variable keeps its shape; what a restarted watch lists is a sequence
   of events, however many boxes there are. *)
THEOREM DnsTypes == Spec => []TypeOK
<1>1. Inv => TypeOK
  BY DEF Inv
<1>2. QED
  BY <1>1, Invariance, PTL

(* handle_apply never replaces an address that a name shows by an earlier one of
   the same box, whichever watches failed and processes crashed before: what is
   listed again is not older than what was delivered. *)
THEOREM NamesNeverGoBack == Spec => NeverBack
<1> DEFINE Later ==
      \A b \in Box, o \in Origin :
          catalog[b][o] \in Addr /\ catalog'[b][o] \in Addr => catalog'[b][o] >= catalog[b][o]
<1>1. Inv /\ [Next]_vars => [Later]_catalog
  <2>1. SUFFICES ASSUME Inv, [Next]_vars, catalog' # catalog PROVE Later
    OBVIOUS
  <2>2. TypeOK /\ Ascending
    BY <2>1 DEF Inv
  <2>3. CASE Crash
    BY <2>3, AddrType DEF Crash
  <2>4. ASSUME NEW o \in Origin, HandleApply(o) PROVE Later
    <3>1. cur # None /\ catalog' = [catalog EXCEPT ![cur.box][o] = cur.addr]
      BY <2>4 DEF HandleApply
    <3>2. cur.box \in Box /\ catalog \in [Box -> [Origin -> Addr \union {None}]]
      BY <2>2, <3>1 DEF TypeOK, Event
    <3>3. \A x \in Box, p \in Origin :
             catalog'[x][p] = IF x = cur.box /\ p = o THEN cur.addr ELSE catalog[x][p]
      BY <3>1, <3>2
    <3>4. Follow(catalog[cur.box][o], cur.addr)
      BY <2>2, <3>1 DEF Ascending
    <3>5. \A x, y \in Addr : (x <= y => y >= x) /\ x >= x
      BY AddrType
    <3>6. QED
      BY <3>3, <3>4, <3>5, AddrType DEF Follow
  <2>5. Crash \/ \E o \in Origin : HandleApply(o)
    BY <2>1 DEF Next, Reloader, Create, Lease, Lose, Open, HandleEvent, Fail, vars
  <2>6. QED
    BY <2>3, <2>4, <2>5
<1>2. QED
  BY <1>1, Invariance, PTL DEF Spec, NeverBack

-----------------------------------------------------------------------------
(* The manager *)

(* A round that has got beyond update_job_status has no Job beside it; one that
   is about to delete a Job finds at most the Job it listed. *)
Settled ==
    /\ pc \in {"patch", "read", "create", "upgrade"} => jobs = {}
    /\ pc = "delete" => \A j \in jobs : j.target = seen.target
    /\ pc = "create" => config = Unset

(* Whatever is under way leads to a newer version than the recorded one. *)
Upwards ==
    /\ \A j \in jobs : config # Unset /\ j.target > config
    /\ pc \in {"delete", "patch"} => config # Unset /\ seen.target > config
    /\ pc = "upgrade" => config # Unset /\ latest > config

(* Until its version is recorded, the cluster stays at what a Job has reached. *)
Reached ==
    /\ \A j \in jobs : j.succeeded => cluster = j.target
    /\ pc = "delete" /\ seen.succeeded =>
          cluster = seen.target /\ \A j \in jobs : j.succeeded
    /\ pc = "patch" => cluster = seen.target

ManagerInv == ManagerTypeOK /\ OneUpgrade /\ Settled /\ Upwards /\ Reached

LEMMA VersionType == 1 \in Version /\ Version \subseteq Nat /\ Unset \notin Version
  BY ManagerAssumption DEF Version

LEMMA ManagerInitInv == ManagerInit => ManagerInv
  BY VersionType
     DEF ManagerInit, ManagerInv, ManagerTypeOK, OneUpgrade, Settled, Upwards, Reached, Nothing, Job, PC, Trouble

LEMMA TroublesType ==
  ASSUME ManagerTypeOK, NEW f \in Trouble, Strikes(f)
  PROVE  troubles' \in [Trouble -> Nat]
  BY DEF ManagerTypeOK, Strikes

LEMMA ManagerStepInv == ManagerInv /\ [ManagerNext]_managerVars => ManagerInv'
<1>1. SUFFICES ASSUME ManagerInv, [ManagerNext]_managerVars PROVE ManagerInv'
  OBVIOUS
<1>a. ManagerTypeOK /\ OneUpgrade /\ Settled /\ Upwards /\ Reached
  BY <1>1 DEF ManagerInv
<1>2. CASE GetLatest
  BY <1>a, <1>2
     DEF GetLatest, ManagerInv, ManagerTypeOK, OneUpgrade, Settled, Upwards, Reached, PC
<1>3. CASE UpdateJobStatus
  <2>1. CASE pc' # "delete"
    BY <1>a, <1>3, <2>1
       DEF UpdateJobStatus, ManagerInv, ManagerTypeOK, OneUpgrade, Settled, Upwards, Reached, PC
  <2>2. CASE pc' = "delete"
    <3>1. PICK j \in jobs : jobs = {j} /\ seen' = j /\ pc = "list"
      BY <1>3, <2>2 DEF UpdateJobStatus
    <3>2. UNCHANGED <<feed, config, jobs, cluster, latest, troubles>>
      BY <1>3 DEF UpdateJobStatus
    <3>3. QED
      BY <1>a, <2>2, <3>1, <3>2
         DEF ManagerInv, ManagerTypeOK, OneUpgrade, Settled, Upwards, Reached, PC
  <2>3. QED
    BY <2>1, <2>2
<1>4. CASE DeleteJob
  <2>1. jobs' = {}
    BY <1>a, <1>4 DEF DeleteJob, Settled
  <2>2. cluster' \in Version
    BY <1>a, <1>4 DEF DeleteJob, ManagerTypeOK, Job
  <2>3. seen.succeeded => cluster' = seen.target
    BY <1>a, <1>4 DEF DeleteJob, Reached
  <2>4. QED
    BY <1>a, <1>4, <2>1, <2>2, <2>3
       DEF DeleteJob, ManagerInv, ManagerTypeOK, OneUpgrade, Settled, Upwards, Reached, PC
<1>5. CASE PatchVersion
  BY <1>a, <1>5
     DEF PatchVersion, ManagerInv, ManagerTypeOK, OneUpgrade, Settled, Upwards, Reached, PC, Job
<1>6. CASE GetVersion
  BY <1>a, <1>6, VersionType
     DEF GetVersion, Newer, ManagerInv, ManagerTypeOK, OneUpgrade, Settled, Upwards, Reached, PC
<1>7. CASE CreateConfig
  BY <1>a, <1>7
     DEF CreateConfig, ManagerInv, ManagerTypeOK, OneUpgrade, Settled, Upwards, Reached, PC
<1>8. CASE Upgrade
  <2>1. jobs' = {Spawned(config, latest)} /\ config \in Version /\ latest > config
    BY <1>a, <1>8 DEF Upgrade, ManagerTypeOK, Settled, Upwards
  <2>2. Spawned(config, latest) \in Job
    BY <1>a, <2>1 DEF Spawned, Job, ManagerTypeOK
  <2>3. /\ Spawned(config, latest).target = latest
        /\ ~Spawned(config, latest).succeeded
    BY DEF Spawned
  <2>4. pc' = "sleep" /\ UNCHANGED <<feed, config, cluster, latest, seen, troubles>>
    BY <1>8 DEF Upgrade
  <2>5. QED
    BY <1>a, <2>1, <2>2, <2>3, <2>4, VersionType
       DEF ManagerInv, ManagerTypeOK, OneUpgrade, Settled, Upwards, Reached, PC
<1>9. CASE Restart
  <2>1. troubles' \in [Trouble -> Nat]
    BY <1>a, <1>9, TroublesType DEF Restart, Trouble
  <2>2. QED
    BY <1>a, <1>9, <2>1
       DEF Restart, ManagerInv, ManagerTypeOK, OneUpgrade, Settled, Upwards, Reached, PC
<1>10. CASE Release
  <2>1. troubles' \in [Trouble -> Nat]
    BY <1>a, <1>10, TroublesType DEF Release, Trouble
  <2>2. QED
    BY <1>a, <1>10, <2>1
       DEF Release, ManagerInv, ManagerTypeOK, OneUpgrade, Settled, Upwards, Reached
<1>11. CASE JobSucceeds
  <2>1. PICK j \in jobs : /\ ~j.succeeded
                          /\ jobs' = (jobs \ {j}) \union {[j EXCEPT !.succeeded = TRUE]}
                          /\ cluster' = j.target
    BY <1>11 DEF JobSucceeds
  <2> DEFINE k == [j EXCEPT !.succeeded = TRUE]
  <2>2. k \in Job /\ k.target = j.target /\ k.succeeded
    BY <1>a DEF ManagerTypeOK, Job
  <2>3. jobs = {j} /\ jobs' = {k}
    BY <1>a, <2>1 DEF OneUpgrade
  <2>4. UNCHANGED <<feed, config, pc, latest, seen, troubles>> /\ cluster' \in Version
    BY <1>a, <1>11, <2>1 DEF JobSucceeds, ManagerTypeOK, Job
  <2> HIDE DEF k
  <2>5. QED
    BY <1>a, <2>1, <2>2, <2>3, <2>4
       DEF ManagerInv, ManagerTypeOK, OneUpgrade, Settled, Upwards, Reached
<1>12. CASE PodFails
  <2>1. PICK j \in jobs : /\ ~Finished(j)
                          /\ jobs' = (jobs \ {j}) \union {[j EXCEPT !.failed = TRUE]}
                          /\ Strikes("podfail")
    BY <1>12 DEF PodFails
  <2> DEFINE k == [j EXCEPT !.failed = TRUE]
  <2>2. k \in Job /\ k.target = j.target /\ ~k.succeeded
    BY <1>a, <2>1 DEF ManagerTypeOK, Job, Finished
  <2>3. jobs = {j} /\ jobs' = {k}
    BY <1>a, <2>1 DEF OneUpgrade
  <2>4. /\ UNCHANGED <<feed, config, cluster, pc, latest, seen>>
        /\ troubles' \in [Trouble -> Nat]
    BY <1>a, <1>12, <2>1, TroublesType DEF PodFails, Trouble
  <2>5. ~j.succeeded
    BY <2>1 DEF Finished
  <2> HIDE DEF k
  <2>6. QED
    BY <1>a, <2>2, <2>3, <2>4, <2>5
       DEF ManagerInv, ManagerTypeOK, OneUpgrade, Settled, Upwards, Reached
<1>13. CASE UNCHANGED managerVars
  BY <1>a, <1>13
     DEF managerVars, ManagerInv, ManagerTypeOK, OneUpgrade, Settled, Upwards, Reached
<1>14. QED
  BY <1>1, <1>2, <1>3, <1>4, <1>5, <1>6, <1>7, <1>8, <1>9, <1>10, <1>11, <1>12, <1>13
     DEF ManagerNext, Manager

(* What the record does in one step. *)
LEMMA RecordStep ==
  ASSUME ManagerInv, [ManagerNext]_managerVars, config # Unset
  PROVE  config' # config => /\ config' # Unset
                             /\ config' >= config
                             /\ config' = cluster
<1>1. CASE PatchVersion
  BY <1>1, VersionType DEF PatchVersion, ManagerInv, ManagerTypeOK, Job, Upwards, Reached
<1>2. CASE CreateConfig
  BY <1>2 DEF CreateConfig, ManagerInv, Settled
<1>3. CASE ~PatchVersion /\ ~CreateConfig
  BY <1>3 DEF ManagerNext, Manager, managerVars, GetLatest, UpdateJobStatus, DeleteJob, GetVersion,
              Upgrade, Restart, Release, JobSucceeds, PodFails
<1>4. QED
  BY <1>1, <1>2, <1>3

LEMMA ManagerInvariance == ManagerSpec => []ManagerInv
<1>1. QED
  BY ManagerInitInv, ManagerStepInv, PTL DEF ManagerSpec

(* Every variable of the manager keeps its type. *)
THEOREM ManagerTypes == ManagerSpec => []ManagerTypeOK
<1>1. ManagerInv => ManagerTypeOK
  BY DEF ManagerInv
<1>2. QED
  BY <1>1, ManagerInvariance, PTL

(* Whenever the manager restarts and whatever the releases do, it never faces two
   upgrade Jobs: update_job_status's conflict is unreachable for one manager. *)
THEOREM NoConflict == ManagerSpec => []OneUpgrade
<1>1. ManagerInv => OneUpgrade
  BY DEF ManagerInv
<1>2. QED
  BY <1>1, ManagerInvariance, PTL

(* patch_version never records an older version than the recorded one. *)
THEOREM RecordNeverFalls == ManagerSpec => RecordedRises
<1>1. ManagerInv /\ [ManagerNext]_managerVars => [config # Unset => config' # Unset /\ config' >= config]_config
  BY RecordStep
<1>2. QED
  BY <1>1, ManagerInvariance, PTL DEF ManagerSpec, RecordedRises

(* patch_version records what the cluster runs. *)
THEOREM RecordIsReached == ManagerSpec => UpgradeRecorded
<1>1. ManagerInv /\ [ManagerNext]_managerVars => [config # Unset => config' = cluster]_config
  BY RecordStep
<1>2. QED
  BY <1>1, ManagerInvariance, PTL DEF ManagerSpec, UpgradeRecorded
=============================================================================
