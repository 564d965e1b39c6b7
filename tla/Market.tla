------------------------------- MODULE Market -------------------------------
(***************************************************************************)
(* The order book of kubegraph (crates/kubegraph/market): prices offered   *)
(* (pub) and asked (sub) in a database, a gateway that trades one against  *)
(* the other in a transaction, and a solver that lists the prices page by  *)
(* page, matches them and asks for one trade after the other, each against *)
(* a database that others change meanwhile.                                *)
(***************************************************************************)
EXTENDS Integers, Sequences, SequencesExt, FiniteSetsExt

CONSTANTS
    Product,    \* the ids of products, numbers for their order
    Id,         \* the ids of prices, numbers for their order
    Cost,       \* the costs asked for, and those of trades
    MaxCount,   \* the bound on counts
    Offer,      \* the prices that may be inserted
    Asked,      \* the trades that others may post
    PageLimit,  \* Page.limit (20)
    Client,     \* who else posts trades
    Serial,     \* whether a transaction fails when what it read has changed
    None,       \* not there yet
    Gone,       \* deleted; ids are never used again
    Limit       \* how many disturbances there are: trades that others post,
                \* removals, failed calls, lost answers

Agent == "agent"
Caller == Client \union {Agent}

ASSUME MarketAssumption ==
    /\ Product \subseteq Nat \ {0} /\ Id \subseteq Nat \ {0} /\ Product \intersect Id = {}
    /\ Cost \subseteq Nat
    /\ IsFiniteSet(Id)
    /\ MaxCount \in Nat /\ PageLimit \in Nat \ {0}
    /\ Agent \notin Client
    /\ Serial \in BOOLEAN
    /\ Limit \in Nat

Count == 0 .. MaxCount
Direction == {"Pub", "Sub"}
Row == [prod : Product, dir : Direction, cost : Cost, count : Count, at : Nat]
ASSUME RowAssumption == None # Gone /\ None \notin Row /\ Gone \notin Row

PriceItem == [id : Id, dir : Direction, cost : Cost, count : Count, at : Nat]
TransactionTemplate ==
    [prod : Product \union Id, pub : Id, sub : Id, cost : Cost, count : Count]

ASSUME InputAssumption ==
    /\ Offer \subseteq [dir : Direction, cost : Cost, count : Count]
    /\ Asked \subseteq TransactionTemplate

VARIABLES
    product,   \* product[p] \in {None, Gone} or TRUE
    price,     \* price[i]: a row of the table prices, None or Gone
    txn,       \* txn[c]: the transaction of caller c
    agent,     \* the round of the solver
    offered, sold,  \* as in Ledger
    keys,      \* whether the database holds foreign keys to be true
    spent

vars == <<product, price, txn, agent, offered, sold, keys, spent>>

Open(i) == price[i] \in Row

Disturb == spent < Limit /\ spent' = spent + 1

-----------------------------------------------------------------------------
(* The solver: matching *)

(* The head of the queue of pubs, and of subs: sorted_by_key and next.  No two
   prices have the same timestamp. *)
FirstPub(S) ==
    CHOOSE x \in S : \A y \in S : x.cost < y.cost \/ (x.cost = y.cost /\ x.at <= y.at)

(* Mutant: the subs are sorted like the pubs, by rising cost. *)
FirstSubByRisingCost(S) ==
    CHOOSE x \in S : \A y \in S : x.cost < y.cost \/ (x.cost = y.cost /\ x.at <= y.at)

FirstSub(S) ==
    CHOOSE x \in S : \A y \in S : x.cost > y.cost \/ (x.cost = y.cost /\ x.at <= y.at)

(* What the solver has to match: the pubs and the subs that are left. *)
Queue == {S \in SUBSET PriceItem : IsFiniteSet(S)}
Book == [pub : Queue, sub : Queue]

(* Mutant: the loop goes on when the pub asks for more than the sub gives. *)
NeverDone(q) == q.pub = {} \/ q.sub = {}

Done(q) ==
    \/ q.pub = {} \/ q.sub = {}
    \/ FirstPub(q.pub).cost > FirstSub(q.sub).cost

Quantity(q) == Min({FirstPub(q.pub).count, FirstSub(q.sub).count})

Deal(q) ==
    [pub |-> FirstPub(q.pub).id, sub |-> FirstSub(q.sub).id,
     cost |-> FirstSub(q.sub).cost, count |-> Quantity(q)]

(* withdraw: an item whose count is used up gives way to the next. *)
Withdraw(S, x, n) ==
    (S \ {x}) \union IF x.count = n THEN {} ELSE {[x EXCEPT !.count = @ - n]}

After(q) ==
    [pub |-> Withdraw(q.pub, FirstPub(q.pub), Quantity(q)),
     sub |-> Withdraw(q.sub, FirstSub(q.sub), Quantity(q))]

Match[q \in Book] == IF Done(q) THEN <<>> ELSE <<Deal(q)>> \o Match[After(q)]

(* MarketSolver::solve; every listed count is above zero *)
Solve(prod, hist) ==
    LET side(dir) == {x \in hist : x.dir = dir}
        trades == Match[[pub |-> side("Pub"), sub |-> side("Sub")]]
    IN  [k \in DOMAIN trades |->
            [prod |-> prod, pub |-> trades[k].pub, sub |-> trades[k].sub,
             cost |-> trades[k].cost, count |-> trades[k].count]]

-----------------------------------------------------------------------------
(* The gateway: tables *)

Idle == [pc |-> "idle"]
Restart == [pc |-> "products", prods |-> {}, prod |-> 0,
            start |-> 0, hist |-> {}, plan |-> <<>>]

Init ==
    /\ product = [p \in Product |-> None]
    /\ price = [i \in Id |-> None]
    /\ txn = [c \in Caller |-> Idle]
    /\ agent = Restart
    /\ offered = [i \in Id |-> 0]
    /\ sold = [i \in Id |-> 0]
    /\ keys \in BOOLEAN
    /\ spent = 0

InsertProduct(p) ==
    /\ product[p] = None
    /\ product' = [product EXCEPT ![p] = TRUE]
    /\ UNCHANGED <<price, txn, agent, offered, sold, spent, keys>>

RemoveProduct(p) ==
    /\ product[p] = TRUE
    /\ Disturb
    /\ product' = [product EXCEPT ![p] = Gone]
    /\ price' = [i \in Id |-> IF keys /\ Open(i) /\ price[i].prod = p
                              THEN Gone ELSE price[i]]
    /\ UNCHANGED <<txn, agent, offered, sold, keys>>

(* insert_pub, insert_sub; a uuid may come before those that are there *)
InsertPrice(i, p, x) ==
    /\ price[i] = None
    /\ keys => product[p] = TRUE
    /\ price' = [price EXCEPT ![i] =
          [prod |-> p, dir |-> x.dir, cost |-> x.cost, count |-> x.count,
           at |-> Cardinality({j \in Id : price[j] # None})]]
    /\ offered' = [offered EXCEPT ![i] = x.count]
    /\ UNCHANGED <<product, txn, agent, sold, spent, keys>>

(* filter::default_price *)
Listed == {i \in Id : Open(i) /\ price[i].count > 0}

(* remove_pub, remove_sub: a price that is used up is not found *)
RemovePrice(i) ==
    /\ i \in Listed
    /\ Disturb
    /\ price' = [price EXCEPT ![i] = Gone]
    /\ UNCHANGED <<product, txn, agent, offered, sold, keys>>

-----------------------------------------------------------------------------
(* trade_on_db *)

(* The caller gets an answer; the agent goes on to its next template, or gives
   its round up and starts again. *)
Answer(c, ok) ==
    /\ txn' = [txn EXCEPT ![c] = Idle]
    /\ agent' = IF c # Agent THEN agent
                ELSE IF ok THEN [agent EXCEPT !.plan = Tail(@), !.pc = "trade"]
                ELSE Restart

(* A caller knows the ids of prices that were inserted. *)
PostTrade(c, t) ==
    /\ c # Agent /\ txn[c] = Idle
    /\ None \notin {price[t.pub], price[t.sub]}
    /\ Disturb
    /\ txn' = [txn EXCEPT ![c] = [pc |-> "readPub", t |-> t]]
    /\ UNCHANGED <<product, price, agent, offered, sold, keys>>

(* Only a price of the right direction and cost is asked for its count. *)
Accepted(row, right, t) ==
    /\ row \notin {None, Gone}
    /\ \/ row.dir # right
       \/ (right = "Pub" /\ row.cost > t.cost)
       \/ (right = "Sub" /\ row.cost < t.cost)
       \/ row.count >= t.count

ReadPub(c) ==
    /\ txn[c].pc = "readPub"
    /\ LET t == txn[c].t  row == price[t.pub]
       IN  IF t.count > 0 /\ Accepted(row, "Pub", t)
           THEN /\ txn' = [txn EXCEPT ![c] = [pc |-> "readSub", t |-> t, pub |-> row]]
                /\ UNCHANGED agent
           ELSE Answer(c, FALSE)
    /\ UNCHANGED <<product, price, offered, sold, spent, keys>>

ReadSub(c) ==
    /\ txn[c].pc = "readSub"
    /\ LET t == txn[c].t  row == price[t.sub]
       IN  IF Accepted(row, "Sub", t)
           THEN /\ txn' = [txn EXCEPT ![c] =
                     [pc |-> "commit", t |-> t, pub |-> txn[c].pub, sub |-> row]]
                /\ UNCHANGED agent
           ELSE Answer(c, FALSE)
    /\ UNCHANGED <<product, price, offered, sold, spent, keys>>

(* A database that serialises transactions fails one whose rows have changed. *)
Isolated(x) == Serial => price[x.t.pub] = x.pub /\ price[x.t.sub] = x.sub

(* Mutant: the tables have no CHECK on the count that is left. *)
Unchecked(x) == keys => x.t.prod \in Id /\ Open(x.t.prod)

(* CHECK count >= 0, and the foreign keys of the table transactions: that of
   prod_id refers to the table of prices. *)
Constraints(x) ==
    /\ x.pub.count >= x.t.count /\ x.sub.count >= x.t.count
    /\ keys => x.t.prod \in Id /\ Open(x.t.prod)

Commits(x) ==
    /\ Open(x.t.pub) /\ Open(x.t.sub)
    /\ Isolated(x)
    /\ Constraints(x)

(* What is left is written from the count that was read. *)
Withdrawn(x) ==
    [price EXCEPT ![x.t.pub].count = x.pub.count - x.t.count,
                  ![x.t.sub].count = x.sub.count - x.t.count]

(* The answer of a committed trade may be lost on its way. *)
Commit(c, arrives) ==
    /\ txn[c].pc = "commit"
    /\ LET x == txn[c]
           traded == {x.t.pub, x.t.sub}
       IN  IF Commits(x)
           THEN /\ price' = Withdrawn(x)
                /\ sold' = [i \in Id |-> IF i \in traded THEN sold[i] + x.t.count ELSE sold[i]]
                /\ Answer(c, arrives)
           ELSE /\ UNCHANGED <<price, sold>>
                /\ Answer(c, FALSE)
    /\ IF arrives THEN UNCHANGED spent ELSE Disturb
    /\ UNCHANGED <<product, offered, keys>>

-----------------------------------------------------------------------------
(* The agent: one round *)

(* A page: the first PageLimit rows after start, in the order of their ids. *)
Page(S, start) ==
    LET after == {i \in S : i > start}
    IN  {i \in after : Cardinality({j \in after : j < i}) < PageLimit}

(* Mutant: the stream ends with its first page. *)
FirstPageOnly(page) == TRUE

(* create_stream: the next page starts after the last row of a full one. *)
IsLast(page) == Cardinality(page) # PageLimit

ListProducts ==
    /\ agent.pc = "products"
    /\ LET page == Page({p \in Product : product[p] = TRUE}, agent.start)
           seen == [agent EXCEPT !.prods = @ \union page]
       IN  agent' = IF IsLast(page) THEN [seen EXCEPT !.start = 0, !.pc = "next"]
                    ELSE [seen EXCEPT !.start = Max(page)]
    /\ UNCHANGED <<product, price, txn, offered, sold, spent, keys>>

(* get_product: a product that is gone is passed over. *)
NextProduct ==
    /\ agent.pc = "next"
    /\ agent' = IF agent.prods = {} THEN Restart
                ELSE LET p == Min(agent.prods)
                         rest == [agent EXCEPT !.prods = @ \ {p}]
                     IN  IF product[p] = TRUE THEN [rest EXCEPT !.prod = p, !.pc = "prices"]
                         ELSE rest
    /\ UNCHANGED <<product, price, txn, offered, sold, spent, keys>>

(* list_price_histogram: the prices of every product *)
Item(i) ==
    [id |-> i, dir |-> price[i].dir, cost |-> price[i].cost,
     count |-> price[i].count, at |-> price[i].at]

(* One page; the solver runs on what all pages have shown. *)
ListPrices ==
    /\ agent.pc = "prices"
    /\ LET page == Page(Listed, agent.start)
           hist == agent.hist \union {Item(i) : i \in page}
           seen == [agent EXCEPT !.hist = hist]
       IN  agent' = IF IsLast(page)
                    THEN [seen EXCEPT !.start = 0, !.pc = "trade", !.plan = Solve(agent.prod, hist)]
                    ELSE [seen EXCEPT !.start = Max(page)]
    /\ UNCHANGED <<product, price, txn, offered, sold, spent, keys>>

Trade ==
    /\ agent.pc = "trade"
    /\ IF agent.plan = <<>>
       THEN /\ agent' = [agent EXCEPT !.hist = {}, !.prod = 0, !.pc = "next"]
            /\ UNCHANGED txn
       ELSE /\ agent' = [agent EXCEPT !.hist = {}, !.pc = "wait"]
            /\ txn' = [txn EXCEPT ![Agent] = [pc |-> "readPub", t |-> Head(agent.plan)]]
    /\ UNCHANGED <<product, price, offered, sold, spent, keys>>

(* Any call of the agent may fail; loop_forever starts a new round. *)
RequestFails ==
    /\ agent.pc # "wait"
    /\ Disturb
    /\ agent' = Restart
    /\ UNCHANGED <<product, price, txn, offered, sold, keys>>

MarketAgent == ListProducts \/ NextProduct \/ ListPrices \/ Trade
Gateway(c) == ReadPub(c) \/ ReadSub(c) \/ Commit(c, TRUE)

Next ==
    \/ \E p \in Product : InsertProduct(p) \/ RemoveProduct(p)
    \/ \E i \in Id, p \in Product, x \in Offer : InsertPrice(i, p, x)
    \/ \E i \in Id : RemovePrice(i)
    \/ \E c \in Client, t \in Asked : PostTrade(c, t)
    \/ \E c \in Caller : Gateway(c) \/ Commit(c, FALSE)
    \/ MarketAgent
    \/ RequestFails

Spec == Init /\ [][Next]_vars
LiveSpec == Spec /\ WF_vars(MarketAgent) /\ \A c \in Caller : WF_vars(Gateway(c))

-----------------------------------------------------------------------------
(* Every variable has the shape its Rust type gives it. *)
TypeOK ==
    /\ product \in [Product -> {None, Gone, TRUE}]
    /\ price \in [Id -> Row \union {None, Gone}]
    /\ \A c \in Caller :
          \/ txn[c] = Idle
          \/ txn[c] \in [pc : {"readPub"}, t : TransactionTemplate]
          \/ txn[c] \in [pc : {"readSub"}, t : TransactionTemplate, pub : Row]
          \/ txn[c] \in [pc : {"commit"}, t : TransactionTemplate, pub : Row, sub : Row]
    /\ agent.pc \in {"products", "next", "prices", "trade", "wait"}
    /\ agent.prods \subseteq Product /\ agent.prod \in Product \union {0}
    /\ agent.hist \subseteq PriceItem /\ agent.plan \in Seq(TransactionTemplate)
    /\ offered \in [Id -> Count] /\ sold \in [Id -> Count]
    /\ keys \in BOOLEAN /\ spent \in 0 .. Limit

(* The gateway keeps what a Ledger promises, whoever posts what while others
   trade: as long as the database serialises its transactions, each price is sold
   at most as often as it was offered. *)
Stock == INSTANCE Ledger WITH
    Amount <- Count,
    left <- [i \in Id |-> IF Open(i) THEN price[i].count ELSE 0]
SellsStock == Stock!LSpec

(* A trade of the solver takes from a pub that asks for no more, and a sub that
   gives no less, than the cost it is made at, however old the list was. *)
FairTrade ==
    [][LET x == txn[Agent] IN
       x.pc = "commit" /\ txn'[Agent] = Idle /\ Commits(x) =>
           /\ price[x.t.pub].dir = "Pub" /\ price[x.t.pub].cost <= x.t.cost
           /\ price[x.t.sub].dir = "Sub" /\ price[x.t.sub].cost >= x.t.cost]_vars

(* A plan leaves no two listed prices that could trade with each other, takes
   from none more than it has, and takes from a dearer pub (a poorer sub) only
   when the better ones are used up. *)
Total(c) ==
    LET upTo[k \in 0 .. Len(c)] == IF k = 0 THEN 0 ELSE upTo[k - 1] + c[k]
    IN  upTo[Len(c)]
Amounts(plan, i) ==
    [k \in 1 .. Len(plan) |-> IF i \in {plan[k].pub, plan[k].sub} THEN plan[k].count ELSE 0]
Taken(plan, i) == Total(Amounts(plan, i))
Clears(hist, plan) ==
    LET rest(x) == x.count - Taken(plan, x.id)
    IN  /\ \A x \in hist : rest(x) >= 0
        /\ \A x, y \in hist :
              x.dir = "Pub" /\ y.dir = "Sub" /\ x.cost <= y.cost => rest(x) = 0 \/ rest(y) = 0
        /\ \A x, y \in hist :
              /\ x.dir = y.dir
              /\ IF x.dir = "Pub" THEN x.cost < y.cost ELSE x.cost > y.cost
              /\ Taken(plan, y.id) > 0
              => rest(x) = 0
PlansClear == agent.pc = "trade" /\ agent.hist # {} => Clears(agent.hist, agent.plan)

(* Types are right, and the solver's plans clear what it has listed. *)
Safe == TypeOK /\ PlansClear

Crossed ==
    \E i, j \in Listed :
        price[i].dir = "Pub" /\ price[j].dir = "Sub" /\ price[i].cost <= price[j].cost

(* A trade of the solver is about to commit that takes what both prices have left
   at a cost that suits both. *)
Tried ==
    LET x == txn[Agent] IN
    /\ x.pc = "commit" /\ {x.t.pub, x.t.sub} \subseteq Listed
    /\ price[x.t.pub].dir = "Pub" /\ price[x.t.pub].cost <= x.t.cost
    /\ price[x.t.sub].dir = "Sub" /\ price[x.t.sub].cost >= x.t.cost
    /\ x.t.count <= price[x.t.pub].count /\ x.t.count <= price[x.t.sub].count

(* Two prices that could trade with each other do not lie there unnoticed: as long
   as the book keeps a product, and whatever requests failed or came in between,
   the solver finds such a pair again and again, and brings a trade that fits it to
   the database, until there is none.  (Whether the database takes it is another
   matter: where foreign keys hold, as in SQLite, it takes none.) *)
CrossedIsTried ==
    <>[](\E p \in Product : product[p] = TRUE) => []<>(~Crossed \/ Tried)
=============================================================================
