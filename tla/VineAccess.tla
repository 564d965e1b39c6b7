----------------------------- MODULE VineAccess -----------------------------
(***************************************************************************)
(* Who a request comes from and what he may have (crates/vine/rbac): the    *)
(* name that a token's claims become, the session that the API server's    *)
(* lists make of it, and the quota that a login looks for.  Pure operators: *)
(* a cluster is what the API server would answer at one moment.             *)
(***************************************************************************)
LOCAL INSTANCE Naturals
LOCAL INSTANCE Sequences
LOCAL INSTANCE SequencesExt

CONSTANTS
    Lower,      \* the characters of names, each with its lower case
    Claims,     \* [username, email, id]: sequences of characters, empty if not there
    Clusters,   \* what the API server may hold
    Requests,   \* [authorization, claims, namespace]
    Quantities  \* [digits, unit]: 40Ki is [digits |-> <<4, 0>>, unit |-> "Ki"]

Accept(x) == [ok |-> TRUE, value |-> x]
Deny(error) == [ok |-> FALSE, value |-> error]
Then(r, F(_)) == IF r.ok THEN F(r.value) ELSE r

-----------------------------------------------------------------------------
(* primary_key *)

Replace(s, c, code) ==
    FlattenSeq([i \in DOMAIN s |-> IF s[i] = c THEN code ELSE <<s[i]>>])
LowerCase(s) == [i \in DOMAIN s |-> Lower[s[i]]]

Encode(s) ==
    Replace(Replace(Replace(Replace(LowerCase(s),
        "-", <<"-", "s", "-">>), ".", <<"-", "d", "-">>), "@", <<"-", "a", "t", "-">>),
        "_", <<"-", "u", "-">>)

(* The name, the e-mail address if it is one, the id: whichever is there first. *)
PrimaryKey(p) ==
    CASE p.username # <<>> -> Accept(<<"name", Encode(p.username)>>)
      [] p.username = <<>> /\ p.email # <<>> -> Accept(<<"email", Encode(p.email)>>)
      [] p.username = <<>> /\ p.email = <<>> /\ p.id # <<>> -> Accept(<<"id", Encode(p.id)>>)
      [] OTHER -> Deny("PrimaryKeyMalformed")

(* get_user_token: a header that is not there, not text, or not a bearer's. *)
UserToken(r) ==
    CASE r.authorization \in {"none", "other"} -> Deny("AuthorizationTokenNotFound")
      [] r.authorization = "unreadable"        -> Deny("AuthorizationTokenMalformed")
      [] OTHER                                 -> Accept(r.claims)

(* get_user_name_with_timestamp_impl: the claims are what the token's second
   part decodes to. *)
UserName(claims) ==
    IF claims = {} THEN Deny("AuthorizationTokenMalformed")
    ELSE PrimaryKey(CHOOSE p \in claims : TRUE)

-----------------------------------------------------------------------------
(* Bindings and roles.  A binding [user, to, expired] counts if its time, when it
   has one, is over. *)

Timely(b, now) == \A t \in b.expired : t < now

(* Mutant: the bindings of everybody count. *)
BindingsOfAll(bs, name, now) == SelectSeq(bs, LAMBDA b : Timely(b, now))

Bindings(bs, name, now) == SelectSeq(bs, LAMBDA b : b.user = name /\ Timely(b, now))
Bound(bs, name, now, known) ==
    LET mine == Bindings(bs, name, now)
    IN  SelectSeq([i \in DOMAIN mine |-> mine[i].to], LAMBDA x : x \in known)

Rights == {"admin", "dev", "ops"}
BitOr(a, b) == a \union b
SumOfRoles(rs) == FoldLeft(BitOr, {}, rs)

(* A list that fails reads as an empty one. *)
Listed(c, kind) == IF kind \in c.fails THEN <<>> ELSE c[kind]

(* get_user_role *)
UserRole(c, name, now) ==
    LET roles == Listed(c, "roles")
        held == Bound(Listed(c, "roleBindings"), name, now, DOMAIN roles)
    IN  SumOfRoles([i \in DOMAIN held |-> roles[held[i]]])

PreferredName(c, key) == IF c.users[key].alias # {} THEN CHOOSE a \in c.users[key].alias : TRUE ELSE key
NamespaceOf(name) == <<"vine-session", name>>

(* check_user_namespace *)
CheckNamespace(wanted, name, role) ==
    IF wanted = {} THEN Accept(NamespaceOf(name))
    ELSE LET n == CHOOSE n \in wanted : TRUE
         IN  IF "admin" \in role \/ n = NamespaceOf(name) THEN Accept(n)
             ELSE Deny("NamespaceNotAllowed")

(* get_user_namespace *)
RequestNamespace(r, name, role) ==
    IF r.namespace = {<<"unreadable">>} THEN Deny("NamespaceTokenMalformed")
    ELSE CheckNamespace(r.namespace, name, role)

-----------------------------------------------------------------------------
(* from_request_with_timestamp *)

(* A box is there if the last of its node's conditions is true. *)
ReadyBoxes(c) ==
    LET nodes == Listed(c, "nodes")
    IN  {n \in DOMAIN nodes : nodes[n] # <<>> /\ Last(nodes[n])}

BoxOf(u) == IF u.bound THEN u.node ELSE {}

SessionOf(c, key, role, namespace, now) ==
    LET name == PreferredName(c, key)
        quotas == Listed(c, "quotas")
    IN  [user_name |-> name, role |-> role, namespace |-> namespace,
         box_bindings |-> Bound(Listed(c, "boxBindings"), name, now, ReadyBoxes(c)),
         box_quota_bindings |-> Bound(Listed(c, "quotaBindings"), name, now, DOMAIN quotas),
         box_name |-> BoxOf(c.users[key])]

FromRequest(c, r, now) ==
    Then(Then(UserToken(r), UserName), LAMBDA key :
        IF "users" \in c.fails \/ key \notin DOMAIN c.users THEN Deny("UserNotRegistered")
        ELSE LET role == UserRole(c, PreferredName(c, key), now)
             IN  Then(RequestNamespace(r, PreferredName(c, key), role),
                      LAMBDA n : Accept(SessionOf(c, key, role, n, now))))

(* namespaced *)
Namespaced(s, wanted) ==
    Then(CheckNamespace(wanted, s.user_name, s.role),
         LAMBDA n : Accept([s EXCEPT !.namespace = n]))

(* try_into_ark_session *)
ArkSession(s) ==
    IF s.box_name = {} THEN Deny("SessionNotBinded")
    ELSE Accept([namespace |-> s.namespace, node_name |-> s.box_name, user_name |-> s.user_name])

-----------------------------------------------------------------------------
(* node_selector *)

(* Thousandths; the units that are left out go on in the same way. *)
Weight == [m |-> 1, Ki |-> 1000 * 2048, K |-> 1000 * 80, M |-> 1000 * 640, G |-> 1000 * 5120]

Number(digits) == FoldLeft(LAMBDA n, d : 10 * n + d, 0, digits)

(* parse_quantity: two characters of a quantity with a unit are not its number. *)
ParseQuantity(q) ==
    LET ds == IF q.unit \in {"", "Ki"} THEN q.digits ELSE Front(q.digits)
    IN  IF ds = <<>> THEN Deny("invalid float literal")
        ELSE Accept(Number(ds) * (IF q.unit = "" THEN 1000 ELSE Weight[q.unit]))

(* is_affordable_atomic *)
AffordableAtomic(capacity, requirement) ==
    LET c == ParseQuantity(capacity)  r == ParseQuantity(requirement)
    IN  c.ok /\ r.ok /\ c.value >= r.value

(* is_affordable: a resource that the node does not name is not asked about. *)
Affordable(capacity, limits) ==
    \A key \in DOMAIN limits :
        key \in DOMAIN capacity => AffordableAtomic(capacity[key], limits[key])

-----------------------------------------------------------------------------
(* execute_with: the same lists, where one that fails ends the login *)

LoginQuota(c, name, capacity, now) ==
    SelectSeq(Bound(c.quotaBindings, name, now, DOMAIN c.quotas),
              LAMBDA q : Affordable(capacity, c.quotas[q]))

NodeReserved(c, name, box, now) ==
    LET bs == SelectSeq(c.boxBindings, LAMBDA b : b.to = box /\ Timely(b, now))
    IN  bs # <<>> /\ \A i \in DOMAIN bs : bs[i].user # name

-----------------------------------------------------------------------------
(* Two tokens are the same user only if what they are named by is the same, but
   for its case: no encoding makes one name of two. *)
Named(p) ==
    CASE p.username # <<>> -> <<"name", LowerCase(p.username)>>
      [] p.username = <<>> /\ p.email # <<>> -> <<"email", LowerCase(p.email)>>
      [] OTHER -> <<"id", LowerCase(p.id)>>
KeysDiffer ==
    \A p, q \in Claims :
        PrimaryKey(p).ok /\ PrimaryKey(p) = PrimaryKey(q) => Named(p) = Named(q)

(* Quantities of one unit are compared as their numbers; where a digit is lost, a
   node that has enough is not refused. *)
QuantitiesCompare ==
    \A c, r \in Quantities :
        c.unit = r.unit =>
            IF c.unit \in {"", "Ki"}
            THEN AffordableAtomic(c, r) <=> Number(c.digits) >= Number(r.digits)
            ELSE /\ Len(c.digits) > 1 /\ Len(r.digits) > 1
                 /\ Number(c.digits) >= Number(r.digits)
                 => AffordableAtomic(c, r)

(* What a session shows its user is what a login gives him: no box of his session
   is reserved for another, and a quota is found for a node exactly if the session
   has one that the node affords. *)
SessionsMatchLogins ==
    \A c \in Clusters, r \in Requests, now \in 1 .. 2 :
        LET s == FromRequest(c, r, now)
        IN  c.fails = {} /\ s.ok =>
            /\ \A i \in DOMAIN s.value.box_bindings :
                  ~NodeReserved(c, s.value.user_name, s.value.box_bindings[i], now)
            /\ \A n \in DOMAIN c.capacity :
                  LoginQuota(c, s.value.user_name, c.capacity[n], now) # <<>>
                  <=> \E i \in DOMAIN s.value.box_quota_bindings :
                          Affordable(c.capacity[n], c.quotas[s.value.box_quota_bindings[i]])

(* A namespace asked for later is given exactly if it would have been given with
   the request, and changes nothing else. *)
NamespacesAgree ==
    \A c \in Clusters, r \in {x \in Requests : x.namespace # {<<"unreadable">>}} :
        LET s == FromRequest(c, [r EXCEPT !.namespace = {}], 1)
        IN  s.ok => LET later == Namespaced(s.value, r.namespace)
                        once == FromRequest(c, r, 1)
                    IN  later.ok = once.ok /\ (once.ok => later = once)

(* A list that fails takes rights, boxes and quotas away, and gives none. *)
Within(s, t) == {s[i] : i \in DOMAIN s} \subseteq {t[i] : i \in DOMAIN t}
FailuresTakeAway ==
    \A c \in Clusters, r \in Requests :
        LET s == FromRequest(c, r, 1)  t == FromRequest([c EXCEPT !.fails = {}], r, 1)
        IN  s.ok => /\ t.ok
                    /\ s.value.role \subseteq t.value.role
                    /\ Within(s.value.box_bindings, t.value.box_bindings)
                    /\ Within(s.value.box_quota_bindings, t.value.box_quota_bindings)
                    /\ ArkSession(s.value) = ArkSession(t.value)

(* A request is taken for the right user, who is shown what he can have. *)
AccessIsSound ==
    /\ KeysDiffer
    /\ QuantitiesCompare
    /\ SessionsMatchLogins
    /\ NamespacesAgree
    /\ FailuresTakeAway
=============================================================================
