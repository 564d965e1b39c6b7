--------------------------- MODULE MCVineSession ---------------------------
(***************************************************************************)
(* Two users and two nodes; the second node is bound to the second user.   *)
(* Beside them, the tokens, lists and quantities of access control.        *)
(***************************************************************************)
EXTENDS VineSession, VineAccess, TLC

CONSTANTS u1, u2, n1, n2

OneBinding == {[user |-> u2, node |-> n2, autologin |-> TRUE]}
AllQuotas == (User \X Node) \ {<<u1, n2>>}

(* Names of letters and the characters that are encoded, and names that look
   like an encoded one. *)
Chars == "a" :> "a" @@ "A" :> "a" @@ "d" :> "d" @@ "s" :> "s" @@ "-" :> "-" @@ "." :> "."
         @@ "@" :> "@" @@ "_" :> "_"
Strings == UNION {[1 .. k -> {"a", "A", "d", "-", ".", "@"}] : k \in 0 .. 2}
           \union {<<"-", c, "-">> : c \in {"a", "d", "s"}}
Payload(name, email, id) == [username |-> name, email |-> email, id |-> id]
Payloads == {Payload(s, <<"a">>, <<>>) : s \in Strings}
            \union {Payload(<<>>, e, <<"s">>) : e \in {<<>>, <<"a">>, <<"A", "@", "a">>}}
            \union {Payload(<<>>, <<>>, i) : i \in {<<>>, <<"a">>}}

(* Two people, one of them under an alias; bindings to roles, boxes and quotas,
   over and not over at time 1; nodes with a last condition. *)
A == <<"name", <<"a">>>>
D == <<"name", <<"d">>>>
Alias == <<"alias", <<"a">>>>
To(u, x, t) == [user |-> u, to |-> x, expired |-> t]
Ki(n) == [digits |-> n, unit |-> "Ki"]
ClustersOf ==
    {[users |-> A :> [alias |-> al, bound |-> al = {}, node |-> {"n"}]
                @@ D :> [alias |-> {}, bound |-> FALSE, node |-> {}],
      roles |-> "r" :> {"admin"} @@ "s" :> {"dev"},
      roleBindings |-> rb,
      nodes |-> "n" :> last @@ "o" :> <<FALSE, TRUE>>,
      boxBindings |-> <<To(u, "n", t), To(D, "o", {})>>,
      quotas |-> "q" :> ("cpu" :> Ki(<<4>>)) @@ "p" :> <<>>,
      quotaBindings |-> <<To(u, "q", t), To(D, "p", {})>>,
      capacity |-> "n" :> ("cpu" :> Ki(<<2>>)) @@ "o" :> ("cpu" :> Ki(<<1, 0>>)),
      fails |-> f] :
        al \in {{}, {Alias}}, u \in {A, D, Alias}, t \in {{}, {1}},
        last \in {<<>>, <<TRUE>>, <<TRUE, FALSE>>},
        rb \in {<<>>, <<To(D, "r", {})>>, <<To(A, "s", {}), To(A, "r", {1})>>},
        f \in {{}, {"users"}, {"roles", "boxBindings"}, {"roleBindings", "nodes", "quotas"},
               {"quotaBindings"}}}
RequestsOf ==
    {[authorization |-> "bearer", claims |-> p, namespace |-> n] :
        p \in {{Payload(<<x>>, <<>>, <<>>)} : x \in {"a", "A", "d", "s"}} \union {{}},
        n \in {{}, {<<"unreadable">>}, {<<"default">>}, {NamespaceOf(A)}}}
    \union {[authorization |-> h, claims |-> {}, namespace |-> {}] : h \in {"none", "other", "unreadable"}}
QuantitiesOf ==
    {[digits |-> d, unit |-> t] : d \in {<<x>> : x \in 0 .. 9} \union {<<x, y>> : x \in 1 .. 3, y \in 0 .. 9},
                                  t \in {"", "m", "Ki", "K", "M", "G"}}

(* What access control says of a request depends on the lists it reads alone, and
   is asked once, where a run begins: a request is taken for the right user, who
   is shown what he can have.                                                *)
AccessHolds == Init => AccessIsSound
=============================================================================
