------------------------------ MODULE MCTreeParse ------------------------------
(***************************************************************************)
(* Trees for TLC: all that up to Units constructions give, in any scope. A *)
(* construction adds a wrapper, a resource, a nested stack (X,             *)
(* X.NestedStack and its resource) or a construct that is only named like  *)
(* the second half of one: alone, beside a wrapper or a resource X, or     *)
(* before the wrapper or resource X is added beside it.                    *)
(***************************************************************************)
EXTENDS TreeParse

CONSTANT Units

Root == [parent |-> <<0>>, kind |-> <<"wrapper">>, twin |-> <<0>>, 
         unlisted |-> {}, missing |-> {}, mistyped |-> {}, extra |-> {}]

With(t, parents, kinds, twins) ==
  [t EXCEPT !.parent = @ \o parents, !.kind = @ \o kinds, !.twin = @ \o twins]

Scopes(t) == {n \in Nodes(t) : t.kind[n] \notin {"holder", "stack"}}

Untwinned(t, p, kinds) ==
  {x \in Nodes(t) : /\ t.parent[x] = p /\ t.kind[x] \in kinds /\ t.twin[x] = 0
                    /\ \A h \in Nodes(t) : t.twin[h] # x}

Constructions(t) ==
  LET n == Len(t.parent) + 1
      Added(p, kind) == With(t, <<p>>, <<kind>>, <<0>>)
      Holder(p, x) == With(t, <<p, n>>, <<"holder", "stack">>, <<x, 0>>)
  IN  UNION {{Added(p, "wrapper"), Added(p, "resource"),
              With(t, <<p, p, n + 1>>, <<"nested", "holder", "stack">>, <<0, n, 0>>)}
               \cup {Holder(p, x) : x \in {0} \cup Untwinned(t, p, {"wrapper", "resource"})}
               \cup {[Added(p, kind) EXCEPT !.twin[h] = n] :
                        h \in Untwinned(t, p, {"holder"}), kind \in {"wrapper", "resource"}}
             : p \in Scopes(t)}

TreesOf ==
  LET of[k \in 0..Units] == IF k = 0 THEN {Root}
                            ELSE of[k - 1] \cup UNION {Constructions(t) : t \in of[k - 1]}
  IN  of[Units]

(***************************************************************************)
(* As synthesized, or with one resource without metadata, without template *)
(* entry or with another type, or with an entry of a template that has no  *)
(* construct.                                                              *)
(***************************************************************************)
Faults(t) ==
  LET n == Len(t.parent)
  IN  {[t EXCEPT !.extra = {1}]}
        \cup (IF t.kind[n] \notin {"resource", "stack"} THEN {}
              ELSE {[t EXCEPT !.unlisted = {n}], [t EXCEPT !.mistyped = {n}], [t EXCEPT !.missing = {n}]})

AnyTree == {t \in TreesOf \cup UNION {Faults(t) : t \in TreesOf} : TreeType(t)}
=============================================================================
