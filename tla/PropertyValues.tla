---------------------------- MODULE PropertyValues ----------------------------
(***************************************************************************)
(* The values that the properties of a resource can have: a record         *)
(* [kind, text, items] where text is a sequence of strings and the items   *)
(* of an object or a list are [key, value] records.                        *)
(***************************************************************************)
EXTENDS Integers, Sequences

Value(kind, text, items) == [kind |-> kind, text |-> text, items |-> items]

Leaf(text)      == Value("string", text, <<>>)
Undefined       == Value("undefined", <<>>, <<>>)
Error           == Value("error", <<>>, <<>>)   \* what an eventual value may end in
Field(k, v)     == [key |-> k, value |-> v]
Object(fields)  == Value("object", <<>>, fields)
List(vs)        == Value("list", <<>>, [i \in DOMAIN vs |-> Field(<<>>, vs[i])])
Secret(v)       == Value("secret", <<>>, <<Field(<<>>, v)>>)

(***************************************************************************)
(* An Output or a Promise of v; one of an eventual value is one of v.      *)
(***************************************************************************)
Eventually(v) == IF v.kind = "eventual" THEN v ELSE Value("eventual", <<>>, <<Field(<<>>, v)>>)

Inside(v) == v.items[1].value

(***************************************************************************)
(* F of the value and f of the key of every item.                          *)
(***************************************************************************)
EachItem(v, f(_), F(_, _)) ==
  [v EXCEPT !.items = [i \in DOMAIN @ |-> Field(f(@[i].key), F(@[i].key, @[i].value))]]

Has(v, k) == \E i \in DOMAIN v.items : v.items[i].key = k

Get(v, k) ==
  IF Has(v, k) THEN v.items[CHOOSE i \in DOMAIN v.items : v.items[i].key = k].value ELSE Undefined
=============================================================================
