----------------------------- MODULE SubTemplate -----------------------------
(***************************************************************************)
(* The template of an Fn::Sub (src/sub.ts): a sequence of the characters   *)
(* "$", "{", "}", "!" and "." and of the words between them.               *)
(***************************************************************************)
EXTENDS Integers, Sequences

(***************************************************************************)
(* Where the match of subRegex that starts at i ends, 0 for no match: at   *)
(* the first brace after the first character of the id, which is not "!".  *)
(***************************************************************************)
subRegex(s, i) ==
  LET ends == {j \in (i + 3)..Len(s) : s[j] = "}" /\ \A k \in (i + 3)..(j - 1) : s[k] # "}"}
  IN  IF ends # {} /\ SubSeq(s, i, i + 1) = <<"$", "{">> /\ s[i + 2] # "!"
      THEN CHOOSE j \in ends : TRUE ELSE 0

(***************************************************************************)
(* replace(litRegex, "${").                                                *)
(***************************************************************************)
Unescaped(s) ==
  LET escape(k) == k > 2 /\ SubSeq(s, k - 2, k) = <<"$", "{", "!">>
      kept      == SelectSeq([k \in DOMAIN s |-> k], LAMBDA k : ~escape(k))
  IN  [i \in DOMAIN kept |-> s[kept[i]]]

(***************************************************************************)
(* [id, attr] of the inside of a hole; attr is <<>> without a dot, and the *)
(* empty name when nothing follows the dot.                                *)
(***************************************************************************)
Reference(s) ==
  LET dots == {k \in 2..Len(s) : s[k] = "."}
      dot  == IF dots = {} THEN Len(s) + 1 ELSE CHOOSE k \in dots : \A j \in dots : k <= j
  IN  [id |-> SubSeq(s, 1, dot - 1), attr |-> IF dot = Len(s) THEN <<"">> ELSE SubSeq(s, dot + 1, Len(s))]

NoReference == [id |-> <<>>, attr |-> <<>>]

partsOf(s, parts, start) ==
  LET matches == {i \in start..Len(s) : subRegex(s, i) # 0}
      first   == CHOOSE i \in matches : \A j \in matches : i <= j
      end     == subRegex(s, first)
  IN  CASE matches # {} ->
             <<[str |-> Unescaped(SubSeq(s, start, first - 1)), ref |-> Reference(SubSeq(s, first + 2, end - 1))]>>
               \o parts[end + 1]
        [] start <= Len(s) -> <<[str |-> Unescaped(SubSeq(s, start, Len(s))), ref |-> NoReference]>>
        [] OTHER -> <<>>

(***************************************************************************)
(* parts[i] is what the loop of parseSub pushes from there on.             *)
(***************************************************************************)
parseSub(template) ==
  LET parts[start \in 1..(Len(template) + 1)] == partsOf(template, parts, start) IN parts[1]
=============================================================================
