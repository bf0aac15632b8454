--------------------------- MODULE MCAppConversion ---------------------------
(***************************************************************************)
(* Assemblies for TLC: every dependency relation without circles (the CDK  *)
(* refuses circles between stacks) on M stacks in any manifest order; one  *)
(* more artifact, at most one staging stack, at most one broken stack.     *)
(***************************************************************************)
EXTENDS AppConversion

Orders == {p \in [1..M -> 1..M] : \A s, d \in 1..M : p[s] = p[d] => s = d}

Relations ==
  UNION {{[s \in 1..M |-> {d \in 1..M : <<s, d>> \in E}] :
           E \in SUBSET {e \in (1..M) \X (1..M) : p[e[2]] < p[e[1]]}} : p \in Orders}

AnyAssembly ==
  {[dependencies |-> deps, staging |-> G, broken |-> B] :
     deps \in {[s \in 1..M |-> IF s = o[1] THEN r[s] \cup {Other} ELSE r[s]] :
                 r \in Relations, o \in {<<0>>, <<1>>, <<M>>}},
     G \in {{}, {1}}, B \in {{}, {2}}}

Dependent == {[dependencies |-> r, staging |-> {}, broken |-> {}] : r \in Relations}
=============================================================================
