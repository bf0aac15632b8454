---------------------------- MODULE MCGraphSort ----------------------------
(***************************************************************************)
(* Instances of GraphSort for TLC.                                         *)
(***************************************************************************)
EXTENDS GraphSort, FiniteSets

(***************************************************************************)
(* Every graph parseTree and the edge pass can build with N constructs:    *)
(* node 1 is the Stack and the only node without a parent; parents are     *)
(* inserted before their children; only resources have references, and     *)
(* only to resources (cfnElementNodes), themselves included.               *)
(***************************************************************************)
BuiltGraphs(MaxRefs) ==
  {g \in [parent   : {p \in [1..N -> 0..N] : \A n \in 1..N : p[n] < n /\ (p[n] = 0 => n = 1)},
          resource : SUBSET (2..N),
          refs     : [1..N -> {R \in SUBSET (2..N) : Cardinality(R) <= MaxRefs}]] :
     \A n \in 1..N : /\ g.refs[n] \subseteq g.resource
                     /\ n \notin g.resource => g.refs[n] = {}}

AllGraphs == BuiltGraphs(N)
=============================================================================
