---------------------------- MODULE MCSynthesizer ----------------------------
(***************************************************************************)
(* Apps for TLC.  img and Img share a repository, other has its own.  The  *)
(* stacks are alike, and so are the hashes.                                *)
(***************************************************************************)
EXTENDS Synthesizer, TLC

CONSTANTS img, Img, other

Names == {img, Img}

AllNames == Names \cup {other}

Repos == [name \in AllNames |-> IF name = other THEN "app/other" ELSE "app/img"]

Symmetric == Permutations(Stack) \cup Permutations(Hash)
=============================================================================
