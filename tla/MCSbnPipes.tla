----------------------------- MODULE MCSbnPipes -----------------------------
(***************************************************************************)
(* Small instances of SbnPipes.  Messages are model values; which id each  *)
(* carries is fixed here, and a cfg chooses how many there are.            *)
(***************************************************************************)
EXTENDS SbnPipesQueue, TLC

CONSTANTS a1, a2, m1, m2, m3

\* m1 and m2 carry the first id, m3 the second.
MCMsgIdOf == [m \in Msgs |-> IF m = m3 THEN 2 ELSE 1]

\* The threads of the application are alike, and so are m1 and m2: neither
\* the specification nor a safety property tells one from the other.
Symmetry == Permutations(Apps) \cup Permutations(Msgs \ {m3})
=============================================================================
