----------------------------- MODULE MCEnvelope -----------------------------
(* Two processes, two versions and three credentials of one student.       *)
EXTENDS Envelope, TLC

CONSTANTS ann, c1, c2, c3

OneOwner == c1 :> ann @@ c2 :> ann @@ c3 :> ann

Interchangeable == Permutations(Processes) \cup Permutations({c1, c2})
=============================================================================
