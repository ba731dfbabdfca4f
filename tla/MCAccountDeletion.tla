------------------------- MODULE MCAccountDeletion -------------------------
(* AccountDeletion on small instances.                                     *)
EXTENDS AccountDeletion, TLC

\* Only equality tells ids apart.
Interchangeable == Permutations(Chats) \cup Permutations(Keys)
=============================================================================
