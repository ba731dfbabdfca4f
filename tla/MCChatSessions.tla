-------------------------- MODULE MCChatSessions --------------------------
(* ChatSessions on small instances.                                        *)
EXTENDS ChatSessions

\* Only equality tells turns apart.
Interchangeable == Permutations(Turns)
=============================================================================
