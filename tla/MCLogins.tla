------------------------------ MODULE MCLogins ------------------------------
(* Logins on small instances.                                              *)
EXTENDS Logins, TLC

\* Only equality tells these values apart.
Interchangeable == Permutations(Requests) \cup Permutations(Passwords)
=============================================================================
