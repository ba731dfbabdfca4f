---------------------------- MODULE MCKeyVault ----------------------------
(* KeyVault on small instances.                                            *)
EXTENDS KeyVault, TLC

\* Only equality tells these values apart.
Interchangeable ==
    Permutations(Keys) \cup Permutations(Materials) \cup Permutations(Labels)
        \cup Permutations(Requests)

\* The answer of a request that has ended decides nothing.
WithoutAnswers ==
    <<rows, secrets, refused, drawn, casualties, contended,
      [r \in Requests |-> IF req[r].pc = "idle" THEN {} ELSE req[r]]>>

\* Only PageIsTrue reads what overlapped.
WithoutOverlaps ==
    <<rows, secrets, refused, drawn, casualties,
      [r \in Requests |-> IF req[r].pc = "idle" THEN {} ELSE req[r]]>>
=============================================================================
