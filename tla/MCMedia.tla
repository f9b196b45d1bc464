------------------------------- MODULE MCMedia -------------------------------
(* Media on small pools of memory blocks. *)
EXTENDS Media, TLC

\* Blocks of one kind are interchangeable: no definition tells them apart, and
\* Init, the only user of CHOOSE, chooses a key.
Interchangeable ==
    Permutations(Clients) \cup Permutations(Sessions) \cup Permutations(Frames)

==============================================================================
