----------------------------- MODULE MCChatInput -----------------------------
(* Model checking of ChatInput. *)
EXTENDS ChatInput, TLC

Symmetry == Permutations(Channel) \cup Permutations(File) \cup Permutations(Text)

Budget(k, c, f, b, v, t, r, e, x) ==
  [takes |-> k, cameras |-> c, files |-> f, batches |-> b, videos |-> v,
   texts |-> t, tries |-> r, foreign |-> e, cuts |-> x]

\* Two takes and a file; three cameras; a take, a camera and a batch; two batches of two
\* files beside a video; a text with files, given up and sent again around a lost
\* connection; two texts, of which one is sent again, and a message from elsewhere; a take
\* around a lost connection.
MCBudgets ==
  { Budget(2, 0, 1, 0, 0, 0, 0, 0, 0), Budget(0, 3, 0, 0, 1, 0, 0, 0, 0),
    Budget(1, 1, 1, 1, 0, 0, 0, 0, 0), Budget(0, 0, 2, 2, 1, 0, 0, 0, 0),
    Budget(0, 0, 1, 1, 0, 1, 2, 0, 1), Budget(0, 0, 0, 0, 0, 2, 2, 1, 1),
    Budget(1, 0, 1, 0, 0, 0, 0, 0, 1) }
=============================================================================
