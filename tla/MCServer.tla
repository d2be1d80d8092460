------------------------------- MODULE MCServer -------------------------------
(* Model checking of Server. *)
EXTENDS Server, TLC

CONSTANTS u1, u2, u3

Symmetry == Permutations(Device)

\* An owner, an admin and a member.
MCRanks == u1 :> 2 @@ u2 :> 1 @@ u3 :> 0

\* Everybody may add everybody; friends may, and nobody may add u3.
MCSettings == {[u \in User |-> "everyone"],
               [u \in User |-> IF u = u3 THEN "nobody" ELSE "friends"]}

Plan(c, k, a, n, o, l) == [calls |-> c, cuts |-> k, acts |-> a, accounts |-> n, opened |-> o, lapses |-> l]

\* Three calls about friends; two with one loss; one with two; two with a crash; two calls about
\* channels with a crash, and one beside a block; two of accounts beside a connection, one beside
\* two connections and a crash, and two with a crash.
MCPlans ==
  { Plan(3, 0, 0, 0, 0, 0), Plan(2, 1, 0, 0, 0, 0), Plan(1, 2, 0, 0, 0, 0), Plan(2, 0, 0, 0, 0, 1),
    Plan(0, 0, 2, 0, 0, 1), Plan(1, 0, 1, 0, 0, 0),
    Plan(0, 0, 0, 2, 1, 0), Plan(0, 0, 0, 1, 2, 1), Plan(0, 0, 0, 2, 0, 1) }
=============================================================================
