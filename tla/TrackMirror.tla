---------------------------- MODULE TrackMirror ----------------------------
(***************************************************************************)
(* What negotiation promises to one participant of a call: the tracks the  *)
(* client has follow the tracks the server wants it to have. The client    *)
(* may skip versions, it never goes back, never gets what the server did   *)
(* not want, and while the call lasts it catches up.                       *)
(***************************************************************************)
EXTENDS Naturals

VARIABLES
  want,   \* the version of the set of tracks the server wants the client to have
  view,   \* the version the client has
  on      \* is the client in the call

vars == <<want, view, on>>

Init == want = 0 /\ view = 0 /\ on = FALSE

Begin == ~on /\ on' = TRUE /\ UNCHANGED <<want, view>>

End == on /\ on' = FALSE /\ view' = 0 /\ want' = 0

Change == on /\ want' = want + 1 /\ UNCHANGED <<view, on>>

Sync ==
  /\ on
  /\ \E v \in view + 1 .. want : view' = v
  /\ UNCHANGED <<want, on>>

Next == Begin \/ End \/ Change \/ Sync

Spec == Init /\ [][Next]_vars

FairSpec == Spec /\ WF_vars(Sync)
=============================================================================
