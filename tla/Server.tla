-------------------------------- MODULE Server --------------------------------
(***************************************************************************)
(* The server with its store: relationships (Friends), channels and who is *)
(* in them (Membership), which asks for relationships, and accounts,       *)
(* sessions and presence (Accounts), which share no record with the other  *)
(* two. What each writes is on disk at once; a crash loses the calls that  *)
(* are in progress, whatever they have written so far, and every           *)
(* connection.                                                             *)
(***************************************************************************)
EXTENDS Membership, Accounts

\* Bounds: a behaviour keeps to one of these plans, a record of how much there may be of
\* each thing. What a plan has none of begins as in a new server.
CONSTANT Plans

VARIABLE plan

serverVars == <<friendVars, memberVars, accountVars, plan>>

Within == cuts <= plan.cuts /\ opened <= plan.opened /\ lapses <= plan.lapses

ServerInit ==
  /\ FriendsInit /\ MembershipInit /\ AccountsInit /\ plan \in Plans
  /\ User \ Acquainted \subseteq askable
  /\ plan.calls = 0 => askable = User
  /\ plan.acts = 0 => used = {} /\ adders = CHOOSE t \in Settings : TRUE
  /\ plan.accounts = 0 => issued = 0

\* Relationships of two users whose call breaks off may be left out of order; a client
\* that waits for a frame or an answer may miss something.
BreakCalls ==
  LET broken == {{u, calls[u].to} : u \in {v \in User : calls[v] # None}}
      waits(u) == \/ told[u] > 0 \/ \E p \in broken : u \in p
                  \/ \E l \in List, i \in 1 .. MaxAsked : i \in DOMAIN asked[u][l] /\ ~asked[u][l][i].read
      missing == {u \in Client : waits(u)} IN
    /\ calls' = [u \in User |-> None]
    /\ blemished' = blemished \cup {p \in broken : ~InOrder(p)}
    /\ online' = {} /\ told' = [u \in Client |-> 0]
    /\ asked' = [u \in Client |-> [l \in List |->
                   IF u \in missing THEN Late(Answers(asked[u][l])) ELSE asked[u][l]]]
    /\ crossed' = crossed \cup (missing \X List)
    /\ UNCHANGED <<store, shown, called, cuts, barred>>

BreakActs ==
  /\ acts' = [u \in User |-> None]
  /\ halfway' = halfway \cup {acts[u].c : u \in {v \in User : acts[v] # None /\ acts[v].op = "dm"}}
  /\ UNCHANGED <<records, adders, acted, sent, memberHistory>>

Crash == Restart /\ BreakCalls /\ BreakActs

ServerNext ==
  /\ \/ /\ \/ called < plan.calls /\ FriendsCall
           \/ plan.calls > 0 /\ FriendsWork
        /\ UNCHANGED <<memberVars, accountVars>>
     \/ /\ \/ acted < plan.acts /\ MembershipCall
           \/ plan.acts > 0 /\ MembershipWork
        /\ UNCHANGED <<friendVars, accountVars>>
     \/ /\ \/ done < plan.accounts /\ AccountsCall
           \/ plan.accounts > 0 /\ AccountsWork
        /\ UNCHANGED <<friendVars, memberVars>>
     \/ Crash
  /\ UNCHANGED plan /\ Within'

ServerSpec == ServerInit /\ [][ServerNext]_serverVars

-----------------------------------------------------------------------------
(* Properties *)

\* What two users are to each other: they agree, and a block stands.
RelationshipsHold == FriendsAgree /\ BlocksStand

\* Who was removed stays out, a deleted channel is gone, two users have one conversation,
\* and nobody is added by whom he had blocked.
MembershipHolds == RemovedStaysOut /\ DeletedIsGone /\ OneConversation /\ BlocksKeepOut
=============================================================================
