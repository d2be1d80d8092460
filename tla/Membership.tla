----------------------------- MODULE Membership -----------------------------
(***************************************************************************)
(* Channels and who is in them: channels.go, the channels of store.go and  *)
(* queries.go, read receipts (handlers.go), and the privacy settings that  *)
(* decide whom one may add.                                                *)
(*                                                                         *)
(* Every read and every write of a record is a transaction of its own.  A  *)
(* call checks what it must and is left with a list of tasks; most change  *)
(* a membership by reading the whole record and writing it back, so that   *)
(* what another call wrote between the two is lost.                        *)
(*                                                                         *)
(* The records that a list is made of are read at one moment. A group is   *)
(* created with at most one member besides its creator: each is asked for  *)
(* and written by himself. Ranks other than the three of the code, which   *)
(* UpdateMember would take as well, are left out.                          *)
(***************************************************************************)
EXTENDS Friends

CONSTANTS Channel,     \* numbers, given in order
          MaxActs,     \* bound: calls about channels, receipts included
          MaxMessages, \* bound: messages
          Ranks,       \* user -> rank in the group that a server may begin with
          Settings,    \* what users may have set: functions from User to who may add them
          Absent       \* no such record

ASSUME MembershipAssumption == Channel \subseteq Nat /\ {MaxActs, MaxMessages} \subseteq Nat

VARIABLES
  chan,      \* channel -> "dm" (without a name), "group" or Absent
  uc,        \* <<user, channel>> -> the membership record, or Absent
  used,      \* channels created so far: an id is not given twice
  newest,    \* channel -> counts its messages
  adders,    \* user -> who may add the user to channels
  acts,      \* user -> its call, or None
  acted, sent,
  out,       \* removals that nothing undid since (history)
  raced,     \* memberships last written over what another call wrote (history)
  gone,      \* channels whose deletion was done (history)
  contested, \* channels in use while they were deleted (history)
  mixed,     \* conversations that were not begun for two, or that somebody came into by
             \* the link of an invitation or by a receipt (history)
  doubled,   \* {u, v}: both began a conversation, or one had hidden theirs (history)
  forced,    \* <<a, b>>: b was added by a, whom b had blocked when the call began, when
             \* it asked and when it was done (history)
  halfway    \* conversations a crash cut short when they were created: the ranks of a
             \* group are left in them (history)

records == <<chan, uc, used, newest>>
memberHistory == <<out, raced, gone, contested, mixed, doubled, forced>>
memberVars == <<records, adders, acts, acted, sent, memberHistory, halfway>>

RoleMember == 0
RoleAdmin  == 1
RoleOwner  == 2

\* cleared is the number of messages when the user deleted the chat for himself, if ever.
Membership == [role : RoleMember .. RoleOwner, status : {"active", "left", "kicked"},
               cleared : -1 .. MaxMessages]

ASSUME RecordAssumption == /\ Absent \notin Membership \cup Channel \cup {"dm", "group"}
                           /\ Ranks \in [User -> RoleMember .. RoleOwner]
                           /\ IsFiniteSet(User) /\ Cardinality(Acquainted) = 2

Key == User \X Channel
Op  == {"dm", "group", "unnamed", "join", "add", "leave", "kick", "promote", "demote", "crown",
        "rename", "delete", "clear", "receipt", "quit"}
Place == {"look", "ask", "link", "outside", "member", "actor", "target", "list", "groups", "tasks"}
Rank  == RoleMember .. RoleOwner

\* A write that a call is left with, and a call with what it read.
AnyTask ==
  [do : {"put", "admit", "receipt", "rank"}, key : Key, val : Rank]
  \cup [do : {"remove"}, key : Key, val : {"left", "kicked"}]
  \cup [do : {"clear", "drop"}, key : Key, val : 0 .. MaxMessages]
  \cup [do : {"chan"}, key : Key, val : {"dm", "group", Absent}]

ActRecord == [op : Op, to : User, c : Channel \cup {Absent}, held : Membership \cup {Absent, None},
              rank : Rank, at : Place, todo : Seq(AnyTask), barred : BOOLEAN]

ASSUME ActAssumption == None \notin ActRecord

\* The next of the ids not given yet.
IsNext(c, ids) == c \in ids /\ \A d \in ids : c <= d

Joined(role) == [role |-> role, status |-> "active", cleared |-> -1]

Active(u, c) == uc[<<u, c>>] # Absent /\ uc[<<u, c>>].status = "active"
Members(c)   == {u \in User : Active(u, c)}
IsDM(c)      == chan[c] = "dm" /\ Cardinality(Members(c)) = 2
Hidden(u, c) == Active(u, c) /\ uc[<<u, c>>].cleared = newest[c]

MembershipTypeOK ==
  /\ chan \in [Channel -> {"dm", "group", Absent}] /\ uc \in [Key -> Membership \cup {Absent}]
  /\ used \subseteq Channel /\ newest \in [Channel -> 0 .. MaxMessages]
  /\ adders \in [User -> {"everyone", "friends", "nobody"}]
  /\ acts \in [User -> ActRecord \cup {None}]
  /\ acted \in 0 .. MaxActs /\ sent \in 0 .. MaxMessages
  /\ out \cup raced \subseteq Key /\ gone \cup contested \cup mixed \subseteq Channel

\* A server without channels, with a group of all, or with a conversation, which the others
\* have come into by its link if they are in it.
MembershipInit ==
  /\ \/ chan = [c \in Channel |-> Absent] /\ uc = [k \in Key |-> Absent] /\ used = {} /\ mixed = {}
     \/ \E c \in Channel :
          /\ IsNext(c, Channel) /\ used = {c}
          /\ \/ /\ chan = [d \in Channel |-> IF d = c THEN "group" ELSE Absent]
                /\ uc = [k \in Key |-> IF k[2] = c THEN Joined(Ranks[k[1]]) ELSE Absent]
                /\ mixed = {}
             \/ \E present \in {Acquainted, User} :
                  /\ chan = [d \in Channel |-> IF d = c THEN "dm" ELSE Absent]
                  /\ uc = [k \in Key |-> IF k[2] = c /\ k[1] \in present
                                         THEN Joined(RoleMember) ELSE Absent]
                  /\ mixed = IF present = Acquainted THEN {} ELSE {c}
  /\ newest = [c \in Channel |-> 0]
  /\ adders \in Settings
  /\ acts = [u \in User |-> None] /\ acted = 0 /\ sent = 0
  /\ out = {} /\ raced = {} /\ gone = {} /\ contested = {} /\ doubled = {} /\ forced = {}
  /\ halfway = {}

-----------------------------------------------------------------------------
(* Tasks: the writes a call is left with *)

Task(do, u, c, val) == [do |-> do, key |-> <<u, c>>, val |-> val]

\* These read the record, in a step of its own, and write it back.
Rereads == {"admit", "remove", "rank", "clear", "receipt"}

\* What such a task makes of the record it read. Only a missing record that is admitted
\* or read up to is created.
Changed(task, old) ==
  IF old = Absent
  THEN IF task.do \in {"admit", "receipt"} THEN Joined(task.val) ELSE Absent
  ELSE CASE task.do = "admit"   -> [old EXCEPT !.status = "active", !.role = task.val]
         [] task.do = "receipt" -> old
         [] task.do = "remove"  -> [old EXCEPT !.status = task.val]
         [] task.do = "rank"    -> [old EXCEPT !.role = task.val]
         [] task.do = "clear"   -> [old EXCEPT !.cleared = task.val]

TasksOf(op, u, v, c) ==
  CASE op = "join"    -> <<Task("admit", u, c, RoleMember)>>
    [] op = "add"     -> <<Task("admit", v, c, RoleMember)>>
    [] op = "leave"   -> <<Task("remove", u, c, "left")>>
    [] op = "kick"    -> <<Task("remove", v, c, "kicked")>>
    [] op = "promote" -> <<Task("rank", v, c, RoleAdmin)>>
    [] op = "demote"  -> <<Task("rank", v, c, RoleMember)>>
    [] op = "crown"   -> <<Task("rank", v, c, RoleOwner)>>
    [] op = "rename"  -> <<Task("chan", u, c, "group")>>
    [] op = "clear"   -> <<Task("clear", u, c, newest[c])>>
    [] op = "receipt" -> <<Task("receipt", u, c, RoleMember)>>

\* A direct conversation loses the rank of owner at once.
Creation(u, others, c, op) ==
  LET all  == SetToSeq(others) \o <<u>>
      kind == IF op = "group" THEN "group" ELSE "dm" IN
    <<Task("chan", u, c, kind)>>
    \o [i \in DOMAIN all |-> Task("put", all[i], c, IF all[i] = u THEN RoleOwner ELSE RoleMember)]
    \o (IF op = "dm" THEN [i \in DOMAIN all |-> Task("admit", all[i], c, RoleMember)] ELSE <<>>)

\* DeleteChannel of the store, given the members it lists. Who left keeps a record.
Deletion(u, c) ==
  LET all == SetToSeq(Members(c)) IN
    [i \in DOMAIN all |-> Task("drop", all[i], c, 0)] \o <<Task("chan", u, c, Absent)>>

-----------------------------------------------------------------------------
(* Calls *)

Busy(c) == {v \in User : acts[v] # None /\ acts[v].c = c}

\* u deletes its channel for all.
Deletes(u) == /\ acts[u].op \in {"delete", "clear"}
              /\ acts[u].at = "list" \/ \E i \in DOMAIN acts[u].todo : acts[u].todo[i].do = "chan"

\* Of the channels there are, and of a deleted one only a read receipt. Every channel has
\* a link, and nobody checks who sends a receipt; but the id of a channel cannot be guessed.
Begin(u, op, v, c) ==
  /\ acts[u] = None /\ acted < MaxActs /\ acted' = acted + 1
  /\ op \in Op \ {"dm", "group", "unnamed", "quit"}
  /\ chan[c] # Absent \/ (op = "receipt" /\ c \in gone)
  /\ (op \in {"add", "kick", "promote", "demote", "crown"}) <=> v # u
  /\ acts' = [acts EXCEPT ![u] =
       [op |-> op, to |-> v, c |-> c, held |-> None, rank |-> RoleMember,
        at |-> CASE op = "join" -> "link" [] op = "receipt" -> "tasks" [] OTHER -> "member",
        todo |-> IF op = "receipt" THEN TasksOf(op, u, v, c) ELSE <<>>,
        barred |-> <<v, u>> \in barred]]
  /\ contested' = IF chan[c] = Absent \/ \E w \in Busy(c) : Deletes(w)
                  THEN contested \cup {c} ELSE contested
  /\ UNCHANGED <<records, adders, sent, out, raced, gone, mixed, doubled, forced>>

\* CreateChannel: its id is new. Without a name it is a conversation if it is for two.
BeginCreation(u, v, op, c) ==
  /\ acts[u] = None /\ acted < MaxActs /\ acted' = acted + 1
  /\ IsNext(c, Channel \ used) /\ used' = used \cup {c}
  /\ op \in {"dm", "group", "unnamed"} /\ (op = "dm" => v # u) /\ (op = "unnamed" => v = u)
  /\ acts' = [acts EXCEPT ![u] =
       [op |-> op, to |-> v, c |-> c, held |-> None, rank |-> RoleOwner,
        at |-> IF op = "dm" THEN "look" ELSE IF v # u THEN "ask" ELSE "tasks",
        todo |-> IF v # u THEN <<>> ELSE Creation(u, {}, c, op),
        barred |-> <<v, u>> \in barred]]
  /\ doubled' = IF op = "dm" /\ acts[v] # None /\ acts[v].op = "dm" /\ acts[v].to = u
                THEN doubled \cup {{u, v}} ELSE doubled
  /\ mixed' = IF op = "unnamed" THEN mixed \cup {c} ELSE mixed
  /\ UNCHANGED <<chan, uc, newest, adders, sent, out, raced, gone, contested, forced>>

\* The call of u goes on with the next check, or is left with tasks.
Proceed(u, at, todo) == acts' = [acts EXCEPT ![u] = [@ EXCEPT !.at = at, !.todo = todo]]

End(u) == acts' = [acts EXCEPT ![u] = None]

Before(u, at) == acts[u] # None /\ acts[u].at = at

Checked(u, at, holds, next, todo) ==
  /\ Before(u, at) /\ IF holds THEN Proceed(u, next, todo) ELSE End(u)
  /\ UNCHANGED <<records, adders, acted, sent, memberHistory>>

\* DeleteUser leaves the groups first.
BeginQuit(u) ==
  /\ acts[u] = None /\ acted < MaxActs /\ acted' = acted + 1
  /\ acts' = [acts EXCEPT ![u] =
       [op |-> "quit", to |-> u, c |-> Absent, held |-> None, rank |-> RoleMember,
        at |-> "groups", todo |-> <<>>, barred |-> FALSE]]
  /\ UNCHANGED <<records, adders, sent, memberHistory>>

\* ListUserChannels, which leaves out what is hidden, without the conversations.
ListGroups(u) ==
  LET all == SetToSeq({c \in Channel : /\ chan[c] # Absent /\ Active(u, c)
                                         /\ ~Hidden(u, c) /\ ~IsDM(c)}) IN
    Checked(u, "groups", all # <<>>, "tasks",
            [i \in DOMAIN all |-> Task("remove", u, all[i], "left")])

\* The conversation that u has with another already; one that is hidden is not found.
Look(u) ==
  LET v == acts[u].to
      theirs == {c \in Channel : IsDM(c) /\ Members(c) = {u, v}} IN
    /\ Before(u, "look")
    /\ IF \E c \in theirs : ~Hidden(u, c) THEN End(u) ELSE Proceed(u, "ask", <<>>)
    /\ doubled' = IF \E c \in theirs : Hidden(u, c) THEN doubled \cup {{u, v}} ELSE doubled
    /\ UNCHANGED <<records, adders, acted, sent, out, raced, gone, contested, mixed, forced>>

\* Mutant: blocks are not asked for.
CanAddBlocked(u, v) ==
  adders[v] # "nobody" /\ (adders[v] = "friends" => rel[<<u, v>>] = "friend")

CanAddToChannel(u, v) ==
  /\ rel[<<v, u>>] # "blocked" /\ adders[v] # "nobody"
  /\ adders[v] = "friends" => rel[<<u, v>>] = "friend"

\* Who may not be added is left out; a channel then begins with one member.
AskLeave(u) ==
  LET v == acts[u].to  c == acts[u].c  op == acts[u].op  may == CanAddToChannel(u, v)
      todo == IF op = "add" THEN TasksOf("add", u, v, c)
                            ELSE Creation(u, IF may THEN {v} ELSE {}, c, op)
      still == acts[u].barred /\ <<v, u>> \in barred IN
    /\ Before(u, "ask")
    /\ IF may \/ op # "add"
       THEN acts' = [acts EXCEPT ![u] = [@ EXCEPT !.at = "tasks", !.todo = todo, !.barred = still]]
       ELSE End(u)
    /\ UNCHANGED <<records, adders, acted, sent, memberHistory>>

FindLink(u) == Checked(u, "link", chan[acts[u].c] # Absent, "outside", <<>>)

CheckOutside(u) ==
  LET c == acts[u].c IN
    Checked(u, "outside", ~Active(u, c), "tasks", TasksOf("join", u, u, c))

\* RequireMember
RequireMember(u) ==
  LET c == acts[u].c IN
    Checked(u, "member", chan[c] # Absent /\ Active(u, c), "actor", <<>>)

Need(op) == CASE op \in {"add", "kick", "rename"} -> RoleAdmin
              [] op \in {"promote", "demote", "crown"} -> RoleOwner
              [] OTHER -> RoleMember

\* The handler reads the record of the caller again. A group is deleted by its owner, for
\* all; a conversation by either, for both or for himself.
CheckActor(u) ==
  LET c == acts[u].c  op == acts[u].op  mine == uc[<<u, c>>]  dm == IsDM(c)
      may == mine # Absent /\ mine.role >= Need(op) IN
    /\ Before(u, "actor")
    /\ CASE op \in {"add", "kick", "promote", "demote", "crown"} ->
              IF may THEN acts' = [acts EXCEPT ![u] = [@ EXCEPT !.rank = mine.role,
                             !.at = IF op = "add" THEN "ask" ELSE "target"]]
                     ELSE End(u)
         [] op \in {"leave", "rename"} ->
              IF may THEN Proceed(u, "tasks", TasksOf(op, u, u, c)) ELSE End(u)
         [] op \in {"delete", "clear"} ->
              IF /\ Active(u, c) /\ (dm \/ mine.role = RoleOwner)
              THEN IF op = "clear" /\ dm
                   THEN Proceed(u, "tasks", TasksOf("clear", u, u, c))
                   ELSE Proceed(u, "list", <<>>)
              ELSE End(u)
    /\ contested' = IF acts'[u] # None /\ acts'[u].at = "list" /\ Busy(c) # {u}
                    THEN contested \cup {c} ELSE contested
    /\ UNCHANGED <<records, adders, acted, sent, out, raced, gone, mixed, doubled, forced>>

\* Nobody kicks an equal; the owner's rank is not changed.
CheckTarget(u) ==
  LET c == acts[u].c  v == acts[u].to  op == acts[u].op  theirs == uc[<<v, c>>]
      may == IF op = "kick" THEN theirs = Absent \/ theirs.role < acts[u].rank
                            ELSE theirs # Absent /\ theirs.role < RoleOwner IN
    Checked(u, "target", may, "tasks", TasksOf(op, u, v, c))

ListMembers(u) == Checked(u, "list", TRUE, "tasks", Deletion(u, acts[u].c))

-----------------------------------------------------------------------------
(* Their tasks *)

Working(u) == Before(u, "tasks") /\ acts[u].todo # <<>>

\* The read of a task that writes back.
Reread(u) ==
  LET task == Head(acts[u].todo) IN
    /\ Working(u) /\ task.do \in Rereads /\ acts[u].held = None
    /\ acts' = [acts EXCEPT ![u].held = uc[task.key]]
    /\ UNCHANGED <<records, adders, acted, sent, memberHistory>>

\* The rest of the tasks; after a failed one there is none, but who deletes his account goes
\* on with the next group.
Rest(u, fails) ==
  LET todo == Tail(acts[u].todo) IN
    IF todo = <<>> \/ (fails /\ acts[u].op # "quit") THEN End(u)
    ELSE acts' = [acts EXCEPT ![u] = [@ EXCEPT !.todo = todo, !.held = None]]

\* u adds somebody who had blocked him all the while.
Forces(u, v) == v = acts[u].to /\ acts[u].barred /\ <<v, u>> \in barred

\* Who comes in by himself.
ComesIn(task, old, op) == (task.do = "admit" /\ op = "join") \/ (task.do = "receipt" /\ old = Absent)

WriteBack(u) ==
  LET task == Head(acts[u].todo)
      key  == task.key
      old  == acts[u].held
      new  == Changed(task, old) IN
    /\ Working(u) /\ task.do \in Rereads /\ old # None
    /\ IF new = Absent
       THEN UNCHANGED <<uc, raced, out, mixed, forced>>
       ELSE /\ uc' = [uc EXCEPT ![key] = new]
            /\ raced' = CASE old # uc[key] -> raced \cup {key}
                          [] old = uc[key] /\ task.do \in {"remove", "admit"} -> raced \ {key}
                          [] OTHER -> raced
            /\ out' = CASE task.do = "remove" -> out \cup {key}
                        [] task.do = "admit"  -> out \ {key}
                        [] OTHER              -> out
            /\ mixed' = IF chan[key[2]] # "group" /\ ComesIn(task, old, acts[u].op)
                        THEN mixed \cup {key[2]} ELSE mixed
            /\ forced' = IF task.do = "admit" /\ Forces(u, key[1])
                         THEN forced \cup {<<u, key[1]>>} ELSE forced
    /\ Rest(u, new = Absent)
    /\ UNCHANGED <<chan, used, newest, adders, acted, sent, gone, contested, doubled>>

\* SetUserChannel of a new channel, and DeleteUserChannel.
WriteMember(u) ==
  LET task == Head(acts[u].todo) IN
    /\ Working(u) /\ task.do \in {"put", "drop"}
    /\ uc' = [uc EXCEPT ![task.key] = IF task.do = "put" THEN Joined(task.val) ELSE Absent]
    /\ out' = out \ {task.key} /\ raced' = raced \ {task.key}
    /\ forced' = IF task.do = "put" /\ Forces(u, task.key[1])
                 THEN forced \cup {<<u, task.key[1]>>} ELSE forced
    /\ Rest(u, FALSE)
    /\ UNCHANGED <<chan, used, newest, adders, acted, sent, gone, contested, mixed, doubled>>

\* SetChannel and DeleteChannel of the database. A rename writes the record it read first, with
\* a name, which makes it a group.
WriteChannel(u) ==
  LET task == Head(acts[u].todo)  c == acts[u].c IN
    /\ Working(u) /\ task.do = "chan"
    /\ chan' = [chan EXCEPT ![c] = task.val]
    /\ gone' = IF task.val = Absent THEN gone \cup {c} ELSE gone
    /\ Rest(u, FALSE)
    /\ UNCHANGED <<uc, used, newest, adders, acted, sent, out, raced, contested, mixed, doubled, forced>>

\* A message shows a hidden conversation again.
Message(c) ==
  /\ sent < MaxMessages /\ sent' = sent + 1
  /\ chan[c] # Absent /\ \E u \in User : Hidden(u, c)
  /\ newest' = [newest EXCEPT ![c] = @ + 1]
  /\ UNCHANGED <<chan, uc, used, adders, acts, acted, memberHistory>>

-----------------------------------------------------------------------------
MembershipCall ==
  /\ \E u \in User :
       \/ \E v \in User, op \in Op, c \in Channel : Begin(u, op, v, c) \/ BeginCreation(u, v, op, c)
       \/ BeginQuit(u)
  /\ UNCHANGED halfway

MembershipWork ==
  /\ \/ \E u \in User :
          \/ Look(u) \/ AskLeave(u) \/ FindLink(u) \/ CheckOutside(u) \/ RequireMember(u)
          \/ CheckActor(u) \/ CheckTarget(u) \/ ListMembers(u) \/ ListGroups(u)
          \/ Reread(u) \/ WriteBack(u) \/ WriteMember(u) \/ WriteChannel(u)
     \/ \E c \in Channel : Message(c)
  /\ UNCHANGED halfway

-----------------------------------------------------------------------------
(* Properties *)

\* Who left or was removed is out until somebody admits him again, unless his record was
\* written back by a call that had read it before.
RemovedStaysOut == \A k \in out : Active(k[1], k[2]) => k \in raced

\* A deleted channel has neither a record nor members, unless it was in use meanwhile or
\* a receipt for it came later.
DeletedIsGone == \A c \in gone \ contested : chan[c] = Absent /\ Members(c) = {}

\* Two users have one conversation, unless both began one, one had hidden theirs, one was
\* in use while it was deleted, somebody came in by its link or a receipt, it was not begun
\* for two, or a crash left an owner who can add a third user.
OneConversation ==
  \A c, d \in Channel :
    c # d /\ IsDM(c) /\ IsDM(d) /\ Members(c) = Members(d) =>
      Members(c) \in doubled \/ {c, d} \cap (halfway \cup contested \cup mixed) # {}

\* Nobody is added by somebody he had blocked all the while.
BlocksKeepOut == forced = {}
=============================================================================
