-------------------------- MODULE Membership_proofs --------------------------
(***************************************************************************)
(* Proofs about the channels and members of Membership, as part of the     *)
(* server: MembershipHolds, for any users, channels, calls and settings.   *)
(*                                                                         *)
(* It follows from MembersInv: what the calls under way are about to write *)
(* (MemberShape), who was removed (RemovedInv), what deletions (DeletedInv) *)
(* and creations (MakersInv) may rely on, and what a conversation of two   *)
(* users is like (OneInv).                                                 *)
(***************************************************************************)
EXTENDS Server_proofs

-----------------------------------------------------------------------------
(* Channels and members *)

Creates == {"dm", "group", "unnamed"}

KindOf(op) == IF op = "group" THEN "group" ELSE "dm"

\* Calls about another member.
Manages == {"kick", "promote", "demote", "crown"}

USE MembershipAssumption, RecordAssumption DEF RoleMember, RoleAdmin, RoleOwner, Creates, Manages

\* The tasks that are left with a call.
TaskFits(u, r, ids, t) ==
  \/ r.op = "join" /\ t = Task("admit", u, r.c, RoleMember)
  \/ r.op = "add" /\ t = Task("admit", r.to, r.c, RoleMember)
  \/ r.op = "leave" /\ t = Task("remove", u, r.c, "left")
  \/ r.op = "kick" /\ t = Task("remove", r.to, r.c, "kicked")
  \/ r.op = "promote" /\ t = Task("rank", r.to, r.c, RoleAdmin)
  \/ r.op = "demote" /\ t = Task("rank", r.to, r.c, RoleMember)
  \/ r.op = "crown" /\ t = Task("rank", r.to, r.c, RoleOwner)
  \/ r.op = "rename" /\ t = Task("chan", u, r.c, "group")
  \/ r.op = "receipt" /\ t = Task("receipt", u, r.c, RoleMember)
  \/ r.op = "clear" /\ \E n \in 0 .. MaxMessages : t = Task("clear", u, r.c, n)
  \/ r.op \in {"clear", "delete"} /\ \E x \in User : t = Task("drop", x, r.c, 0)
  \/ r.op \in {"clear", "delete"} /\ t = Task("chan", u, r.c, Absent)
  \/ r.op = "quit" /\ \E d \in ids : t = Task("remove", u, d, "left")
  \/ r.op \in Creates /\ t = Task("chan", u, r.c, KindOf(r.op))
  \/ r.op \in Creates /\ t = Task("put", u, r.c, RoleOwner)
  \/ r.op \in Creates /\ r.to # u /\ t = Task("put", r.to, r.c, RoleMember)
  \/ r.op = "dm" /\ \E x \in {u, r.to} : t = Task("admit", x, r.c, RoleMember)

\* The order they are in, and whom they do not concern.
OrderFits(u, r, i) ==
  /\ r.todo[i].do = "chan" /\ r.op \in Creates => i = 1
  /\ r.todo[i].do = "chan" /\ r.op \in {"delete", "clear"} => i = Len(r.todo)
  /\ r.todo[i].do = "drop" => \E j \in DOMAIN r.todo : i < j /\ r.todo[j].do = "chan"
  /\ r.todo[i].do = "clear" => Len(r.todo) = 1
  /\ r.op = "dm" /\ r.todo[i] = Task("put", u, r.c, RoleOwner) =>
       \E j \in DOMAIN r.todo : i < j /\ r.todo[j] = Task("admit", u, r.c, RoleMember)
  /\ r.todo[i].do \in {"admit", "put"} /\ r.todo[i].key[1] = r.to => ~r.barred

TodoFits(u, r, ids) == \A i \in DOMAIN r.todo : TaskFits(u, r, ids, r.todo[i]) /\ OrderFits(u, r, i)

\* Where a call may be, and what it has there.
PlaceOf(op, at) ==
  /\ at = "ask" => op \in {"add", "dm", "group"}
  /\ at = "look" => op = "dm"
  /\ at \in {"link", "outside"} => op = "join"
  /\ at \in {"member", "actor"} => op \in {"add", "leave", "rename", "delete", "clear"} \cup Manages
  /\ at = "target" => op \in Manages
  /\ at = "list" => op \in {"delete", "clear"}
  /\ at = "groups" => op = "quit"

PlaceFits(u, r, ids) ==
  /\ IF r.op = "quit" THEN r.c = Absent ELSE r.c \in ids
  /\ r.op # "group" => (r.op \in {"add", "dm"} \cup Manages <=> r.to # u)
  /\ r.at = "ask" => r.to # u
  /\ r.to = u => ~r.barred
  /\ r.at # "tasks" <=> r.todo = <<>>
  /\ PlaceOf(r.op, r.at)
  /\ r.held # None => r.todo # <<>> /\ Head(r.todo).do \in Rereads

CallFits(u, r, ids) == r \in ActRecord /\ PlaceFits(u, r, ids) /\ TodoFits(u, r, ids)

ActsShape ==
  /\ acts \in [User -> ActRecord \cup {None}]
  /\ \A u \in User : acts[u] # None => CallFits(u, acts[u], used)

\* The records of channels, apart from the calls.
RecordShape ==
  /\ chan \in [Channel -> {"dm", "group", Absent}] /\ uc \in [Key -> Membership \cup {Absent}]
  /\ used \subseteq Channel /\ IsFiniteSet(used)
  /\ newest \in [Channel -> 0 .. MaxMessages] /\ sent \in 0 .. MaxMessages
  /\ out \subseteq Key /\ gone \subseteq used
  /\ \A c \in Channel : newest[c] <= sent
  /\ \A c \in Channel : chan[c] # Absent => c \in used
  /\ \A k \in Key : uc[k] # Absent => k[2] \in used

MemberShape == ActsShape /\ RecordShape

-----------------------------------------------------------------------------
(* Sequences of tasks *)

LEMMA TailsOf ==
  ASSUME NEW S, NEW s \in Seq(S), s # <<>>
  PROVE  /\ Head(s) \in S /\ Tail(s) \in Seq(S) /\ Head(s) = s[1] /\ 1 \in DOMAIN s
         /\ Len(Tail(s)) = Len(s) - 1 /\ Len(s) \in Nat /\ DOMAIN s = 1 .. Len(s)
         /\ \A i \in DOMAIN Tail(s) : i \in Nat /\ i + 1 \in DOMAIN s /\ Tail(s)[i] = s[i + 1]
         /\ \A i \in DOMAIN s : i # 1 => i - 1 \in DOMAIN Tail(s) /\ Tail(s)[i - 1] = s[i]
         /\ Tail(s) = <<>> <=> Len(s) = 1
<1>1. /\ Head(s) \in S /\ Tail(s) \in Seq(S) /\ Head(s) = s[1] /\ 1 \in DOMAIN s
      /\ Len(Tail(s)) = Len(s) - 1 /\ Len(s) \in Nat /\ DOMAIN s = 1 .. Len(s)
  OBVIOUS
<1>2. \A i \in DOMAIN Tail(s) : i \in Nat /\ i + 1 \in DOMAIN s /\ Tail(s)[i] = s[i + 1]
  OBVIOUS
<1>3. ASSUME NEW i \in DOMAIN s, i # 1 PROVE i - 1 \in DOMAIN Tail(s) /\ Tail(s)[i - 1] = s[i]
  <2>1. i - 1 \in 1 .. Len(s) - 1 /\ (i - 1) + 1 = i
    BY <1>1, <1>3
  <2>2. i - 1 \in DOMAIN Tail(s)
    BY <1>1, <2>1
  <2>3. QED
    BY <1>2, <2>1, <2>2
<1>4. Tail(s) = <<>> <=> Len(Tail(s)) = 0
  <2>1. \A t \in Seq(S) : t = <<>> <=> Len(t) = 0
    OBVIOUS
  <2>2. QED
    BY <1>1, <2>1
<1>5. QED
  BY <1>1, <1>2, <1>3, <1>4

LEMMA JoinOf ==
  ASSUME NEW S, NEW s \in Seq(S), NEW t \in Seq(S)
  PROVE  /\ s \o t \in Seq(S) /\ Len(s \o t) = Len(s) + Len(t)
         /\ Len(s) \in Nat /\ Len(t) \in Nat /\ DOMAIN (s \o t) = 1 .. Len(s) + Len(t)
         /\ \A i \in 1 .. Len(s) : (s \o t)[i] = s[i]
         /\ \A i \in 1 .. Len(t) : (s \o t)[Len(s) + i] = t[i]
<1>1. s \o t \in Seq(S) /\ Len(s \o t) = Len(s) + Len(t) /\ Len(s) \in Nat /\ Len(t) \in Nat
  OBVIOUS
<1>2. \A i \in 1 .. Len(s) : (s \o t)[i] = s[i]
  OBVIOUS
<1>3. \A i \in 1 .. Len(t) : (s \o t)[Len(s) + i] = t[i]
  OBVIOUS
<1>4. DOMAIN (s \o t) = 1 .. Len(s) + Len(t)
  BY <1>1
<1>5. QED
  BY <1>1, <1>2, <1>3, <1>4

LEMMA MapOf ==
  ASSUME NEW S, NEW n \in Nat, NEW f, f = [i \in 1 .. n |-> f[i]], \A i \in 1 .. n : f[i] \in S
  PROVE  f \in Seq(S) /\ Len(f) = n
<1>1. f \in [1 .. n -> S]
  OBVIOUS
<1>2. QED
  BY <1>1

LEMMA Parts ==
  ASSUME NEW n \in Nat, NEW m \in Nat
  PROVE  /\ \A i \in 1 .. m : n + i \in 1 .. n + m
         /\ \A i \in 1 .. n + m : i \in 1 .. n \/ \E k \in 1 .. m : i = n + k
<1>1. ASSUME NEW i \in 1 .. n + m, i \notin 1 .. n
      PROVE  \E k \in 1 .. m : i = n + k
  <2>1. i - n \in 1 .. m /\ i = n + (i - n)
    BY <1>1
  <2>2. QED
    BY <2>1
<1>2. QED
  BY <1>1

LEMMA TaskTypes ==
  ASSUME NEW u \in User, NEW c \in Channel
  PROVE  /\ \A x \in Rank : \A do \in {"put", "admit", "receipt", "rank"} : Task(do, u, c, x) \in AnyTask
         /\ \A x \in {"left", "kicked"} : Task("remove", u, c, x) \in AnyTask
         /\ \A n \in 0 .. MaxMessages : \A do \in {"clear", "drop"} : Task(do, u, c, n) \in AnyTask
         /\ \A x \in {"dm", "group", Absent} : Task("chan", u, c, x) \in AnyTask
         /\ 0 \in 0 .. MaxMessages /\ RoleMember \in Rank /\ RoleAdmin \in Rank /\ RoleOwner \in Rank
<1>1. <<u, c>> \in Key
  BY DEF Key
<1>2. QED
  BY <1>1 DEF Task, AnyTask, Rank

\* What the creation of a conversation or a group writes, and in which order.
LEMMA CreationOf ==
  ASSUME NEW u \in User, NEW others, others \subseteq User, u \notin others, NEW c \in Channel,
         NEW op \in Creates
  PROVE  LET s == Creation(u, others, c, op) IN
           /\ s \in Seq(AnyTask) /\ s # <<>> /\ s[1] = Task("chan", u, c, KindOf(op))
           /\ \A i \in DOMAIN s :
                \/ i = 1
                \/ /\ s[i] = Task("put", u, c, RoleOwner)
                   /\ op = "dm" => \E j \in DOMAIN s : i < j /\ s[j] = Task("admit", u, c, RoleMember)
                \/ \E x \in others : s[i] = Task("put", x, c, RoleMember)
                \/ op = "dm" /\ \E x \in others \cup {u} : s[i] = Task("admit", x, c, RoleMember)
<1> DEFINE all == SetToSeq(others) \o <<u>>
           n == Len(all)
           first == Task("chan", u, c, KindOf(op))
           puts == [i \in DOMAIN all |-> Task("put", all[i], c, IF all[i] = u THEN RoleOwner ELSE RoleMember)]
           admits == IF op = "dm" THEN [i \in DOMAIN all |-> Task("admit", all[i], c, RoleMember)] ELSE <<>>
           s == (<<first>> \o puts) \o admits
<1>1. Creation(u, others, c, op) = s
  BY DEF Creation, KindOf
<1>2. all \in Seq(User) /\ DOMAIN all = 1 .. n /\ n \in Nat /\ \A i \in 1 .. n : all[i] \in others \cup {u}
  <2>1. SetToSeq(others) \in Seq(others)
    BY FS_Subset, SetToSeqFacts
  <2>2. SetToSeq(others) \in Seq(others \cup {u}) /\ <<u>> \in Seq(others \cup {u})
    BY <2>1
  <2>3. all \in Seq(others \cup {u})
    BY <2>2, JoinOf
  <2> HIDE DEF all
  <2>4. QED
    BY <2>3
<1> HIDE DEF all
<1>3. /\ puts \in Seq(AnyTask) /\ Len(puts) = n
      /\ \A i \in 1 .. n : puts[i] = Task("put", all[i], c, IF all[i] = u THEN RoleOwner ELSE RoleMember)
  <2>1. \A i \in 1 .. n : Task("put", all[i], c, IF all[i] = u THEN RoleOwner ELSE RoleMember) \in AnyTask
    BY <1>2, TaskTypes
  <2> HIDE DEF n
  <2>2. QED
    BY <1>2, <2>1
<1>4. /\ admits \in Seq(AnyTask) /\ Len(admits) = IF op = "dm" THEN n ELSE 0
      /\ op = "dm" => \A i \in 1 .. n : admits[i] = Task("admit", all[i], c, RoleMember)
  <2>1. \A i \in 1 .. n : Task("admit", all[i], c, RoleMember) \in AnyTask
    BY <1>2, TaskTypes
  <2> HIDE DEF n
  <2>2. QED
    BY <1>2, <2>1
<1>5. <<first>> \in Seq(AnyTask) /\ Len(<<first>>) = 1 /\ <<first>>[1] = first
  <2>1. KindOf(op) \in {"dm", "group", Absent}
    BY DEF KindOf
  <2>2. first \in AnyTask
    BY <2>1, TaskTypes
  <2> HIDE DEF first
  <2>3. QED
    BY <2>2
<1> DEFINE one == <<first>>
<1> HIDE DEF n, puts, admits, one, first
<1>6. one \in Seq(AnyTask) /\ Len(one) = 1 /\ one[1] = first
  BY <1>5 DEF one
<1>7. /\ one \o puts \in Seq(AnyTask) /\ Len(one \o puts) = 1 + n
      /\ (one \o puts)[1] = first /\ \A i \in 1 .. n : (one \o puts)[1 + i] = puts[i]
      /\ \A i \in 1 .. 1 + n : i = 1 \/ \E k \in 1 .. n : i = 1 + k
  <2>1. one \in Seq(AnyTask) /\ puts \in Seq(AnyTask)
    BY <1>3, <1>6
  <2>2. /\ one \o puts \in Seq(AnyTask) /\ Len(one \o puts) = Len(one) + Len(puts)
        /\ \A i \in 1 .. Len(one) : (one \o puts)[i] = one[i]
        /\ \A i \in 1 .. Len(puts) : (one \o puts)[Len(one) + i] = puts[i]
    BY <2>1, JoinOf
  <2> DEFINE both == one \o puts
  <2> HIDE DEF both
  <2>3. /\ both \in Seq(AnyTask) /\ Len(both) = 1 + n /\ both[1] = first
        /\ \A i \in 1 .. n : both[1 + i] = puts[i]
    BY <1>2, <1>3, <1>6, <2>2 DEF both
  <2>4. \A i \in 1 .. 1 + n : i = 1 \/ \E k \in 1 .. n : i = 1 + k
    BY <1>2, Parts
  <2>5. QED
    BY <2>3, <2>4 DEF both
<1> DEFINE two == one \o puts
<1> HIDE DEF two
<1>8. /\ two \in Seq(AnyTask) /\ Len(two) = 1 + n
      /\ two[1] = first /\ \A i \in 1 .. n : two[1 + i] = puts[i]
      /\ \A i \in 1 .. 1 + n : i = 1 \/ \E k \in 1 .. n : i = 1 + k
  BY <1>7 DEF two
<1> DEFINE m == Len(admits)
<1>9. /\ m \in Nat
      /\ two \o admits \in Seq(AnyTask) /\ Len(two \o admits) = 1 + n + m
      /\ DOMAIN (two \o admits) = 1 .. 1 + n + m
      /\ \A i \in 1 .. 1 + n : (two \o admits)[i] = two[i]
      /\ \A i \in 1 .. m : 1 + n + i \in 1 .. 1 + n + m /\ (two \o admits)[1 + n + i] = admits[i]
      /\ \A i \in 1 .. 1 + n + m : i \in 1 .. 1 + n \/ \E k \in 1 .. m : i = 1 + n + k
  <2>1. two \in Seq(AnyTask) /\ admits \in Seq(AnyTask)
    BY <1>4, <1>8
  <2>2. /\ two \o admits \in Seq(AnyTask) /\ Len(two \o admits) = Len(two) + Len(admits)
        /\ Len(admits) \in Nat /\ DOMAIN (two \o admits) = 1 .. Len(two) + Len(admits)
        /\ \A i \in 1 .. Len(two) : (two \o admits)[i] = two[i]
        /\ \A i \in 1 .. Len(admits) : (two \o admits)[Len(two) + i] = admits[i]
    BY <2>1, JoinOf
  <2> DEFINE both == two \o admits
  <2> HIDE DEF both, m
  <2>3. /\ m \in Nat /\ both \in Seq(AnyTask) /\ Len(both) = 1 + n + m /\ DOMAIN both = 1 .. 1 + n + m
        /\ \A i \in 1 .. 1 + n : both[i] = two[i]
        /\ \A i \in 1 .. m : both[1 + n + i] = admits[i]
    BY <1>8, <2>2 DEF both, m
  <2>4. /\ \A i \in 1 .. m : 1 + n + i \in 1 .. 1 + n + m
        /\ \A i \in 1 .. 1 + n + m : i \in 1 .. 1 + n \/ \E k \in 1 .. m : i = 1 + n + k
    <3>1. 1 + n \in Nat
      BY <1>2
    <3>2. QED
      BY <2>3, <3>1, Parts
  <2>5. QED
    BY <2>3, <2>4 DEF both
<1> DEFINE t == two \o admits
<1>10. op = "dm" => m = n
  BY <1>4
<1> HIDE DEF m, t
<1>11. /\ m \in Nat /\ t \in Seq(AnyTask) /\ Len(t) = 1 + n + m /\ DOMAIN t = 1 .. 1 + n + m
       /\ \A i \in 1 .. 1 + n : t[i] = two[i]
       /\ \A i \in 1 .. m : 1 + n + i \in 1 .. 1 + n + m /\ t[1 + n + i] = admits[i]
       /\ \A i \in 1 .. 1 + n + m : i \in 1 .. 1 + n \/ \E k \in 1 .. m : i = 1 + n + k
  BY <1>9 DEF t
<1>12. t # <<>> /\ t[1] = first
  BY <1>2, <1>8, <1>11
<1>13. ASSUME NEW i \in DOMAIN t, i # 1
       PROVE  \/ /\ t[i] = Task("put", u, c, RoleOwner)
                 /\ op = "dm" => \E j \in DOMAIN t : i < j /\ t[j] = Task("admit", u, c, RoleMember)
              \/ \E x \in others : t[i] = Task("put", x, c, RoleMember)
              \/ op = "dm" /\ \E x \in others \cup {u} : t[i] = Task("admit", x, c, RoleMember)
  <2>1. CASE i \in 1 .. 1 + n
    <3>1. PICK k \in 1 .. n : i = 1 + k
      BY <1>8, <1>13, <2>1
    <3>2. t[i] = Task("put", all[k], c, IF all[k] = u THEN RoleOwner ELSE RoleMember)
      BY <1>3, <1>8, <1>11, <2>1, <3>1
    <3>3. CASE all[k] = u
      <4>1. op = "dm" => 1 + n + k \in DOMAIN t /\ i < 1 + n + k /\ t[1 + n + k] = Task("admit", u, c, RoleMember)
        BY <1>2, <1>4, <1>10, <1>11, <3>1, <3>3
      <4>2. QED
        BY <3>2, <3>3, <4>1
    <3>4. CASE all[k] # u
      BY <1>2, <3>2, <3>4
    <3>5. QED
      BY <3>3, <3>4
  <2>2. CASE \E k \in 1 .. m : i = 1 + n + k
    <3>1. PICK k \in 1 .. m : i = 1 + n + k
      BY <2>2
    <3>2. op = "dm" /\ m = n
      BY <1>4, <3>1 DEF m
    <3>3. t[i] = Task("admit", all[k], c, RoleMember) /\ all[k] \in others \cup {u}
      BY <1>2, <1>4, <1>11, <3>1, <3>2
    <3>4. QED
      BY <3>2, <3>3
  <2>3. QED
    BY <1>11, <2>1, <2>2
<1>14. s = t
  BY DEF t, two, one
<1>15. Creation(u, others, c, op) = t
  BY <1>1, <1>14
<1>16. QED
  BY <1>11, <1>12, <1>13, <1>15 DEF first

\* What a deletion does, given the members it lists.
LEMMA DeletionOf ==
  ASSUME NEW u \in User, NEW c \in Channel
  PROVE  LET s == Deletion(u, c) IN
           /\ s \in Seq(AnyTask) /\ s # <<>> /\ Len(s) \in Nat \ {0} /\ DOMAIN s = 1 .. Len(s)
           /\ s[Len(s)] = Task("chan", u, c, Absent)
           /\ \A i \in DOMAIN s : i = Len(s) \/ (i < Len(s) /\ \E x \in User : s[i] = Task("drop", x, c, 0))
           /\ \A x \in Members(c) : \E i \in DOMAIN s : s[i] = Task("drop", x, c, 0)
<1> DEFINE all == SetToSeq(Members(c))
           drops == [i \in DOMAIN all |-> Task("drop", all[i], c, 0)]
           last == <<Task("chan", u, c, Absent)>>
           n == Len(all)
           s == drops \o last
<1>1. IsFiniteSet(Members(c)) /\ Members(c) \subseteq User
  BY FS_Subset DEF Members
<1>2. /\ all \in Seq(Members(c)) /\ n \in Nat
      /\ \A x \in Members(c) : \E i \in 1 .. n : all[i] = x
  BY <1>1, SetToSeqFacts
<1>3. Deletion(u, c) = s
  BY DEF Deletion
<1> HIDE DEF all
<1>4. DOMAIN all = 1 .. n /\ \A i \in 1 .. n : all[i] \in User
  BY <1>1, <1>2
<1>5. drops \in Seq(AnyTask) /\ Len(drops) = n /\ \A i \in 1 .. n : drops[i] = Task("drop", all[i], c, 0)
  <2>1. \A i \in 1 .. n : Task("drop", all[i], c, 0) \in AnyTask
    BY <1>4, TaskTypes
  <2>2. \A i \in 1 .. n : drops[i] = Task("drop", all[i], c, 0)
    BY <1>4
  <2>3. drops = [i \in 1 .. n |-> drops[i]]
    BY <1>4
  <2> HIDE DEF drops, n
  <2>4. n \in Nat /\ \A i \in 1 .. n : drops[i] \in AnyTask
    BY <1>2, <2>1, <2>2
  <2>5. drops \in Seq(AnyTask) /\ Len(drops) = n
    BY <2>3, <2>4, MapOf
  <2>6. QED
    BY <2>2, <2>5
<1>6. last \in Seq(AnyTask) /\ Len(last) = 1 /\ last[1] = Task("chan", u, c, Absent)
  <2>1. PICK k \in AnyTask : k = Task("chan", u, c, Absent)
    BY TaskTypes
  <2>2. last = <<k>>
    BY <2>1
  <2>3. <<k>> \in Seq(AnyTask) /\ Len(<<k>>) = 1 /\ <<k>>[1] = k
    OBVIOUS
  <2> HIDE DEF last
  <2>4. QED
    BY <2>1, <2>2, <2>3
<1> HIDE DEF n, drops, last
<1>7. /\ s \in Seq(AnyTask) /\ Len(s) = Len(drops) + Len(last) /\ DOMAIN s = 1 .. Len(drops) + Len(last)
      /\ \A i \in 1 .. Len(drops) : s[i] = drops[i]
      /\ \A i \in 1 .. Len(last) : s[Len(drops) + i] = last[i]
  <2>1. drops \in Seq(AnyTask) /\ last \in Seq(AnyTask)
    BY <1>5, <1>6
  <2>2. QED
    BY <2>1, JoinOf
<1> HIDE DEF s
<1>8. /\ s \in Seq(AnyTask) /\ Len(s) = n + 1 /\ DOMAIN s = 1 .. n + 1 /\ s[n + 1] = Task("chan", u, c, Absent)
      /\ \A i \in 1 .. n : s[i] = Task("drop", all[i], c, 0)
  BY <1>2, <1>5, <1>6, <1>7
<1>9. /\ s # <<>> /\ Len(s) \in Nat \ {0} /\ \A i \in 1 .. n + 1 : i = n + 1 \/ (i \in 1 .. n /\ i < n + 1)
  BY <1>2, <1>8
<1>10. \A i \in DOMAIN s : i = Len(s) \/ (i < Len(s) /\ \E x \in User : s[i] = Task("drop", x, c, 0))
  BY <1>4, <1>8, <1>9
<1>11. \A x \in Members(c) : \E i \in DOMAIN s : s[i] = Task("drop", x, c, 0)
  <2> TAKE x \in Members(c)
  <2>1. PICK i \in 1 .. n : all[i] = x
    BY <1>2
  <2>2. i \in 1 .. n + 1
    BY <1>2
  <2>3. QED
    BY <1>8, <2>1, <2>2
<1>12. DOMAIN s = 1 .. Len(s) /\ s[Len(s)] = Task("chan", u, c, Absent)
  BY <1>8
<1>13. QED
  BY <1>3, <1>8, <1>9, <1>10, <1>11, <1>12

\* What a user who deletes the account does to the groups.
LEMMA QuitsOf ==
  ASSUME NEW u \in User, NEW S, S \subseteq Channel, IsFiniteSet(S)
  PROVE  LET all == SetToSeq(S)
             s == [i \in DOMAIN all |-> Task("remove", u, all[i], "left")] IN
           /\ s \in Seq(AnyTask) /\ (all = <<>> <=> s = <<>>)
           /\ \A i \in DOMAIN s : \E d \in S : s[i] = Task("remove", u, d, "left")
<1> DEFINE all == SetToSeq(S)
           n == Len(all)
           s == [i \in DOMAIN all |-> Task("remove", u, all[i], "left")]
<1>1. all \in Seq(S) /\ n \in Nat
  BY SetToSeqFacts
<1> HIDE DEF all
<1>2. DOMAIN all = 1 .. n /\ \A i \in 1 .. n : all[i] \in S
  BY <1>1
<1>3. \A i \in 1 .. n : Task("remove", u, all[i], "left") \in AnyTask
  BY <1>2, TaskTypes
<1>4. all = <<>> <=> n = 0
  <2>1. \A t \in Seq(S) : t = <<>> <=> Len(t) = 0
    OBVIOUS
  <2>2. QED
    BY <1>1, <2>1
<1> HIDE DEF n
<1>5. s \in Seq(AnyTask) /\ Len(s) = n
  BY <1>1, <1>2, <1>3
<1>6. s = <<>> <=> n = 0
  <2>1. \A t \in Seq(AnyTask) : t = <<>> <=> Len(t) = 0
    OBVIOUS
  <2>2. QED
    BY <1>5, <2>1
<1>7. \A i \in DOMAIN s : \E d \in S : s[i] = Task("remove", u, d, "left")
  BY <1>2
<1>8. QED
  BY <1>4, <1>5, <1>6, <1>7 DEF all

-----------------------------------------------------------------------------
(* Calls keep their shape *)

LEMMA ActsStep ==
  ASSUME ActsShape, NEW u \in User, NEW r, acts' = [acts EXCEPT ![u] = r], used \subseteq used',
         r = None \/ CallFits(u, r, used')
  PROVE  ActsShape'
<1>1. ASSUME NEW w \in User, NEW s, CallFits(w, s, used) PROVE CallFits(w, s, used')
  <2>1. PlaceFits(w, s, used')
    BY <1>1 DEF CallFits, PlaceFits
  <2>2. \A t : TaskFits(w, s, used, t) => TaskFits(w, s, used', t)
    BY DEF TaskFits
  <2>3. QED
    BY <1>1, <2>1, <2>2 DEF CallFits, TodoFits
<1>2. acts' \in [User -> ActRecord \cup {None}]
  BY DEF ActsShape, CallFits
<1>3. ASSUME NEW w \in User, acts'[w] # None PROVE CallFits(w, acts'[w], used')
  BY <1>1, <1>3 DEF ActsShape
<1>4. QED
  BY <1>2, <1>3 DEF ActsShape

\* A call that is over with a task has the others left, in the same order.
LEMMA RestFits ==
  ASSUME MemberShape, NEW u \in User, NEW fails, Working(u), Rest(u, fails), used' = used
  PROVE  ActsShape'
<1> DEFINE r == acts[u]  s == r.todo  t == [r EXCEPT !.todo = Tail(s), !.held = None]
<1>1. ActsShape /\ CallFits(u, r, used) /\ s # <<>> /\ r.at = "tasks"
  BY DEF MemberShape, ActsShape, Working, Before
<1> DEFINE ends == Tail(s) = <<>> \/ (fails /\ r.op # "quit")
<1>2. CASE ends
  BY <1>1, <1>2, ActsStep DEF Rest, End
<1>3. CASE ~ends
  <2>1. acts' = [acts EXCEPT ![u] = t]
    BY <1>1, <1>3 DEF Rest, MemberShape, ActsShape
  <2>2. r \in ActRecord /\ s \in Seq(AnyTask)
    BY <1>1 DEF CallFits, ActRecord
  <2>3. /\ Tail(s) \in Seq(AnyTask) /\ Len(Tail(s)) = Len(s) - 1 /\ Len(s) \in Nat
        /\ \A i \in DOMAIN Tail(s) : i \in Nat /\ i + 1 \in DOMAIN s /\ Tail(s)[i] = s[i + 1]
        /\ \A i \in DOMAIN s : i # 1 => i - 1 \in DOMAIN Tail(s) /\ Tail(s)[i - 1] = s[i]
        /\ DOMAIN s = 1 .. Len(s)
    BY <1>1, <2>2, TailsOf
  <2>4. /\ t \in ActRecord /\ t.op = r.op /\ t.to = r.to /\ t.c = r.c /\ t.at = r.at
        /\ t.barred = r.barred /\ t.todo = Tail(s) /\ t.held = None
    BY <2>2, <2>3 DEF ActRecord
  <2> DEFINE q == Tail(s)
  <2> HIDE DEF t, q
  <2>5. PlaceFits(u, t, used)
    BY <1>1, <1>3, <2>4 DEF CallFits, PlaceFits, PlaceOf, q
  <2>6. ASSUME NEW i \in DOMAIN q
        PROVE  TaskFits(u, t, used, q[i]) /\ OrderFits(u, t, i)
    <3>1. i \in Nat /\ i + 1 \in DOMAIN s /\ q[i] = s[i + 1] /\ i + 1 > 1 /\ Len(q) = Len(s) - 1 /\ Len(s) \in Nat
      BY <2>3, <2>6 DEF q
    <3>2. TaskFits(u, r, used, s[i + 1]) /\ OrderFits(u, r, i + 1)
      BY <1>1, <3>1 DEF CallFits, TodoFits
    <3>3. TaskFits(u, t, used, q[i])
      BY <2>4, <3>1, <3>2 DEF TaskFits
    <3>4. ASSUME NEW j \in DOMAIN s, i + 1 < j PROVE j - 1 \in DOMAIN q /\ i < j - 1 /\ q[j - 1] = s[j]
      <4>1. j \in Nat /\ j # 1
        BY <2>3, <3>1, <3>4
      <4>2. j - 1 \in DOMAIN q /\ q[j - 1] = s[j]
        BY <2>3, <4>1 DEF q
      <4>3. i < j - 1
        BY <3>1, <3>4, <4>1
      <4>4. QED
        BY <4>2, <4>3
    <3>5. t.todo = q /\ t.op = r.op /\ t.to = r.to /\ t.c = r.c /\ t.barred = r.barred
      BY <2>4 DEF q
    <3> HIDE DEF q, t, r, s
    <3>6. (q[i].do = "chan" /\ t.op \in Creates => i = 1)
      BY <3>1, <3>2, <3>5 DEF OrderFits, r, s
    <3>7. q[i].do = "chan" /\ t.op \in {"delete", "clear"} => i = Len(q)
      BY <3>1, <3>2, <3>5 DEF OrderFits, r, s
    <3>8. q[i].do = "drop" => \E j \in DOMAIN q : i < j /\ q[j].do = "chan"
      BY <3>1, <3>2, <3>4 DEF OrderFits, r, s
    <3>9. q[i].do = "clear" => Len(q) = 1
      <4>1. q[i].do = "clear" => Len(s) = 1
        BY <3>1, <3>2 DEF OrderFits, r, s
      <4>2. Len(s) # 1
        BY <2>3, <3>1 DEF q
      <4>3. QED
        BY <4>1, <4>2
    <3>10. t.op = "dm" /\ q[i] = Task("put", u, t.c, RoleOwner) =>
             \E j \in DOMAIN q : i < j /\ q[j] = Task("admit", u, t.c, RoleMember)
      BY <3>1, <3>2, <3>4, <3>5 DEF OrderFits, r, s
    <3>11. q[i].do \in {"admit", "put"} /\ q[i].key[1] = t.to => ~t.barred
      BY <3>1, <3>2, <3>5 DEF OrderFits, r, s
    <3>12. QED
      BY <3>3, <3>5, <3>6, <3>7, <3>8, <3>9, <3>10, <3>11 DEF OrderFits
  <2>7. CallFits(u, t, used)
    BY <2>4, <2>5, <2>6 DEF CallFits, TodoFits, q
  <2>8. QED
    BY <1>1, <2>1, <2>7, ActsStep
<1>4. QED
  BY <1>2, <1>3

LEMMA OneTask ==
  ASSUME NEW u \in User, NEW r, NEW ids, NEW t, r.todo = <<t>>, TaskFits(u, r, ids, t),
         r.op # "dm", t.do # "drop", t.do \in {"admit", "put"} /\ t.key[1] = r.to => ~r.barred
  PROVE  TodoFits(u, r, ids)
<1>1. DOMAIN r.todo = {1} /\ r.todo[1] = t /\ Len(r.todo) = 1
  OBVIOUS
<1>2. OrderFits(u, r, 1)
  BY <1>1 DEF OrderFits
<1>3. QED
  BY <1>1, <1>2 DEF TodoFits

LEMMA NoTask ==
  ASSUME NEW u \in User, NEW r, NEW ids, r.todo = <<>>
  PROVE  TodoFits(u, r, ids)
BY DEF TodoFits

LEMMA CreationFits ==
  ASSUME NEW u \in User, NEW r \in ActRecord, NEW ids, NEW others, u \notin others,
         r.op \in Creates, r.c \in Channel, r.todo = Creation(u, others, r.c, r.op),
         IF others = {} THEN TRUE ELSE others = {r.to} /\ ~r.barred,
         r.to = u => ~r.barred
  PROVE  TodoFits(u, r, ids) /\ r.todo \in Seq(AnyTask) /\ r.todo # <<>> /\ r.todo[1] = Task("chan", u, r.c, KindOf(r.op))
<1> DEFINE s == r.todo  c == r.c
<1>1. others \subseteq {r.to} /\ others \subseteq User /\ (others # {} => r.to # u /\ ~r.barred)
  BY DEF ActRecord
<1>2. /\ s \in Seq(AnyTask) /\ s # <<>> /\ s[1] = Task("chan", u, c, KindOf(r.op))
      /\ \A i \in DOMAIN s :
           \/ i = 1
           \/ /\ s[i] = Task("put", u, c, RoleOwner)
              /\ r.op = "dm" => \E j \in DOMAIN s : i < j /\ s[j] = Task("admit", u, c, RoleMember)
           \/ \E x \in others : s[i] = Task("put", x, c, RoleMember)
           \/ r.op = "dm" /\ \E x \in others \cup {u} : s[i] = Task("admit", x, c, RoleMember)
  <2> DEFINE op == r.op  d == Creation(u, others, c, op)
  <2>1. op \in Creates /\ c \in Channel /\ s = d
    OBVIOUS
  <2> HIDE DEF op, c
  <2>2. /\ d \in Seq(AnyTask) /\ d # <<>> /\ d[1] = Task("chan", u, c, KindOf(op))
        /\ \A i \in DOMAIN d :
             \/ i = 1
             \/ /\ d[i] = Task("put", u, c, RoleOwner)
                /\ op = "dm" => \E j \in DOMAIN d : i < j /\ d[j] = Task("admit", u, c, RoleMember)
             \/ \E x \in others : d[i] = Task("put", x, c, RoleMember)
             \/ op = "dm" /\ \E x \in others \cup {u} : d[i] = Task("admit", x, c, RoleMember)
    <3>1. others \subseteq User /\ op \in Creates /\ c \in Channel
      BY <1>1, <2>1
    <3> HIDE DEF d, Creates, Task
    <3>2. d = Creation(u, others, c, op)
      BY DEF d
    <3>3. QED
      BY <3>1, <3>2, CreationOf
  <2>3. op = r.op
    BY DEF op
  <2> HIDE DEF d, s
  <2>4. QED
    BY <2>1, <2>2, <2>3
<1>3. ASSUME NEW i \in DOMAIN s PROVE TaskFits(u, r, ids, s[i]) /\ OrderFits(u, r, i)
  <2>1. CASE i = 1
    <3>1. s[1] = Task("chan", u, c, KindOf(r.op)) /\ s[1].do = "chan"
      BY <1>2 DEF Task
    <3>2. QED
      BY <2>1, <3>1 DEF TaskFits, OrderFits, Task
  <2>2. CASE /\ s[i] = Task("put", u, c, RoleOwner)
             /\ r.op = "dm" => \E j \in DOMAIN s : i < j /\ s[j] = Task("admit", u, c, RoleMember)
    <3>1. s[i].do = "put" /\ s[i].key[1] = u
      BY <2>2 DEF Task
    <3>2. QED
      BY <2>2, <3>1 DEF TaskFits, OrderFits
  <2>3. CASE \E x \in others : s[i] = Task("put", x, c, RoleMember)
    <3>1. s[i] = Task("put", r.to, c, RoleMember) /\ r.to # u /\ ~r.barred
      BY <1>1, <2>3
    <3>2. s[i].do = "put" /\ s[i] # Task("put", u, c, RoleOwner)
      BY <3>1 DEF Task
    <3>3. QED
      BY <3>1, <3>2 DEF TaskFits, OrderFits
  <2>4. CASE r.op = "dm" /\ \E x \in others \cup {u} : s[i] = Task("admit", x, c, RoleMember)
    <3>1. PICK x \in others \cup {u} : s[i] = Task("admit", x, c, RoleMember)
      BY <2>4
    <3>2. s[i].do = "admit" /\ s[i].key[1] = x
      BY <3>1 DEF Task
    <3>3. x \in {u, r.to} /\ (x = r.to => ~r.barred)
      BY <1>1
    <3>4. TaskFits(u, r, ids, s[i])
      BY <2>4, <3>1, <3>3 DEF TaskFits
    <3>5. QED
      BY <3>2, <3>3, <3>4 DEF OrderFits, Task
  <2>5. QED
    BY <1>2, <2>1, <2>2, <2>3, <2>4
<1>4. QED
  BY <1>2, <1>3 DEF TodoFits

LEMMA DeletionFits ==
  ASSUME NEW u \in User, NEW r, NEW ids, r.op \in {"delete", "clear"}, r.c \in Channel, r.todo = Deletion(u, r.c)
  PROVE  TodoFits(u, r, ids) /\ r.todo \in Seq(AnyTask) /\ r.todo # <<>>
<1> DEFINE s == r.todo  c == r.c
<1>1. /\ s \in Seq(AnyTask) /\ s # <<>> /\ Len(s) \in Nat \ {0} /\ DOMAIN s = 1 .. Len(s)
      /\ s[Len(s)] = Task("chan", u, c, Absent)
      /\ \A i \in DOMAIN s : i = Len(s) \/ (i < Len(s) /\ \E x \in User : s[i] = Task("drop", x, c, 0))
  <2> DEFINE d == Deletion(u, c)
  <2>1. /\ d \in Seq(AnyTask) /\ d # <<>> /\ Len(d) \in Nat \ {0} /\ DOMAIN d = 1 .. Len(d)
        /\ d[Len(d)] = Task("chan", u, c, Absent)
        /\ \A i \in DOMAIN d : i = Len(d) \/ (i < Len(d) /\ \E x \in User : d[i] = Task("drop", x, c, 0))
    BY DeletionOf, Zenon
  <2>2. d = s
    OBVIOUS
  <2> HIDE DEF d
  <2>3. QED
    BY <2>1, <2>2
<1>2. ASSUME NEW i \in DOMAIN s PROVE TaskFits(u, r, ids, s[i]) /\ OrderFits(u, r, i)
  <2>1. CASE i = Len(s)
    <3>1. s[i] = Task("chan", u, c, Absent) /\ s[i].do = "chan"
      BY <1>1, <2>1 DEF Task
    <3>2. QED
      BY <2>1, <3>1 DEF TaskFits, OrderFits
  <2>2. CASE i < Len(s) /\ \E x \in User : s[i] = Task("drop", x, c, 0)
    <3>1. s[i].do = "drop"
      BY <2>2 DEF Task
    <3>2. Len(s) \in DOMAIN s /\ s[Len(s)].do = "chan"
      BY <1>1 DEF Task
    <3>3. QED
      BY <2>2, <3>1, <3>2 DEF TaskFits, OrderFits
  <2>3. QED
    BY <1>1, <2>1, <2>2
<1>3. QED
  BY <1>1, <1>2 DEF TodoFits

-----------------------------------------------------------------------------
(* Types *)

LEMMA SameRecords ==
  ASSUME RecordShape, UNCHANGED <<chan, uc, used, newest, sent, out, gone>>
  PROVE  RecordShape'
BY DEF RecordShape

LEMMA BeginShape ==
  ASSUME MemberShape, barred \subseteq Pair,
         NEW u \in User, NEW op \in Op, NEW v \in User, NEW c \in Channel, Begin(u, op, v, c)
  PROVE  MemberShape'
<1> DEFINE r == [op |-> op, to |-> v, c |-> c, held |-> None, rank |-> RoleMember,
                 at |-> CASE op = "join" -> "link" [] op = "receipt" -> "tasks" [] OTHER -> "member",
                 todo |-> IF op = "receipt" THEN TasksOf(op, u, v, c) ELSE <<>>,
                 barred |-> <<v, u>> \in barred]
<1>1. /\ acts' = [acts EXCEPT ![u] = r] /\ UNCHANGED <<chan, uc, used, newest, sent, out, gone>>
      /\ op \in Op \ {"dm", "group", "unnamed", "quit"} /\ (chan[c] # Absent \/ c \in gone)
      /\ (op \in {"add"} \cup Manages) <=> v # u
  BY DEF Begin, records
<1>2. ActsShape /\ RecordShape /\ c \in used
  BY <1>1 DEF MemberShape, RecordShape
<1>3. r.at \in Place /\ (op = "receipt" <=> r.at = "tasks") /\ (op = "join" <=> r.at = "link")
      /\ (op \notin {"join", "receipt"} <=> r.at = "member")
  BY DEF Place
<1>4. op = "receipt" => r.todo = <<Task("receipt", u, c, RoleMember)>>
  BY DEF TasksOf
<1>5. Task("receipt", u, c, RoleMember) \in AnyTask
  BY TaskTypes
<1>6. r.todo \in Seq(AnyTask) /\ (r.todo = <<>> <=> op # "receipt")
  <2>1. CASE op = "receipt"
    <3>1. <<Task("receipt", u, c, RoleMember)>> \in Seq(AnyTask) /\ <<Task("receipt", u, c, RoleMember)>> # <<>>
      BY <1>5
    <3>2. QED
      BY <1>4, <2>1, <3>1
  <2>2. CASE op # "receipt"
    BY <2>2
  <2>3. QED
    BY <2>1, <2>2
<1>7. v = u => ~r.barred
  BY DEF Pair
<1> DEFINE at == r.at  todo == r.todo
<1>8. /\ r.op = op /\ r.to = v /\ r.c = c /\ r.held = None /\ r.rank = RoleMember /\ r.at = at /\ r.todo = todo
      /\ r \in [op : {op}, to : {v}, c : {c}, held : {None}, rank : {RoleMember}, at : {at}, todo : {todo},
                barred : BOOLEAN]
  OBVIOUS
<1> HIDE DEF r, at, todo
<1>9. r \in ActRecord
  BY <1>3, <1>6, <1>8 DEF ActRecord, Rank
<1>10. PlaceFits(u, r, used)
  BY <1>1, <1>2, <1>3, <1>6, <1>7, <1>8 DEF PlaceFits, PlaceOf, Op
<1>11. TodoFits(u, r, used)
  <2>1. CASE op = "receipt"
    <3>1. TaskFits(u, r, used, Task("receipt", u, c, RoleMember))
      BY <1>8, <2>1 DEF TaskFits
    <3>2. Task("receipt", u, c, RoleMember).do = "receipt"
      BY DEF Task
    <3>3. QED
      BY <1>4, <1>8, <2>1, <3>1, <3>2, OneTask
  <2>2. CASE op # "receipt"
    BY <1>6, <2>2, NoTask
  <2>3. QED
    BY <2>1, <2>2
<1>12. ActsShape'
  BY <1>1, <1>2, <1>9, <1>10, <1>11, ActsStep DEF CallFits
<1>13. QED
  BY <1>1, <1>2, <1>12, SameRecords DEF MemberShape

LEMMA CreationShape ==
  ASSUME MemberShape, barred \subseteq Pair,
         NEW u \in User, NEW op \in Op, NEW v \in User, NEW c \in Channel, BeginCreation(u, v, op, c)
  PROVE  MemberShape'
<1> DEFINE r == [op |-> op, to |-> v, c |-> c, held |-> None, rank |-> RoleOwner,
                 at |-> IF op = "dm" THEN "look" ELSE IF v # u THEN "ask" ELSE "tasks",
                 todo |-> IF v # u THEN <<>> ELSE Creation(u, {}, c, op),
                 barred |-> <<v, u>> \in barred]
           at == r.at  todo == r.todo
<1>1. /\ acts' = [acts EXCEPT ![u] = r] /\ UNCHANGED <<chan, uc, newest, sent, out, gone>>
      /\ op \in Creates /\ (op = "dm" => v # u) /\ (op = "unnamed" => v = u) /\ used' = used \cup {c} /\ c \in Channel \ used
  BY DEF BeginCreation, IsNext
<1>2. ActsShape /\ RecordShape
  BY DEF MemberShape
<1>3. RecordShape'
  <2>1. IsFiniteSet(used')
    BY <1>1, <1>2, FS_AddElement DEF RecordShape
  <2>2. QED
    BY <1>1, <1>2, <2>1 DEF RecordShape
<1>4. v = u => ~r.barred
  BY DEF Pair
<1>5. /\ r.op = op /\ r.to = v /\ r.c = c /\ r.held = None /\ r.at = at /\ r.todo = todo
      /\ r \in [op : {op}, to : {v}, c : {c}, held : {None}, rank : {RoleOwner}, at : {at}, todo : {todo},
                barred : BOOLEAN]
      /\ at = IF op = "dm" THEN "look" ELSE IF v # u THEN "ask" ELSE "tasks"
      /\ todo = IF v # u THEN <<>> ELSE Creation(u, {}, c, op)
  OBVIOUS
<1> HIDE DEF r, at, todo
<1>6. todo \in Seq(AnyTask) => r \in ActRecord
  <2>1. at \in Place /\ op \in Op /\ RoleOwner \in Rank /\ c \in Channel
    BY <1>1, <1>5 DEF Place, Rank
  <2>2. QED
    BY <1>5, <2>1 DEF ActRecord
<1>7. /\ TodoFits(u, r, used') /\ r \in ActRecord /\ (v = u <=> todo # <<>>)
  <2>1. CASE v # u
    <3>1. todo = <<>>
      BY <1>5, <2>1
    <3>2. todo \in Seq(AnyTask)
      BY <3>1
    <3>3. QED
      BY <1>5, <1>6, <2>1, <3>1, <3>2, NoTask
  <2>2. CASE v = u
    <3>1. todo = Creation(u, {}, c, op) /\ todo \in Seq(AnyTask)
      <4>1. {} \subseteq User /\ u \notin {} /\ op \in Creates /\ c \in Channel
        BY <1>1
      <4>2. Creation(u, {}, c, op) \in Seq(AnyTask)
        BY <4>1, CreationOf
      <4>3. QED
        BY <1>5, <2>2, <4>2
    <3>2. r \in ActRecord /\ r.todo = Creation(u, {}, r.c, r.op)
      BY <1>5, <1>6, <2>2, <3>1
    <3>3. TodoFits(u, r, used') /\ r.todo # <<>>
      <4> DEFINE others == {}
      <4>1. /\ others = {} /\ u \notin others
            /\ r.op \in Creates /\ r.c \in Channel /\ (r.to = u => ~r.barred)
            /\ r.todo = Creation(u, others, r.c, r.op)
        BY <1>1, <1>4, <1>5, <2>2, <3>2
      <4> HIDE DEF others
      <4>2. QED
        BY <3>2, <4>1, CreationFits
    <3>4. QED
      BY <1>5, <3>2, <3>3
  <2>3. QED
    BY <1>1, <2>1, <2>2
<1>8. PlaceFits(u, r, used')
  BY <1>1, <1>4, <1>5, <1>7 DEF PlaceFits, PlaceOf
<1>9. ActsShape'
  BY <1>1, <1>2, <1>7, <1>8, ActsStep DEF CallFits
<1>10. QED
  BY <1>3, <1>9 DEF MemberShape

LEMMA QuitShape ==
  ASSUME MemberShape, NEW u \in User, BeginQuit(u)
  PROVE  MemberShape'
<1> DEFINE r == [op |-> "quit", to |-> u, c |-> Absent, held |-> None, rank |-> RoleMember,
                 at |-> "groups", todo |-> <<>>, barred |-> FALSE]
<1>1. /\ acts' = [acts EXCEPT ![u] = r] /\ UNCHANGED <<chan, uc, used, newest, sent, out, gone>>
  BY DEF BeginQuit, records, memberHistory
<1>2. ActsShape /\ RecordShape
  BY DEF MemberShape
<1>3. r \in ActRecord
  BY DEF ActRecord, Rank, Place, Op
<1>4. PlaceFits(u, r, used)
  BY DEF PlaceFits, PlaceOf
<1>5. TodoFits(u, r, used)
  BY NoTask
<1> HIDE DEF r
<1>6. ActsShape'
  BY <1>1, <1>2, <1>3, <1>4, <1>5, ActsStep DEF CallFits
<1>7. QED
  BY <1>1, <1>2, <1>6, SameRecords DEF MemberShape

LEMMA GoesShape ==
  ASSUME MemberShape, NEW u \in User, acts[u] # None, acts[u].at # "tasks",
         NEW t \in ActRecord, acts' = [acts EXCEPT ![u] = t],
         t.op = acts[u].op, t.to = acts[u].to, t.c = acts[u].c, t.held = acts[u].held,
         t.barred => acts[u].barred, PlaceOf(t.op, t.at), t.at = "ask" => t.to # u, t.at # "tasks" <=> t.todo = <<>>,
         TodoFits(u, t, used), UNCHANGED <<chan, uc, used, newest, sent, out, gone>>
  PROVE  MemberShape'
<1>1. ActsShape /\ RecordShape /\ CallFits(u, acts[u], used)
  BY DEF MemberShape, ActsShape
<1>2. acts[u].held = None
  BY <1>1 DEF CallFits, PlaceFits
<1>3. PlaceFits(u, t, used)
  BY <1>1, <1>2 DEF CallFits, PlaceFits
<1>4. ActsShape'
  BY <1>1, <1>3, ActsStep DEF CallFits
<1>5. QED
  BY <1>1, <1>4, SameRecords DEF MemberShape

LEMMA ProceedShape ==
  ASSUME MemberShape, NEW u \in User, acts[u] # None, acts[u].at # "tasks",
         NEW next \in Place, NEW todo \in Seq(AnyTask), Proceed(u, next, todo),
         PlaceOf(acts[u].op, next), next = "ask" => acts[u].to # u, next # "tasks" <=> todo = <<>>,
         TodoFits(u, [acts[u] EXCEPT !.at = next, !.todo = todo], used),
         UNCHANGED <<chan, uc, used, newest, sent, out, gone>>
  PROVE  MemberShape'
<1> DEFINE t == [acts[u] EXCEPT !.at = next, !.todo = todo]
<1>1. acts[u] \in ActRecord /\ acts \in [User -> ActRecord \cup {None}]
  BY DEF MemberShape, ActsShape, CallFits
<1>2. /\ t \in ActRecord /\ t.op = acts[u].op /\ t.to = acts[u].to /\ t.c = acts[u].c
      /\ t.held = acts[u].held /\ t.barred = acts[u].barred /\ t.at = next /\ t.todo = todo
  BY <1>1 DEF ActRecord
<1>3. acts' = [acts EXCEPT ![u] = t]
  BY <1>1 DEF Proceed
<1> HIDE DEF t
<1>4. TodoFits(u, t, used)
  BY DEF t
<1>5. QED
  BY <1>2, <1>3, <1>4, GoesShape

LEMMA EndShape ==
  ASSUME MemberShape, NEW u \in User, End(u), UNCHANGED <<chan, uc, used, newest, sent, out, gone>>
  PROVE  MemberShape'
<1>1. ActsShape /\ RecordShape
  BY DEF MemberShape
<1>2. ActsShape'
  BY <1>1, ActsStep DEF End
<1>3. QED
  BY <1>1, <1>2, SameRecords DEF MemberShape

\* A check that leads to the next one.
LEMMA StepShape ==
  ASSUME MemberShape, NEW u \in User, NEW at \in Place, at # "tasks", NEW holds,
         NEW next \in Place, next \notin {"tasks", "ask"}, Checked(u, at, holds, next, <<>>),
         acts[u] # None => PlaceOf(acts[u].op, next)
  PROVE  MemberShape'
<1>1. UNCHANGED <<chan, uc, used, newest, sent, out, gone>> /\ acts[u] # None /\ acts[u].at = at
  BY DEF Checked, records, memberHistory, Before
<1>2. CASE ~holds
  BY <1>1, <1>2, EndShape DEF Checked
<1>3. CASE holds
  <2> DEFINE t == [acts[u] EXCEPT !.at = next, !.todo = <<>>]
  <2>1. t.todo = <<>>
    BY <1>1 DEF MemberShape, ActsShape, CallFits, ActRecord
  <2> HIDE DEF t
  <2>2. TodoFits(u, t, used)
    BY <2>1, NoTask
  <2>3. <<>> \in Seq(AnyTask) /\ Proceed(u, next, <<>>)
    BY <1>3 DEF Checked
  <2>4. QED
    BY <1>1, <2>2, <2>3, ProceedShape DEF t
<1>4. QED
  BY <1>2, <1>3

\* One that leaves the call with a single task.
LEMMA TaskShape ==
  ASSUME MemberShape, NEW u \in User, acts[u] # None, acts[u].at # "tasks", acts[u].op # "dm",
         NEW t \in AnyTask, Proceed(u, "tasks", <<t>>), TaskFits(u, acts[u], used, t), t.do # "drop",
         t.do \in {"admit", "put"} /\ t.key[1] = acts[u].to => ~acts[u].barred,
         UNCHANGED <<chan, uc, used, newest, sent, out, gone>>
  PROVE  MemberShape'
<1> DEFINE r == [acts[u] EXCEPT !.at = "tasks", !.todo = <<t>>]
<1>1. acts[u] \in ActRecord
  BY DEF MemberShape, ActsShape, CallFits
<1>2. /\ r.op = acts[u].op /\ r.to = acts[u].to /\ r.c = acts[u].c /\ r.barred = acts[u].barred
      /\ r.todo = <<t>>
  BY <1>1 DEF ActRecord
<1> HIDE DEF r
<1>3. TaskFits(u, r, used, t)
  BY <1>2 DEF TaskFits
<1>4. TodoFits(u, r, used)
  BY <1>2, <1>3, OneTask
<1>5. <<t>> \in Seq(AnyTask) /\ <<t>> # <<>> /\ "tasks" \in Place /\ PlaceOf(acts[u].op, "tasks")
  BY DEF Place, PlaceOf
<1>6. QED
  BY <1>4, <1>5, ProceedShape DEF r

\* What is known of a call at its place.
LEMMA CallAt ==
  ASSUME MemberShape, NEW u \in User, acts[u] # None
  PROVE  /\ CallFits(u, acts[u], used) /\ acts[u] \in ActRecord /\ PlaceOf(acts[u].op, acts[u].at)
         /\ acts[u].op \in Op /\ acts[u].to \in User /\ acts[u].at \in Place /\ acts[u].todo \in Seq(AnyTask)
         /\ acts[u].op # "quit" => acts[u].c \in used /\ acts[u].c \in Channel
         /\ acts[u].op # "group" => (acts[u].op \in {"add", "dm"} \cup Manages <=> acts[u].to # u)
         /\ acts[u].at = "ask" => acts[u].to # u
         /\ acts[u].to = u => ~acts[u].barred
         /\ acts[u].at # "tasks" <=> acts[u].todo = <<>>
         /\ acts[u].held \in Membership \cup {Absent, None}
         /\ acts[u].held # None => acts[u].todo # <<>> /\ Head(acts[u].todo).do \in Rereads
<1>1. CallFits(u, acts[u], used) /\ used \subseteq Channel
  BY DEF MemberShape, ActsShape, RecordShape
<1>2. QED
  BY <1>1 DEF CallFits, ActRecord, PlaceFits

LEMMA LookShape ==
  ASSUME MemberShape, NEW u \in User, Look(u)
  PROVE  MemberShape'
<1>1. /\ UNCHANGED <<chan, uc, used, newest, sent, out, gone>> /\ acts[u] # None /\ acts[u].at = "look"
      /\ End(u) \/ Proceed(u, "ask", <<>>)
  BY DEF Look, records, Before
<1>2. CASE End(u)
  BY <1>1, <1>2, EndShape
<1>3. CASE Proceed(u, "ask", <<>>)
  <2> DEFINE t == [acts[u] EXCEPT !.at = "ask", !.todo = <<>>]
  <2>1. t.todo = <<>>
    BY <1>1, CallAt DEF ActRecord
  <2> HIDE DEF t
  <2>2. TodoFits(u, t, used)
    BY <2>1, NoTask
  <2>3. <<>> \in Seq(AnyTask) /\ "ask" \in Place /\ PlaceOf(acts[u].op, "ask") /\ acts[u].to # u
    BY <1>1, CallAt DEF Place, PlaceOf
  <2>4. QED
    BY <1>1, <1>3, <2>2, <2>3, ProceedShape DEF t
<1>4. QED
  BY <1>1, <1>2, <1>3

\* What AskLeave leaves of the call of u.
Asked0(u) ==
  LET v == acts[u].to  c == acts[u].c  op == acts[u].op  may == CanAddToChannel(u, v) IN
    [acts[u] EXCEPT !.at = "tasks",
                    !.todo = IF op = "add" THEN TasksOf("add", u, v, c)
                                           ELSE Creation(u, IF may THEN {v} ELSE {}, c, op),
                    !.barred = acts[u].barred /\ <<v, u>> \in barred]

LEMMA AskFacts ==
  ASSUME MemberShape, BarInv, NEW u \in User, AskLeave(u)
  PROVE  /\ UNCHANGED <<chan, uc, used, newest, sent, out, gone, raced, contested, mixed, doubled, forced>>
         /\ acts[u] # None /\ acts[u].at = "ask" /\ acts[u].op \in {"add", "dm", "group"} /\ acts[u].to # u
         /\ \/ End(u)
            \/ /\ acts' = [acts EXCEPT ![u] = Asked0(u)] /\ Asked0(u) \in ActRecord
               /\ Asked0(u).op = acts[u].op /\ Asked0(u).to = acts[u].to /\ Asked0(u).c = acts[u].c
               /\ Asked0(u).held = None /\ Asked0(u).at = "tasks" /\ (Asked0(u).barred => acts[u].barred)
               /\ TodoFits(u, Asked0(u), used) /\ Asked0(u).todo # <<>>
               /\ acts[u].op # "add" => Head(Asked0(u).todo).do = "chan"
<1> DEFINE v == acts[u].to  c == acts[u].c  op == acts[u].op  may == CanAddToChannel(u, v)
           t == Asked0(u)
           todo == IF op = "add" THEN TasksOf("add", u, v, c) ELSE Creation(u, IF may THEN {v} ELSE {}, c, op)
<1>1. /\ UNCHANGED <<chan, uc, used, newest, sent, out, gone, raced, contested, mixed, doubled, forced>>
      /\ acts[u] # None /\ acts[u].at = "ask"
  BY DEF AskLeave, Before, records, memberHistory
<1>2. /\ op \in {"add", "dm", "group"} /\ v # u /\ v \in User /\ c \in Channel /\ acts[u] \in ActRecord /\ acts[u].held = None
  BY <1>1, CallAt DEF PlaceOf
<1>3. CASE ~may /\ op = "add"
  BY <1>1, <1>2, <1>3 DEF AskLeave
<1>4. CASE may \/ op # "add"
  <2>1. acts' = [acts EXCEPT ![u] = t]
    <3>1. acts \in [User -> ActRecord \cup {None}]
      BY DEF MemberShape, ActsShape
    <3> DEFINE bar == acts[u].barred /\ <<v, u>> \in barred
    <3>2. acts' = [acts EXCEPT ![u] = [acts[u] EXCEPT !.at = "tasks", !.todo = todo, !.barred = bar]]
      BY <1>4 DEF AskLeave
    <3>3. t = [acts[u] EXCEPT !.at = "tasks", !.todo = todo, !.barred = bar]
      BY DEF Asked0
    <3> HIDE DEF t, todo, bar
    <3>4. QED
      BY <3>2, <3>3
  <2>2. may => <<v, u>> \notin barred
    BY DEF CanAddToChannel, BarInv
  <2>3. /\ t.op = op /\ t.to = v /\ t.c = c /\ t.held = None /\ t.at = "tasks" /\ t.todo = todo
        /\ (t.barred => acts[u].barred) /\ (may => ~t.barred)
        /\ todo \in Seq(AnyTask) => t \in ActRecord
    BY <1>2, <2>2 DEF ActRecord, Asked0, Place
  <2> HIDE DEF t, todo, may, v, c, op
  <2>4. CASE op = "add"
    <3> DEFINE a == Task("admit", v, c, RoleMember)
    <3>1. todo = <<a>> /\ a \in AnyTask /\ a.do = "admit"
      BY <1>2, <2>4, TaskTypes DEF todo, TasksOf, Task, op
    <3>2. todo \in Seq(AnyTask) /\ todo # <<>>
      BY <3>1
    <3>3. TaskFits(u, t, used, a) /\ may
      BY <1>4, <2>3, <2>4 DEF TaskFits
    <3>4. TodoFits(u, t, used)
      BY <2>3, <2>4, <3>1, <3>3, OneTask
    <3>5. QED
      BY <1>1, <1>2, <2>1, <2>3, <2>4, <3>2, <3>4 DEF op, v, c, t
  <2>5. CASE op # "add"
    <3> DEFINE others == IF may THEN {v} ELSE {}
    <3>1. todo = Creation(u, others, c, op)
      BY <2>5 DEF todo
    <3>2. others \subseteq User /\ u \notin others /\ op \in Creates
      BY <1>2, <2>5 DEF v, op
    <3> HIDE DEF others
    <3>3. Creation(u, others, c, op) \in Seq(AnyTask)
      BY <1>2, <3>2, CreationOf DEF c
    <3>4. t \in ActRecord /\ t.todo = Creation(u, others, t.c, t.op) /\ t.op \in Creates
      BY <2>3, <2>5, <3>1, <3>2, <3>3
    <3>5. IF others = {} THEN TRUE ELSE others = {t.to} /\ ~t.barred
      BY <2>3, <2>5 DEF others
    <3>6. t.c \in Channel /\ (t.to = u => ~t.barred)
      BY <1>2, <2>3 DEF c, v
    <3>7. TodoFits(u, t, used) /\ t.todo \in Seq(AnyTask) /\ t.todo # <<>> /\ t.todo[1] = Task("chan", u, t.c, KindOf(t.op))
      BY <3>2, <3>4, <3>5, <3>6, CreationFits
    <3>8. Head(t.todo).do = "chan"
      BY <3>7, TailsOf DEF Task
    <3>9. QED
      BY <1>1, <1>2, <2>1, <2>3, <2>5, <3>4, <3>7, <3>8 DEF op, v, c, t
  <2>6. QED
    BY <1>2, <2>4, <2>5 DEF op
<1>5. QED
  BY <1>3, <1>4

LEMMA AskShape ==
  ASSUME MemberShape, BarInv, NEW u \in User, AskLeave(u)
  PROVE  MemberShape'
<1>1. UNCHANGED <<chan, uc, used, newest, sent, out, gone>> /\ acts[u] # None /\ acts[u].at = "ask"
  BY AskFacts
<1>2. CASE End(u)
  BY <1>1, <1>2, EndShape
<1>3. CASE ~End(u)
  <2> DEFINE t == Asked0(u)
  <2>1. /\ acts' = [acts EXCEPT ![u] = t] /\ t \in ActRecord
        /\ t.op = acts[u].op /\ t.to = acts[u].to /\ t.c = acts[u].c
        /\ t.held = None /\ t.at = "tasks" /\ (t.barred => acts[u].barred)
        /\ TodoFits(u, t, used) /\ t.todo # <<>>
    BY <1>3, AskFacts
  <2>2. acts[u].held = None
    BY <1>1, CallAt
  <2> HIDE DEF t
  <2>3. PlaceOf(t.op, t.at)
    BY <2>1 DEF PlaceOf
  <2>4. QED
    BY <1>1, <2>1, <2>2, <2>3, GoesShape
<1>4. QED
  BY <1>2, <1>3

LEMMA EarlyShape ==
  ASSUME MemberShape, NEW u \in User, FindLink(u) \/ CheckOutside(u) \/ RequireMember(u)
  PROVE  MemberShape'
<1>1. CASE FindLink(u)
  <2>1. acts[u] # None /\ acts[u].at = "link"
    BY <1>1 DEF FindLink, Checked, Before
  <2>2. PlaceOf(acts[u].op, "outside")
    BY <2>1, CallAt DEF PlaceOf
  <2>3. "link" \in Place /\ "outside" \in Place
    BY DEF Place
  <2>4. QED
    BY <1>1, <2>2, <2>3, StepShape DEF FindLink
<1>2. CASE RequireMember(u)
  <2>1. acts[u] # None /\ acts[u].at = "member"
    BY <1>2 DEF RequireMember, Checked, Before
  <2>2. PlaceOf(acts[u].op, "actor")
    BY <2>1, CallAt DEF PlaceOf
  <2>3. "member" \in Place /\ "actor" \in Place
    BY DEF Place
  <2>4. QED
    BY <1>2, <2>2, <2>3, StepShape DEF RequireMember
<1>3. CASE CheckOutside(u)
  <2> DEFINE c == acts[u].c  t == Task("admit", u, c, RoleMember)
  <2>1. /\ acts[u] # None /\ acts[u].at = "outside" /\ (End(u) \/ Proceed(u, "tasks", TasksOf("join", u, u, c)))
        /\ UNCHANGED <<chan, uc, used, newest, sent, out, gone>>
    BY <1>3 DEF CheckOutside, Checked, Before, records, memberHistory
  <2>2. acts[u].op = "join" /\ c \in Channel /\ acts[u].to = u /\ ~acts[u].barred
    BY <2>1, CallAt DEF PlaceOf
  <2>3. TasksOf("join", u, u, c) = <<t>> /\ t \in AnyTask /\ t.do = "admit"
    BY <2>2, TaskTypes DEF TasksOf, Task
  <2>4. TaskFits(u, acts[u], used, t)
    BY <2>2 DEF TaskFits
  <2> HIDE DEF t
  <2>5. QED
    BY <2>1, <2>2, <2>3, <2>4, EndShape, TaskShape
<1>4. QED
  BY <1>1, <1>2, <1>3

\* What CheckActor does with the call of u.
LEMMA ActorFacts ==
  ASSUME MemberShape, NEW u \in User, CheckActor(u)
  PROVE  LET c == acts[u].c  op == acts[u].op  mine == uc[<<u, c>>] IN
           /\ UNCHANGED <<chan, uc, used, newest, sent, out, gone, raced, mixed, doubled, forced>>
           /\ acts[u] # None /\ acts[u].at = "actor" /\ c \in Channel
           /\ \/ End(u)
              \/ /\ op \in {"add"} \cup Manages /\ mine # Absent /\ mine.role >= RoleAdmin
                 /\ acts' = [acts EXCEPT ![u] = [acts[u] EXCEPT !.rank = mine.role,
                                                   !.at = IF op = "add" THEN "ask" ELSE "target"]]
              \/ op = "leave" /\ Proceed(u, "tasks", <<Task("remove", u, c, "left")>>)
              \/ /\ op = "rename" /\ Proceed(u, "tasks", <<Task("chan", u, c, "group")>>)
                 /\ mine # Absent /\ mine.role >= RoleAdmin
              \/ op = "clear" /\ IsDM(c) /\ Proceed(u, "tasks", <<Task("clear", u, c, newest[c])>>)
              \/ op \in {"delete", "clear"} /\ Proceed(u, "list", <<>>)
<1> DEFINE c == acts[u].c  op == acts[u].op  mine == uc[<<u, c>>]
           may == mine # Absent /\ mine.role >= Need(op)
<1>1. /\ UNCHANGED <<chan, uc, used, newest, sent, out, gone, raced, mixed, doubled, forced>>
      /\ acts[u] # None /\ acts[u].at = "actor"
  BY DEF CheckActor, Before, records, memberHistory
<1>2. /\ op \in {"add", "leave", "rename", "delete", "clear"} \cup Manages /\ c \in Channel
      /\ uc \in [Key -> Membership \cup {Absent}]
  BY <1>1, CallAt DEF PlaceOf, MemberShape, RecordShape
<1>3. mine # Absent => mine \in Membership /\ mine.role \in RoleMember .. RoleOwner
  <2>1. <<u, c>> \in Key
    BY <1>2 DEF Key
  <2>2. QED
    BY <1>2, <2>1 DEF Membership
<1> HIDE DEF mine
<1>4. CASE op \in {"add"} \cup Manages
  <2>1. IF may THEN acts' = [acts EXCEPT ![u] = [@ EXCEPT !.rank = mine.role,
                                                   !.at = IF op = "add" THEN "ask" ELSE "target"]]
               ELSE End(u)
    BY <1>4 DEF CheckActor, mine
  <2>2. may => mine.role >= RoleAdmin
    BY <1>3, <1>4 DEF Need
  <2>3. QED
    BY <1>1, <1>2, <1>4, <2>1, <2>2 DEF mine
<1>5. CASE op = "leave"
  <2>1. End(u) \/ Proceed(u, "tasks", TasksOf("leave", u, u, c))
    BY <1>5 DEF CheckActor
  <2>2. QED
    BY <1>1, <1>2, <1>5, <2>1 DEF mine, TasksOf
<1>6. CASE op = "rename"
  <2>1. End(u) \/ (may /\ Proceed(u, "tasks", TasksOf("rename", u, u, c)))
    BY <1>6 DEF CheckActor, mine
  <2>2. may => mine # Absent /\ mine.role >= RoleAdmin
    BY <1>6 DEF Need
  <2>3. QED
    BY <1>1, <1>2, <1>6, <2>1, <2>2 DEF mine, TasksOf
<1>7. CASE op \in {"delete", "clear"}
  <2>1. \/ End(u) \/ Proceed(u, "list", <<>>)
        \/ (op = "clear" /\ IsDM(c) /\ Proceed(u, "tasks", TasksOf("clear", u, u, c)))
    BY <1>7 DEF CheckActor
  <2>2. QED
    BY <1>1, <1>2, <1>7, <2>1 DEF mine, TasksOf
<1>8. QED
  BY <1>2, <1>4, <1>5, <1>6, <1>7

LEMMA ActorShape ==
  ASSUME MemberShape, NEW u \in User, CheckActor(u)
  PROVE  MemberShape'
<1> DEFINE c == acts[u].c  op == acts[u].op  mine == uc[<<u, c>>]
<1>1. /\ UNCHANGED <<chan, uc, used, newest, sent, out, gone>>
      /\ acts[u] # None /\ acts[u].at = "actor" /\ c \in Channel
      /\ \/ End(u)
         \/ /\ op \in {"add"} \cup Manages /\ mine # Absent
            /\ acts' = [acts EXCEPT ![u] = [acts[u] EXCEPT !.rank = mine.role,
                                              !.at = IF op = "add" THEN "ask" ELSE "target"]]
         \/ op = "leave" /\ Proceed(u, "tasks", <<Task("remove", u, c, "left")>>)
         \/ op = "rename" /\ Proceed(u, "tasks", <<Task("chan", u, c, "group")>>)
         \/ op = "clear" /\ Proceed(u, "tasks", <<Task("clear", u, c, newest[c])>>)
         \/ op \in {"delete", "clear"} /\ Proceed(u, "list", <<>>)
  BY ActorFacts
<1>2. acts[u] \in ActRecord /\ acts[u].todo = <<>>
  BY <1>1, CallAt
<1>3. CASE End(u)
  BY <1>1, <1>3, EndShape
<1>4. CASE /\ op \in {"add"} \cup Manages /\ mine # Absent
           /\ acts' = [acts EXCEPT ![u] = [acts[u] EXCEPT !.rank = mine.role,
                                              !.at = IF op = "add" THEN "ask" ELSE "target"]]
  <2> DEFINE t == [acts[u] EXCEPT !.rank = mine.role, !.at = IF op = "add" THEN "ask" ELSE "target"]
  <2>1. mine.role \in Rank
    <3>1. <<u, c>> \in Key /\ uc \in [Key -> Membership \cup {Absent}]
      BY <1>1 DEF Key, MemberShape, RecordShape
    <3>2. QED
      BY <1>4, <3>1 DEF Membership, Rank
  <2>2. /\ t \in ActRecord /\ t.op = op /\ t.to = acts[u].to /\ t.c = c /\ t.held = acts[u].held
        /\ t.barred = acts[u].barred /\ t.todo = <<>> /\ t.at = IF op = "add" THEN "ask" ELSE "target"
    BY <1>2, <2>1 DEF ActRecord, Place
  <2> HIDE DEF t
  <2>3. PlaceOf(t.op, t.at) /\ t.at # "tasks"
    BY <1>4, <2>2 DEF PlaceOf
  <2>4. t.to # u
    BY <1>1, <1>4, <2>2, CallAt
  <2>5. acts' = [acts EXCEPT ![u] = t]
    BY <1>4 DEF t
  <2>6. TodoFits(u, t, used)
    BY <2>2, NoTask
  <2>7. QED
    BY <1>1, <2>2, <2>3, <2>4, <2>5, <2>6, GoesShape
<1>5. CASE op = "leave" /\ Proceed(u, "tasks", <<Task("remove", u, c, "left")>>)
  <2> DEFINE t == Task("remove", u, c, "left")
  <2>1. t \in AnyTask /\ t.do = "remove" /\ TaskFits(u, acts[u], used, t)
    BY <1>1, <1>5, TaskTypes DEF Task, TaskFits
  <2> HIDE DEF t
  <2>2. QED
    BY <1>1, <1>5, <2>1, TaskShape DEF t
<1>6. CASE op = "rename" /\ Proceed(u, "tasks", <<Task("chan", u, c, "group")>>)
  <2> DEFINE t == Task("chan", u, c, "group")
  <2>1. t \in AnyTask /\ t.do = "chan" /\ TaskFits(u, acts[u], used, t)
    BY <1>1, <1>6, TaskTypes DEF Task, TaskFits
  <2> HIDE DEF t
  <2>2. QED
    BY <1>1, <1>6, <2>1, TaskShape DEF t
<1>7. CASE op = "clear" /\ Proceed(u, "tasks", <<Task("clear", u, c, newest[c])>>)
  <2> DEFINE t == Task("clear", u, c, newest[c])
  <2>1. newest[c] \in 0 .. MaxMessages
    BY <1>1 DEF MemberShape, RecordShape
  <2>2. t \in AnyTask /\ t.do = "clear" /\ TaskFits(u, acts[u], used, t)
    BY <1>1, <1>7, <2>1, TaskTypes DEF Task, TaskFits
  <2> HIDE DEF t
  <2>3. QED
    BY <1>1, <1>7, <2>2, TaskShape DEF t
<1>8. CASE op \in {"delete", "clear"} /\ Proceed(u, "list", <<>>)
  <2> DEFINE t == [acts[u] EXCEPT !.at = "list", !.todo = <<>>]
  <2>1. t.todo = <<>>
    BY <1>2 DEF ActRecord
  <2> HIDE DEF t
  <2>2. TodoFits(u, t, used)
    BY <2>1, NoTask
  <2>3. <<>> \in Seq(AnyTask) /\ "list" \in Place /\ PlaceOf(op, "list")
    BY <1>8 DEF Place, PlaceOf
  <2>4. QED
    BY <1>1, <1>8, <2>2, <2>3, ProceedShape DEF t
<1>9. QED
  BY <1>1, <1>3, <1>4, <1>5, <1>6, <1>7, <1>8

LEMMA TargetShape ==
  ASSUME MemberShape, NEW u \in User, CheckTarget(u)
  PROVE  MemberShape'
<1> DEFINE c == acts[u].c  v == acts[u].to  op == acts[u].op
<1>1. /\ acts[u] # None /\ acts[u].at = "target" /\ (End(u) \/ Proceed(u, "tasks", TasksOf(op, u, v, c)))
      /\ UNCHANGED <<chan, uc, used, newest, sent, out, gone>>
  BY DEF CheckTarget, Checked, Before, records, memberHistory
<1>2. op \in Manages /\ c \in Channel /\ v \in User
  BY <1>1, CallAt DEF PlaceOf
<1>3. PICK t \in AnyTask : TasksOf(op, u, v, c) = <<t>> /\ TaskFits(u, acts[u], used, t) /\ t.do \in {"remove", "rank"}
  <2>1. CASE op = "kick"
    BY <1>2, <2>1, TaskTypes, Zenon DEF TasksOf, Task, TaskFits
  <2>2. CASE op = "promote"
    BY <1>2, <2>2, TaskTypes, Zenon DEF TasksOf, Task, TaskFits
  <2>3. CASE op = "demote"
    BY <1>2, <2>3, TaskTypes, Zenon DEF TasksOf, Task, TaskFits
  <2>4. CASE op = "crown"
    BY <1>2, <2>4, TaskTypes, Zenon DEF TasksOf, Task, TaskFits
  <2>5. QED
    BY <1>2, <2>1, <2>2, <2>3, <2>4
<1>4. CASE End(u)
  BY <1>1, <1>4, EndShape
<1>5. CASE Proceed(u, "tasks", <<t>>)
  BY <1>1, <1>2, <1>3, <1>5, TaskShape
<1>6. QED
  BY <1>1, <1>3, <1>4, <1>5

LEMMA ListMembersFacts ==
  ASSUME MemberShape, NEW u \in User, ListMembers(u)
  PROVE  /\ acts[u] # None /\ acts[u].at = "list" /\ Proceed(u, "tasks", Deletion(u, acts[u].c))
         /\ acts[u].op \in {"delete", "clear"} /\ acts[u].c \in Channel
         /\ UNCHANGED <<chan, uc, used, newest, sent, out, gone, raced, contested, mixed, doubled, forced>>
<1>1. acts[u] # None /\ acts[u].at = "list" /\ Proceed(u, "tasks", Deletion(u, acts[u].c))
  BY DEF ListMembers, Checked, Before
<1>2. acts[u].op \in {"delete", "clear"} /\ acts[u].c \in Channel
  BY <1>1, CallAt DEF PlaceOf
<1>3. QED
  BY <1>1, <1>2 DEF ListMembers, Checked, records, memberHistory

LEMMA ListMembersShape ==
  ASSUME MemberShape, NEW u \in User, ListMembers(u)
  PROVE  MemberShape'
<1> DEFINE c == acts[u].c  todo == Deletion(u, c)  t == [acts[u] EXCEPT !.at = "tasks", !.todo = todo]
<1>1. /\ acts[u] # None /\ acts[u].at = "list" /\ Proceed(u, "tasks", todo)
      /\ acts[u].op \in {"delete", "clear"} /\ c \in Channel
      /\ UNCHANGED <<chan, uc, used, newest, sent, out, gone>>
  BY ListMembersFacts
<1>2. acts[u] \in ActRecord
  BY <1>1, CallAt
<1> HIDE DEF todo
<1>3. t.op = acts[u].op /\ t.c = c /\ t.todo = todo
  BY <1>2 DEF ActRecord
<1> HIDE DEF t, c
<1>4. t.todo = Deletion(u, t.c) /\ t.op \in {"delete", "clear"} /\ t.c \in Channel
  BY <1>1, <1>3 DEF todo, c
<1>5. TodoFits(u, t, used) /\ t.todo \in Seq(AnyTask) /\ t.todo # <<>>
  BY <1>4, DeletionFits
<1>6. "tasks" \in Place /\ PlaceOf(acts[u].op, "tasks")
  BY DEF Place, PlaceOf
<1>7. QED
  BY <1>1, <1>3, <1>5, <1>6, ProceedShape DEF t

\* What ListGroups does with the call of u.
LEMMA GroupsFacts ==
  ASSUME MemberShape, NEW u \in User, ListGroups(u)
  PROVE  /\ acts[u] # None /\ acts[u].at = "groups" /\ acts[u].op = "quit"
         /\ UNCHANGED <<chan, uc, used, newest, sent, out, gone, raced, contested, mixed, doubled, forced>>
         /\ \/ End(u)
            \/ \E todo \in Seq(AnyTask) :
                 /\ Proceed(u, "tasks", todo) /\ todo # <<>>
                 /\ \A i \in DOMAIN todo : \E d \in Channel : chan[d] # Absent /\ todo[i] = Task("remove", u, d, "left")
<1> DEFINE S == {c \in Channel : chan[c] # Absent /\ Active(u, c) /\ ~Hidden(u, c) /\ ~IsDM(c)}
           all == SetToSeq(S)
           todo == [i \in DOMAIN all |-> Task("remove", u, all[i], "left")]
<1>1. /\ acts[u] # None /\ acts[u].at = "groups" /\ (End(u) \/ (all # <<>> /\ Proceed(u, "tasks", todo)))
      /\ UNCHANGED <<chan, uc, used, newest, sent, out, gone, raced, contested, mixed, doubled, forced>>
  BY DEF ListGroups, Checked, Before, records, memberHistory
<1>2. acts[u].op = "quit"
  BY <1>1, CallAt DEF PlaceOf
<1>3. S \subseteq used /\ S \subseteq Channel /\ IsFiniteSet(S)
  BY FS_Subset DEF MemberShape, RecordShape
<1>4. \A d \in S : d \in Channel /\ chan[d] # Absent
  OBVIOUS
<1> HIDE DEF S
<1>5. /\ todo \in Seq(AnyTask) /\ (all = <<>> <=> todo = <<>>)
      /\ \A i \in DOMAIN todo : \E d \in S : todo[i] = Task("remove", u, d, "left")
  BY <1>3, QuitsOf, Zenon
<1> HIDE DEF todo, all
<1>6. \A i \in DOMAIN todo : \E d \in Channel : chan[d] # Absent /\ todo[i] = Task("remove", u, d, "left")
  BY <1>4, <1>5
<1>7. QED
  BY <1>1, <1>2, <1>5, <1>6

LEMMA GroupsShape ==
  ASSUME MemberShape, NEW u \in User, ListGroups(u)
  PROVE  MemberShape'
<1>1. /\ acts[u] # None /\ acts[u].at = "groups" /\ acts[u].op = "quit"
      /\ UNCHANGED <<chan, uc, used, newest, sent, out, gone>>
  BY GroupsFacts
<1>2. CASE End(u)
  BY <1>1, <1>2, EndShape
<1>3. CASE ~End(u)
  <2>1. PICK todo \in Seq(AnyTask) :
          /\ Proceed(u, "tasks", todo) /\ todo # <<>>
          /\ \A i \in DOMAIN todo : \E d \in Channel : chan[d] # Absent /\ todo[i] = Task("remove", u, d, "left")
    BY <1>3, GroupsFacts
  <2> DEFINE t == [acts[u] EXCEPT !.at = "tasks", !.todo = todo]
  <2>2. acts[u] \in ActRecord
    BY <1>1, CallAt
  <2>3. t.op = "quit" /\ t.todo = todo
    BY <1>1, <2>2 DEF ActRecord
  <2> HIDE DEF t
  <2>4. ASSUME NEW i \in DOMAIN t.todo PROVE TaskFits(u, t, used, t.todo[i]) /\ OrderFits(u, t, i)
    <3>1. PICK d \in Channel : chan[d] # Absent /\ t.todo[i] = Task("remove", u, d, "left")
      BY <2>1, <2>3, <2>4
    <3>2. d \in used
      BY <3>1 DEF MemberShape, RecordShape
    <3>3. t.todo[i].do = "remove"
      BY <3>1 DEF Task
    <3>4. QED
      BY <2>3, <3>1, <3>2, <3>3 DEF TaskFits, OrderFits
  <2>5. TodoFits(u, t, used)
    BY <2>4 DEF TodoFits
  <2>6. "tasks" \in Place /\ PlaceOf(acts[u].op, "tasks")
    BY DEF Place, PlaceOf
  <2>7. QED
    BY <1>1, <2>1, <2>5, <2>6, ProceedShape DEF t
<1>4. QED
  BY <1>2, <1>3

\* The task a call is at.
LEMMA HeadFits ==
  ASSUME MemberShape, NEW u \in User, Working(u)
  PROVE  LET r == acts[u]  s == r.todo  t == Head(s) IN
           /\ r # None /\ r.at = "tasks" /\ s # <<>> /\ s \in Seq(AnyTask)
           /\ t = s[1] /\ 1 \in DOMAIN s /\ t \in AnyTask
           /\ TaskFits(u, r, used, t) /\ OrderFits(u, r, 1)
           /\ t.key \in Key /\ t.key = <<t.key[1], t.key[2]>> /\ t.key[1] \in User
           /\ t.key[2] \in used /\ t.key[2] \in Channel
           /\ IF r.op = "quit" THEN t.key[1] = u ELSE t.key[2] = r.c
<1> DEFINE r == acts[u]  s == r.todo  t == Head(s)
<1>1. r # None /\ r.at = "tasks" /\ s # <<>>
  BY DEF Working, Before
<1>2. /\ s \in Seq(AnyTask) /\ CallFits(u, r, used) /\ r.to \in User
      /\ r.op # "quit" => r.c \in used
  BY <1>1, CallAt
<1>3. t = s[1] /\ 1 \in DOMAIN s /\ t \in AnyTask
  BY <1>1, <1>2, TailsOf
<1>4. TaskFits(u, r, used, t) /\ OrderFits(u, r, 1)
  BY <1>2, <1>3 DEF CallFits, TodoFits
<1>5. t.key \in Key
  BY <1>3 DEF AnyTask
<1>6. t.key = <<t.key[1], t.key[2]>> /\ t.key[1] \in User /\ t.key[2] \in Channel
  BY <1>5 DEF Key
<1> HIDE DEF t, s, r
<1>7. IF r.op = "quit" THEN t.key[1] = u /\ t.key[2] \in used ELSE t.key[2] = r.c
  BY <1>4 DEF TaskFits, Task
<1>8. t.key[2] \in used
  BY <1>2, <1>7 DEF r
<1>9. QED
  BY <1>1, <1>2, <1>3, <1>4, <1>5, <1>6, <1>7, <1>8 DEF r, s, t

\* What a task that writes back makes of a record.
LEMMA ChangedFacts ==
  ASSUME NEW t \in AnyTask, t.do \in Rereads, NEW old \in Membership \cup {Absent}
  PROVE  LET new == Changed(t, old) IN
           /\ new \in Membership \cup {Absent}
           /\ new = Absent <=> old = Absent /\ t.do \notin {"admit", "receipt"}
           /\ t.do = "admit" => new.status = "active" /\ new.role = t.val
           /\ t.do = "remove" /\ old # Absent => new.status = t.val /\ t.val # "active" /\ new.role = old.role
           /\ t.do = "receipt" => IF old = Absent THEN new = Joined(t.val) ELSE new = old
           /\ t.do = "clear" /\ old # Absent => new.status = old.status /\ new.role = old.role
           /\ t.do = "rank" /\ old # Absent => new.status = old.status /\ new.role = t.val
<1> DEFINE new == Changed(t, old)
<1>1. old # Absent => old \in Membership
  OBVIOUS
<1>2. CASE t.do = "admit"
  <2>1. t.val \in Rank
    BY <1>2 DEF AnyTask
  <2>2. Joined(t.val) \in Membership /\ Joined(t.val).status = "active" /\ Joined(t.val).role = t.val
    BY <2>1 DEF Joined, Membership, Rank
  <2>3. old # Absent => /\ [old EXCEPT !.status = "active", !.role = t.val] \in Membership
                        /\ [old EXCEPT !.status = "active", !.role = t.val].status = "active"
                        /\ [old EXCEPT !.status = "active", !.role = t.val].role = t.val
    BY <1>1, <2>1 DEF Membership, Rank
  <2>4. new = IF old = Absent THEN Joined(t.val) ELSE [old EXCEPT !.status = "active", !.role = t.val]
    BY <1>2 DEF Changed
  <2> HIDE DEF new
  <2>5. QED
    BY <1>2, <2>2, <2>3, <2>4 DEF new
<1>3. CASE t.do = "receipt"
  <2>1. t.val \in Rank /\ Joined(t.val) \in Membership
    BY <1>3 DEF AnyTask, Joined, Membership, Rank
  <2>2. new = IF old = Absent THEN Joined(t.val) ELSE old
    BY <1>3 DEF Changed
  <2>3. QED
    BY <1>3, <2>1, <2>2
<1>4. CASE old = Absent /\ t.do \notin {"admit", "receipt"}
  <2>1. new = Absent
    BY <1>4 DEF Changed
  <2>2. QED
    BY <1>4, <2>1
<1>5. CASE old # Absent /\ t.do = "remove"
  <2>1. t.val \in {"left", "kicked"} /\ new = [old EXCEPT !.status = t.val]
    BY <1>5 DEF Changed, AnyTask
  <2>2. new \in Membership /\ new.status = t.val /\ t.val # "active" /\ new.role = old.role
    BY <1>1, <1>5, <2>1 DEF Membership
  <2>3. QED
    BY <1>5, <2>2
<1>6. CASE old # Absent /\ t.do = "rank"
  <2>1. t.val \in Rank /\ new = [old EXCEPT !.role = t.val]
    BY <1>6 DEF Changed, AnyTask
  <2>2. new \in Membership /\ new.status = old.status /\ new.role = t.val
    BY <1>1, <1>6, <2>1 DEF Membership, Rank
  <2>3. QED
    BY <1>6, <2>2
<1>7. CASE old # Absent /\ t.do = "clear"
  <2>1. t.val \in 0 .. MaxMessages /\ new = [old EXCEPT !.cleared = t.val]
    BY <1>7 DEF Changed, AnyTask
  <2>2. new \in Membership /\ new.status = old.status /\ new.role = old.role
    BY <1>1, <1>7, <2>1 DEF Membership
  <2>3. QED
    BY <1>7, <2>2
<1>8. QED
  BY <1>2, <1>3, <1>4, <1>5, <1>6, <1>7 DEF Rereads

LEMMA RereadShape ==
  ASSUME MemberShape, NEW u \in User, Reread(u)
  PROVE  MemberShape'
<1> DEFINE r == acts[u]  h == uc[Head(r.todo).key]  t == [r EXCEPT !.held = h]
<1>1. /\ Working(u) /\ Head(r.todo).do \in Rereads /\ UNCHANGED <<chan, uc, used, newest, sent, out, gone>>
      /\ acts' = [acts EXCEPT ![u].held = h]
  BY DEF Reread, records, memberHistory
<1>2. r # None /\ r.todo # <<>> /\ Head(r.todo).key \in Key
  BY <1>1, HeadFits
<1>3. ActsShape /\ RecordShape /\ CallFits(u, r, used) /\ r \in ActRecord
  BY <1>2, CallAt DEF MemberShape
<1>4. h \in Membership \cup {Absent}
  BY <1>2, <1>3 DEF RecordShape
<1> HIDE DEF h
<1>5. /\ t \in ActRecord /\ t.op = r.op /\ t.to = r.to /\ t.c = r.c /\ t.at = r.at /\ t.todo = r.todo
      /\ t.barred = r.barred
  BY <1>3, <1>4 DEF ActRecord
<1>6. acts' = [acts EXCEPT ![u] = t]
  BY <1>1
<1> HIDE DEF t, r
<1>7. PlaceFits(u, t, used)
  BY <1>1, <1>2, <1>3, <1>5 DEF CallFits, PlaceFits
<1>8. TodoFits(u, t, used)
  BY <1>3, <1>5 DEF CallFits, TodoFits, TaskFits, OrderFits
<1>9. ActsShape'
  BY <1>1, <1>3, <1>5, <1>6, <1>7, <1>8, ActsStep DEF CallFits
<1>10. QED
  BY <1>1, <1>3, <1>9, SameRecords DEF MemberShape

\* What a write back changes.
LEMMA WriteBackFacts ==
  ASSUME MemberShape, NEW u \in User, WriteBack(u)
  PROVE  LET t == Head(acts[u].todo)  key == t.key  old == acts[u].held  new == Changed(t, old) IN
           /\ Working(u) /\ t \in AnyTask /\ t.do \in Rereads /\ key \in Key
           /\ old \in Membership \cup {Absent} /\ new \in Membership \cup {Absent}
           /\ IF new = Absent THEN UNCHANGED <<uc, raced, out, forced>>
                              ELSE uc' = [uc EXCEPT ![key] = new]
           /\ mixed \subseteq mixed'
           /\ (new # Absent /\ chan[key[2]] # "group" /\ ComesIn(t, old, acts[u].op)) => key[2] \in mixed'
           /\ Rest(u, new = Absent)
           /\ UNCHANGED <<chan, used, newest, sent, gone, contested, doubled>>
<1> DEFINE t == Head(acts[u].todo)  key == t.key  old == acts[u].held  new == Changed(t, old)
<1>1. /\ Working(u) /\ t.do \in Rereads /\ old # None
      /\ IF new = Absent THEN UNCHANGED <<uc, raced, out, forced>> ELSE uc' = [uc EXCEPT ![key] = new]
      /\ mixed \subseteq mixed'
      /\ (new # Absent /\ chan[key[2]] # "group" /\ ComesIn(t, old, acts[u].op)) => key[2] \in mixed'
      /\ Rest(u, new = Absent)
      /\ UNCHANGED <<chan, used, newest, sent, gone, contested, doubled>>
  BY DEF WriteBack
<1>2. t \in AnyTask /\ key \in Key /\ acts[u] # None
  BY <1>1, HeadFits
<1>3. old \in Membership \cup {Absent}
  BY <1>1, <1>2, CallAt
<1> HIDE DEF t, old
<1>4. new \in Membership \cup {Absent}
  BY <1>1, <1>2, <1>3, ChangedFacts
<1>5. QED
  BY <1>1, <1>2, <1>3, <1>4 DEF t, old

LEMMA WriteBackShape ==
  ASSUME MemberShape, NEW u \in User, WriteBack(u)
  PROVE  MemberShape'
<1> DEFINE t == Head(acts[u].todo)  key == t.key  old == acts[u].held  new == Changed(t, old)
<1>1. /\ Working(u) /\ key \in Key /\ new \in Membership \cup {Absent}
      /\ IF new = Absent THEN UNCHANGED <<uc, raced, out, forced>> ELSE uc' = [uc EXCEPT ![key] = new]
      /\ Rest(u, new = Absent)
      /\ UNCHANGED <<chan, used, newest, sent, gone, contested, doubled>>
  BY WriteBackFacts
<1>2. ActsShape'
  BY <1>1, RestFits
<1>3. key[2] \in used
  BY <1>1, HeadFits
<1>4. out' \subseteq Key
  <2>1. new # Absent => out' \in {out \cup {key}, out \ {key}, out}
    BY DEF WriteBack
  <2>2. QED
    BY <1>1, <2>1 DEF MemberShape, RecordShape
<1> HIDE DEF new, key
<1>5. RecordShape'
  BY <1>1, <1>3, <1>4 DEF MemberShape, RecordShape
<1>6. QED
  BY <1>2, <1>5 DEF MemberShape

LEMMA WriteMemberFacts ==
  ASSUME MemberShape, NEW u \in User, WriteMember(u)
  PROVE  LET t == Head(acts[u].todo)  key == t.key IN
           /\ Working(u) /\ t \in AnyTask /\ key \in Key
           /\ \/ t.do = "put" /\ t.val \in Rank /\ Joined(t.val) \in Membership /\ uc' = [uc EXCEPT ![key] = Joined(t.val)]
              \/ t.do = "drop" /\ uc' = [uc EXCEPT ![key] = Absent]
           /\ Rest(u, FALSE) /\ out' = out \ {key} /\ raced' = raced \ {key}
           /\ UNCHANGED <<chan, used, newest, sent, gone, contested, mixed, doubled>>
<1> DEFINE t == Head(acts[u].todo)  key == t.key
<1>1. /\ Working(u) /\ t.do \in {"put", "drop"} /\ Rest(u, FALSE) /\ out' = out \ {key} /\ raced' = raced \ {key}
      /\ uc' = [uc EXCEPT ![key] = IF t.do = "put" THEN Joined(t.val) ELSE Absent]
      /\ UNCHANGED <<chan, used, newest, sent, gone, contested, mixed, doubled>>
  BY DEF WriteMember
<1>2. t \in AnyTask /\ key \in Key
  BY <1>1, HeadFits
<1>3. t.do = "put" => t.val \in Rank /\ Joined(t.val) \in Membership
  BY <1>2 DEF AnyTask, Joined, Membership, Rank
<1>4. QED
  BY <1>1, <1>2, <1>3

LEMMA WriteMemberShape ==
  ASSUME MemberShape, NEW u \in User, WriteMember(u)
  PROVE  MemberShape'
<1> DEFINE t == Head(acts[u].todo)  key == t.key
<1>1. /\ Working(u) /\ key \in Key
      /\ \/ Joined(t.val) \in Membership /\ uc' = [uc EXCEPT ![key] = Joined(t.val)]
         \/ uc' = [uc EXCEPT ![key] = Absent]
      /\ Rest(u, FALSE) /\ out' = out \ {key}
      /\ UNCHANGED <<chan, used, newest, sent, gone>>
  BY WriteMemberFacts
<1>2. ActsShape'
  BY <1>1, RestFits
<1>3. key[2] \in used
  BY <1>1, HeadFits
<1> HIDE DEF key, t
<1>4. RecordShape'
  BY <1>1, <1>3 DEF MemberShape, RecordShape
<1>5. QED
  BY <1>2, <1>4 DEF MemberShape

LEMMA WriteChannelFacts ==
  ASSUME MemberShape, NEW u \in User, WriteChannel(u)
  PROVE  LET t == Head(acts[u].todo)  c == acts[u].c  op == acts[u].op IN
           /\ Working(u) /\ t.do = "chan" /\ t.val \in {"dm", "group", Absent} /\ c \in used /\ c \in Channel
           /\ t = Task("chan", u, c, t.val)
           /\ \/ op = "rename" /\ t.val = "group"
              \/ op \in Creates /\ t.val = KindOf(op)
              \/ op \in {"clear", "delete"} /\ t.val = Absent
           /\ chan' = [chan EXCEPT ![c] = t.val]
           /\ gone' = IF t.val = Absent THEN gone \cup {c} ELSE gone
           /\ Rest(u, FALSE)
           /\ UNCHANGED <<uc, used, newest, sent, out, raced, contested, mixed, doubled, forced>>
<1> DEFINE t == Head(acts[u].todo)  c == acts[u].c  op == acts[u].op
<1>1. /\ Working(u) /\ t.do = "chan" /\ Rest(u, FALSE)
      /\ chan' = [chan EXCEPT ![c] = t.val] /\ gone' = IF t.val = Absent THEN gone \cup {c} ELSE gone
      /\ UNCHANGED <<uc, used, newest, sent, out, raced, contested, mixed, doubled, forced>>
  BY DEF WriteChannel
<1>2. TaskFits(u, acts[u], used, t) /\ t \in AnyTask /\ acts[u] # None
  BY <1>1, HeadFits
<1> HIDE DEF t
<1>3. /\ t = Task("chan", u, c, t.val)
      /\ \/ op = "rename" /\ t.val = "group"
         \/ op \in Creates /\ t.val = KindOf(op)
         \/ op \in {"clear", "delete"} /\ t.val = Absent
  BY <1>1, <1>2 DEF TaskFits, Task
<1>4. c \in used /\ c \in Channel /\ t.val \in {"dm", "group", Absent}
  BY <1>2, <1>3, CallAt DEF KindOf
<1>5. QED
  BY <1>1, <1>3, <1>4 DEF t

LEMMA WriteChannelShape ==
  ASSUME MemberShape, NEW u \in User, WriteChannel(u)
  PROVE  MemberShape'
<1> DEFINE t == Head(acts[u].todo)  c == acts[u].c
<1>1. /\ Working(u) /\ t.val \in {"dm", "group", Absent} /\ c \in used /\ Rest(u, FALSE)
      /\ chan' = [chan EXCEPT ![c] = t.val] /\ gone' \in {gone, gone \cup {c}}
      /\ UNCHANGED <<uc, used, newest, sent, out>>
  BY WriteChannelFacts
<1>2. ActsShape'
  BY <1>1, RestFits
<1> HIDE DEF c, t
<1>3. RecordShape'
  BY <1>1 DEF MemberShape, RecordShape
<1>4. QED
  BY <1>2, <1>3 DEF MemberShape

LEMMA MessageShape ==
  ASSUME MemberShape, NEW c \in Channel, Message(c)
  PROVE  MemberShape' /\ UNCHANGED <<chan, uc, used, acts, out, raced, gone, contested, mixed, doubled, forced>>
<1>1. /\ UNCHANGED <<chan, uc, used, acts, out, raced, gone, contested, mixed, doubled, forced>>
      /\ sent < MaxMessages /\ sent' = sent + 1 /\ newest' = [newest EXCEPT ![c] = @ + 1]
  BY DEF Message, memberHistory
<1>2. RecordShape /\ ActsShape
  BY DEF MemberShape
<1>3. /\ newest \in [Channel -> 0 .. MaxMessages] /\ sent \in 0 .. MaxMessages
      /\ \A d \in Channel : newest[d] <= sent
  BY <1>2 DEF RecordShape
<1>4. /\ newest' \in [Channel -> 0 .. MaxMessages] /\ sent' \in 0 .. MaxMessages
      /\ \A d \in Channel : newest'[d] <= sent'
  <2>1. newest[c] \in 0 .. MaxMessages /\ newest[c] <= sent /\ MaxMessages \in Nat
    BY <1>3
  <2>2. newest[c] + 1 \in 0 .. MaxMessages /\ sent + 1 \in 0 .. MaxMessages /\ newest[c] + 1 <= sent + 1
    BY <1>1, <1>3, <2>1
  <2>3. newest' \in [Channel -> 0 .. MaxMessages]
    BY <1>1, <1>3, <2>2
  <2>4. \A d \in Channel : newest'[d] = IF d = c THEN newest[c] + 1 ELSE newest[d]
    BY <1>1, <1>3
  <2>5. \A d \in Channel : newest'[d] <= sent'
    <3> TAKE d \in Channel
    <3>1. CASE d = c
      BY <1>1, <2>2, <2>4, <3>1
    <3>2. CASE d # c
      <4>1. newest[d] \in 0 .. MaxMessages /\ newest[d] <= sent /\ newest'[d] = newest[d]
        BY <1>3, <2>4, <3>2
      <4>2. QED
        BY <1>1, <1>3, <4>1
    <3>3. QED
      BY <3>1, <3>2
  <2>6. QED
    BY <1>1, <2>2, <2>3, <2>5
<1>5. RecordShape'
  BY <1>1, <1>2, <1>4 DEF RecordShape
<1>6. ActsShape'
  BY <1>1, <1>2 DEF ActsShape
<1>7. QED
  BY <1>1, <1>5, <1>6 DEF MemberShape

LEMMA BreakShape ==
  ASSUME MemberShape, BreakActs
  PROVE  MemberShape'
<1>1. RecordShape' /\ acts' = [u \in User |-> None]
  BY SameRecords DEF BreakActs, records, memberHistory, MemberShape
<1>2. ActsShape'
  BY <1>1 DEF ActsShape
<1>3. QED
  BY <1>1, <1>2 DEF MemberShape

LEMMA InitShape == MembershipInit => MemberShape
<1> SUFFICES ASSUME MembershipInit PROVE MemberShape
  OBVIOUS
<1>1. ActsShape
  BY DEF MembershipInit, ActsShape
<1>2. /\ newest \in [Channel -> 0 .. MaxMessages] /\ sent = 0 /\ 0 \in 0 .. MaxMessages /\ out = {} /\ gone = {}
      /\ \A c \in Channel : newest[c] <= sent
  BY DEF MembershipInit
<1>3. Joined(RoleMember) \in Membership /\ \A u \in User : Joined(Ranks[u]) \in Membership
  BY DEF Joined, Membership
<1>4. /\ chan \in [Channel -> {"dm", "group", Absent}] /\ uc \in [Key -> Membership \cup {Absent}]
      /\ used \subseteq Channel /\ IsFiniteSet(used)
      /\ \A c \in Channel : chan[c] # Absent => c \in used
      /\ \A k \in Key : uc[k] # Absent => k[2] \in used
  <2>1. CASE chan = [c \in Channel |-> Absent] /\ uc = [k \in Key |-> Absent] /\ used = {}
    BY <2>1, FS_EmptySet
  <2>2. CASE \E c \in Channel :
          /\ used = {c}
          /\ \/ /\ chan = [d \in Channel |-> IF d = c THEN "group" ELSE Absent]
                /\ uc = [k \in Key |-> IF k[2] = c THEN Joined(Ranks[k[1]]) ELSE Absent]
             \/ \E present \in {Acquainted, User} :
                  /\ chan = [d \in Channel |-> IF d = c THEN "dm" ELSE Absent]
                  /\ uc = [k \in Key |-> IF k[2] = c /\ k[1] \in present
                                         THEN Joined(RoleMember) ELSE Absent]
    <3>1. \A k \in Key : k[1] \in User
      BY DEF Key
    <3>2. PICK c \in Channel :
            /\ used = {c}
            /\ \/ /\ chan = [d \in Channel |-> IF d = c THEN "group" ELSE Absent]
                  /\ uc = [k \in Key |-> IF k[2] = c THEN Joined(Ranks[k[1]]) ELSE Absent]
               \/ \E present \in {Acquainted, User} :
                    /\ chan = [d \in Channel |-> IF d = c THEN "dm" ELSE Absent]
                    /\ uc = [k \in Key |-> IF k[2] = c /\ k[1] \in present
                                           THEN Joined(RoleMember) ELSE Absent]
      BY <2>2
    <3>3. IsFiniteSet(used) /\ used \subseteq Channel
      BY <3>2, FS_Singleton
    <3>4. chan \in [Channel -> {"dm", "group", Absent}] /\ \A d \in Channel : chan[d] # Absent => d = c
      BY <3>2
    <3>5. uc \in [Key -> Membership \cup {Absent}] /\ \A k \in Key : uc[k] # Absent => k[2] = c
      BY <1>3, <3>1, <3>2
    <3>6. QED
      BY <3>2, <3>3, <3>4, <3>5
  <2>3. QED
    BY <2>1, <2>2 DEF MembershipInit
<1>5. RecordShape
  BY <1>2, <1>4 DEF RecordShape
<1>6. QED
  BY <1>1, <1>5 DEF MemberShape

\* What a step that writes no record leaves alone.
LEMMA CalmSteps ==
  ASSUME NEW u \in User,
         \/ \E v \in User, op \in Op, c \in Channel : Begin(u, op, v, c) \/ BeginCreation(u, v, op, c)
         \/ BeginQuit(u) \/ Look(u) \/ AskLeave(u) \/ FindLink(u) \/ CheckOutside(u) \/ RequireMember(u)
         \/ CheckActor(u) \/ CheckTarget(u) \/ ListMembers(u) \/ ListGroups(u) \/ Reread(u)
  PROVE  UNCHANGED <<chan, uc, newest, sent, out, raced, gone, forced>>
<1>1. CASE \E v \in User, op \in Op, c \in Channel : Begin(u, op, v, c) \/ BeginCreation(u, v, op, c)
  BY <1>1 DEF Begin, BeginCreation, records
<1>2. CASE BeginQuit(u) \/ Reread(u)
  BY <1>2 DEF BeginQuit, Reread, records, memberHistory
<1>3. CASE Look(u) \/ CheckActor(u)
  BY <1>3 DEF Look, CheckActor, records
<1>4. CASE AskLeave(u)
  BY <1>4 DEF AskLeave, records, memberHistory
<1>5. CASE FindLink(u) \/ CheckOutside(u) \/ RequireMember(u) \/ CheckTarget(u) \/ ListMembers(u) \/ ListGroups(u)
  <2>1. UNCHANGED <<chan, uc, used, newest>> /\ UNCHANGED memberHistory
    BY <1>5 DEF records, FindLink, CheckOutside, RequireMember, CheckTarget, ListMembers, ListGroups, Checked
  <2>2. UNCHANGED <<sent, out, raced, gone, forced>>
    BY <1>5, <2>1 DEF memberHistory, FindLink, CheckOutside, RequireMember, CheckTarget, ListMembers, ListGroups, Checked
  <2>3. QED
    BY <2>1, <2>2
<1>6. QED
  BY <1>1, <1>2, <1>3, <1>4, <1>5

LEMMA ShapeStep ==
  ASSUME MemberShape, BarInv, barred \subseteq Pair,
         MembershipCall \/ MembershipWork \/ BreakActs \/ UNCHANGED memberVars
  PROVE  MemberShape'
<1>1. CASE MembershipCall
  BY <1>1, BeginShape, CreationShape, QuitShape DEF MembershipCall
<1>2. CASE MembershipWork
  <2>1. CASE \E c \in Channel : Message(c)
    BY <2>1, MessageShape
  <2>2. CASE \E u \in User : Look(u) \/ AskLeave(u) \/ FindLink(u) \/ CheckOutside(u) \/ RequireMember(u)
    BY <2>2, LookShape, AskShape, EarlyShape
  <2>3. CASE \E u \in User : CheckActor(u) \/ CheckTarget(u) \/ ListMembers(u) \/ ListGroups(u)
    BY <2>3, ActorShape, TargetShape, ListMembersShape, GroupsShape
  <2>4. CASE \E u \in User : Reread(u) \/ WriteBack(u) \/ WriteMember(u) \/ WriteChannel(u)
    BY <2>4, RereadShape, WriteBackShape, WriteMemberShape, WriteChannelShape
  <2>5. QED
    BY <1>2, <2>1, <2>2, <2>3, <2>4 DEF MembershipWork
<1>3. CASE BreakActs
  BY <1>3, BreakShape
<1>4. CASE UNCHANGED memberVars
  <2>1. UNCHANGED <<chan, uc, used, newest, sent, out, gone, acts>>
    BY <1>4 DEF memberVars, records, memberHistory
  <2>2. RecordShape'
    BY <2>1, SameRecords DEF MemberShape
  <2>3. ActsShape'
    BY <2>1 DEF MemberShape, ActsShape
  <2>4. QED
    BY <2>2, <2>3 DEF MemberShape
<1>5. QED
  BY <1>1, <1>2, <1>3, <1>4

-----------------------------------------------------------------------------
(* Removals and blocks *)

\* Who is out has a record still.
RemovedInv == \A k \in out : uc[k] # Absent /\ (Active(k[1], k[2]) => k \in raced)

LEMMA RemovedStep ==
  ASSUME MemberShape, RemovedInv, MembershipCall \/ MembershipWork \/ BreakActs \/ UNCHANGED memberVars
  PROVE  RemovedInv'
<1> DEFINE live(k) == uc[k].status = "active"
<1>1. \A k \in out : k \in Key /\ k = <<k[1], k[2]>>
  BY DEF MemberShape, RecordShape, Key
<1>2. \A k \in out : uc[k] # Absent /\ (live(k) => k \in raced)
  BY <1>1 DEF RemovedInv, Active
<1>3. SUFFICES \A k \in out' : uc'[k] # Absent /\ (uc'[k].status = "active" => k \in raced')
  <2>1. ASSUME \A k \in out' : uc'[k] # Absent /\ (uc'[k].status = "active" => k \in raced')
        PROVE  RemovedInv'
    <3>1. out' \subseteq Key \/ \A k \in out' : Active(k[1], k[2])' => uc'[<<k[1], k[2]>>].status = "active"
      BY DEF Active
    <3>2. \A k \in Key : k = <<k[1], k[2]>>
      BY DEF Key
    <3>3. out' \subseteq Key
      <4>1. CASE \E u \in User : WriteBack(u)
        BY <4>1, WriteBackShape DEF MemberShape, RecordShape
      <4>2. CASE \E u \in User : WriteMember(u)
        BY <4>2, WriteMemberShape DEF MemberShape, RecordShape
      <4>3. CASE UNCHANGED out
        BY <4>3 DEF MemberShape, RecordShape
      <4>4. QED
        BY <4>1, <4>2, <4>3, CalmSteps
        DEF MembershipCall, MembershipWork, WriteChannel, Message, BreakActs, memberVars, memberHistory
    <3>4. QED
      BY <2>1, <3>2, <3>3 DEF RemovedInv, Active
  <2>2. QED
    BY <2>1
<1>4. CASE UNCHANGED <<uc, out, raced>>
  BY <1>2, <1>4
<1>5. ASSUME NEW u \in User, WriteBack(u)
      PROVE  \A k \in out' : uc'[k] # Absent /\ (uc'[k].status = "active" => k \in raced')
  <2> DEFINE t == Head(acts[u].todo)  key == t.key  old == acts[u].held  new == Changed(t, old)
  <2>1. /\ t \in AnyTask /\ t.do \in Rereads /\ key \in Key /\ old \in Membership \cup {Absent}
        /\ IF new = Absent THEN UNCHANGED <<uc, raced, out>> ELSE uc' = [uc EXCEPT ![key] = new]
    BY <1>5, WriteBackFacts
  <2>2. CASE new = Absent
    BY <1>4, <2>1, <2>2
  <2>3. CASE new # Absent
    <3>1. /\ uc' = [uc EXCEPT ![key] = new]
          /\ raced' = CASE old # uc[key] -> raced \cup {key}
                        [] old = uc[key] /\ t.do \in {"remove", "admit"} -> raced \ {key}
                        [] OTHER -> raced
          /\ out' = CASE t.do = "remove" -> out \cup {key}
                      [] t.do = "admit"  -> out \ {key}
                      [] OTHER           -> out
      BY <1>5, <2>3 DEF WriteBack
    <3>2. /\ new = Absent <=> old = Absent /\ t.do \notin {"admit", "receipt"}
          /\ t.do = "remove" /\ old # Absent => new.status # "active"
          /\ t.do = "receipt" => old = Absent \/ new = old
          /\ t.do = "clear" /\ old # Absent => new.status = old.status
          /\ t.do = "rank" /\ old # Absent => new.status = old.status
      <4> HIDE DEF t, old
      <4>1. QED
        BY <2>1, ChangedFacts
    <3> HIDE DEF t, old, new, key
    <3>3. \A k \in out' : k # key => k \in out /\ uc'[k] = uc[k] /\ (k \in raced => k \in raced')
      BY <1>1, <2>1, <3>1
    <3>4. uc'[key] = new
      BY <2>1, <3>1 DEF MemberShape, RecordShape
    <3>5. ASSUME key \in out', new.status = "active" PROVE key \in raced'
      <4>1. t.do \notin {"remove", "admit"} /\ key \in out
        BY <2>3, <3>1, <3>2, <3>5
      <4>2. CASE old # uc[key]
        BY <3>1, <4>2
      <4>3. CASE old = uc[key]
        <5>1. new.status = old.status /\ raced' = raced
          BY <1>2, <2>1, <3>1, <3>2, <4>1, <4>3 DEF Rereads
        <5>2. QED
          BY <1>2, <3>5, <4>1, <4>3, <5>1
      <4>4. QED
        BY <4>2, <4>3
    <3>6. QED
      BY <1>2, <2>3, <3>3, <3>4, <3>5
  <2>4. QED
    BY <2>2, <2>3
<1>6. ASSUME NEW u \in User, WriteMember(u)
      PROVE  \A k \in out' : uc'[k] # Absent /\ (uc'[k].status = "active" => k \in raced')
  <2> DEFINE key == Head(acts[u].todo).key
  <2>1. /\ out' = out \ {key} /\ raced' = raced \ {key} /\ \E x : uc' = [uc EXCEPT ![key] = x]
    BY <1>6, WriteMemberFacts
  <2> HIDE DEF key
  <2>2. \A k \in out' : k \in out /\ k # key /\ uc'[k] = uc[k] /\ (k \in raced => k \in raced')
    BY <1>1, <2>1 DEF MemberShape, RecordShape
  <2>3. QED
    BY <1>2, <2>2
<1>7. QED
  BY <1>4, <1>5, <1>6, CalmSteps
  DEF MembershipCall, MembershipWork, WriteChannel, Message, BreakActs, memberVars, records, memberHistory

\* What a call brings in the user it is about is not barred any more.
LEMMA BlockStep ==
  ASSUME MemberShape, forced = {}, MembershipCall \/ MembershipWork \/ BreakActs \/ UNCHANGED memberVars
  PROVE  forced' = {}
<1>1. ASSUME NEW u \in User, WriteBack(u) \/ WriteMember(u) PROVE forced' = forced
  <2> DEFINE t == Head(acts[u].todo)  s == acts[u].todo
  <2>1. Working(u)
    BY <1>1 DEF WriteBack, WriteMember
  <2>2. OrderFits(u, acts[u], 1) /\ t = s[1]
    BY <2>1, HeadFits
  <2>3. ~(t.do \in {"admit", "put"} /\ Forces(u, t.key[1]))
    BY <2>2 DEF OrderFits, Forces
  <2>4. CASE WriteBack(u)
    BY <2>3, <2>4 DEF WriteBack
  <2>5. CASE WriteMember(u)
    BY <2>3, <2>5 DEF WriteMember
  <2>6. QED
    BY <1>1, <2>4, <2>5
<1>2. QED
  BY <1>1, CalmSteps
  DEF MembershipCall, MembershipWork, WriteChannel, Message, BreakActs, memberVars, memberHistory

-----------------------------------------------------------------------------
(* Steps, by what they do to the call *)

\* What a step that writes no record makes of the call of u.
MovesOn(u, r) ==
  LET q == acts[u]  c == q.c IN
    /\ r.op = q.op /\ r.to = q.to /\ r.c = c
    /\ \/ /\ r.at = q.at /\ r.todo = q.todo /\ q.at = "tasks" /\ q.todo # <<>>
          /\ Head(q.todo).do \in Rereads /\ r.held = uc[Head(q.todo).key]
       \/ /\ q.at # "tasks" /\ r.held = None
          /\ \/ /\ q.op = "dm" /\ q.at = "look" /\ r.at = "ask"
                /\ \A d \in Channel : IsDM(d) /\ Members(d) = {u, q.to} => {u, q.to} \in doubled'
             \/ q.op \in {"dm", "group"} /\ q.at = "ask" /\ r.at = "tasks" /\ r.todo # <<>> /\ Head(r.todo).do = "chan"
             \/ q.op = "clear" /\ r.at = "tasks" /\ r.todo = <<Task("clear", u, c, newest[c])>> /\ IsDM(c)
             \/ /\ q.op \in {"delete", "clear"} /\ q.at = "actor" /\ r.at = "list"
                /\ Busy(c) = {u} \/ c \in contested'
             \/ q.op \in {"delete", "clear"} /\ q.at = "list" /\ r.at = "tasks" /\ r.todo = Deletion(u, c)
             \/ q.op # "quit" /\ q.at = "member" /\ r.at = "actor"
             \/ q.op = "leave" /\ q.at = "actor"
             \/ /\ q.op = "quit" /\ r.at = "tasks"
                /\ \A i \in DOMAIN r.todo : \E d \in Channel : chan[d] # Absent /\ r.todo[i] = Task("remove", u, d, "left")
             \/ q.op = "join"
             \/ q.op \in {"add"} \cup Manages /\ q.at \in {"ask", "target"}
             \/ /\ q.op \in {"add", "rename"} \cup Manages /\ q.at = "actor"
                /\ uc[<<u, c>>] # Absent /\ uc[<<u, c>>].role # RoleMember

\* A step that writes no record: the call of u is over or goes on.
Calm(u) ==
  /\ UNCHANGED <<chan, uc, used, gone>> /\ acts[u] # None
  /\ UNCHANGED mixed /\ contested \subseteq contested' /\ doubled \subseteq doubled'
  /\ \/ acts[u].at # "tasks" /\ acts' = [acts EXCEPT ![u] = None]
     \/ \E r \in ActRecord : acts' = [acts EXCEPT ![u] = r] /\ MovesOn(u, r)

LEMMA ProceedFacts ==
  ASSUME MemberShape, NEW u \in User, acts[u] # None, acts[u].at # "tasks",
         NEW next \in Place, NEW todo \in Seq(AnyTask), Proceed(u, next, todo)
  PROVE  \E r \in ActRecord : /\ acts' = [acts EXCEPT ![u] = r] /\ r.op = acts[u].op /\ r.to = acts[u].to
                              /\ r.c = acts[u].c /\ r.at = next /\ r.todo = todo /\ r.held = None
<1> DEFINE r == [acts[u] EXCEPT !.at = next, !.todo = todo]
<1>1. acts[u] \in ActRecord /\ acts[u].held = None /\ acts \in [User -> ActRecord \cup {None}]
  BY CallAt DEF MemberShape, ActsShape
<1>2. /\ r \in ActRecord /\ r.op = acts[u].op /\ r.to = acts[u].to
      /\ r.c = acts[u].c /\ r.at = next /\ r.todo = todo /\ r.held = None
  BY <1>1 DEF ActRecord
<1>3. acts' = [acts EXCEPT ![u] = r]
  BY <1>1 DEF Proceed
<1> HIDE DEF r
<1>4. QED
  BY <1>2, <1>3

LEMMA CalmMoves ==
  ASSUME MemberShape, BarInv, NEW u \in User,
         \/ Look(u) \/ AskLeave(u) \/ FindLink(u) \/ CheckOutside(u) \/ RequireMember(u)
         \/ CheckActor(u) \/ CheckTarget(u) \/ ListMembers(u) \/ ListGroups(u) \/ Reread(u)
  PROVE  Calm(u)
<1> DEFINE q == acts[u]  c == q.c
<1>1. CASE Look(u)
  <2>1. /\ UNCHANGED <<chan, uc, used, gone, contested, mixed>> /\ q # None /\ q.at = "look" /\ doubled \subseteq doubled'
    BY <1>1 DEF Look, records, Before
  <2>2. q.op = "dm"
    BY <2>1, CallAt DEF PlaceOf
  <2>3. CASE End(u)
    BY <2>1, <2>3 DEF Calm, End
  <2>4. CASE ~End(u)
    <3>1. /\ Proceed(u, "ask", <<>>)
          /\ \A d \in Channel : IsDM(d) /\ Members(d) = {u, q.to} => Hidden(u, d)
      BY <1>1, <2>4 DEF Look
    <3>2. \A d \in Channel : IsDM(d) /\ Members(d) = {u, q.to} => {u, q.to} \in doubled'
      BY <1>1, <3>1 DEF Look
    <3> DEFINE todo == <<>>
    <3>3. "ask" \in Place /\ todo \in Seq(AnyTask) /\ Proceed(u, "ask", todo)
      BY <3>1 DEF Place
    <3> HIDE DEF todo
    <3>4. PICK r \in ActRecord : /\ acts' = [acts EXCEPT ![u] = r] /\ r.op = q.op /\ r.to = q.to
                                 /\ r.c = c /\ r.at = "ask" /\ r.todo = todo /\ r.held = None
      BY <2>1, <3>3, ProceedFacts
    <3>5. MovesOn(u, r)
      BY <2>1, <2>2, <3>2, <3>4 DEF MovesOn
    <3>6. QED
      BY <2>1, <3>4, <3>5 DEF Calm
  <2>5. QED
    BY <2>3, <2>4
<1>2. CASE AskLeave(u)
  <2>1. /\ UNCHANGED <<chan, uc, used, gone, contested, mixed, doubled>> /\ q # None /\ q.at = "ask" /\ q.op \in {"add", "dm", "group"}
    BY <1>2, AskFacts
  <2>2. CASE End(u)
    BY <2>1, <2>2 DEF Calm, End
  <2>3. CASE ~End(u)
    <3> DEFINE r == Asked0(u)
    <3>1. /\ acts' = [acts EXCEPT ![u] = r] /\ r \in ActRecord /\ r.op = q.op /\ r.to = q.to /\ r.c = c
          /\ r.held = None /\ r.at = "tasks" /\ r.todo # <<>> /\ (q.op # "add" => Head(r.todo).do = "chan")
      BY <1>2, <2>3, AskFacts
    <3> HIDE DEF r
    <3>2. MovesOn(u, r)
      BY <2>1, <3>1 DEF MovesOn
    <3>3. QED
      BY <2>1, <3>1, <3>2 DEF Calm
  <2>4. QED
    BY <2>2, <2>3
<1>3. CASE FindLink(u) \/ CheckOutside(u)
  <2>1. /\ UNCHANGED <<chan, uc, used, gone, contested, mixed, doubled>> /\ q # None /\ q.at \in {"link", "outside"}
        /\ End(u) \/ Proceed(u, "outside", <<>>) \/ Proceed(u, "tasks", <<Task("admit", u, c, RoleMember)>>)
    BY <1>3 DEF FindLink, CheckOutside, Checked, records, memberHistory, Before, TasksOf
  <2>2. q.op = "join" /\ c \in Channel
    BY <2>1, CallAt DEF PlaceOf
  <2>3. CASE End(u)
    BY <2>1, <2>3 DEF Calm, End
  <2>4. CASE ~End(u)
    <3> DEFINE todo == <<>>  one == <<Task("admit", u, c, RoleMember)>>
    <3>1. /\ todo \in Seq(AnyTask) /\ one \in Seq(AnyTask) /\ "outside" \in Place /\ "tasks" \in Place
          /\ Proceed(u, "outside", todo) \/ Proceed(u, "tasks", one)
      <4>1. Task("admit", u, c, RoleMember) \in AnyTask
        BY <2>2, TaskTypes
      <4>2. QED
        BY <2>1, <2>4, <4>1 DEF Place
    <3> HIDE DEF todo, one
    <3>2. PICK r \in ActRecord : /\ acts' = [acts EXCEPT ![u] = r] /\ r.op = q.op /\ r.to = q.to
                                 /\ r.c = c /\ r.held = None
      BY <2>1, <2>4, <3>1, ProceedFacts
    <3>3. MovesOn(u, r)
      BY <2>1, <2>2, <3>2 DEF MovesOn
    <3>4. QED
      BY <2>1, <3>2, <3>3 DEF Calm
  <2>5. QED
    BY <2>3, <2>4
<1>4. CASE RequireMember(u)
  <2>1. /\ UNCHANGED <<chan, uc, used, gone, contested, mixed, doubled>> /\ q # None /\ q.at = "member"
        /\ End(u) \/ Proceed(u, "actor", <<>>)
    BY <1>4 DEF RequireMember, Checked, records, memberHistory, Before
  <2>2. q.op # "quit"
    BY <2>1, CallAt DEF PlaceOf
  <2>3. CASE End(u)
    BY <2>1, <2>3 DEF Calm, End
  <2>4. CASE ~End(u)
    <3> DEFINE todo == <<>>
    <3>1. todo \in Seq(AnyTask) /\ "actor" \in Place /\ Proceed(u, "actor", todo)
      BY <2>1, <2>4 DEF Place
    <3> HIDE DEF todo
    <3>2. PICK r \in ActRecord : /\ acts' = [acts EXCEPT ![u] = r] /\ r.op = q.op /\ r.to = q.to
                                 /\ r.c = c /\ r.at = "actor" /\ r.held = None
      BY <2>1, <2>4, <3>1, ProceedFacts
    <3>3. MovesOn(u, r)
      BY <2>1, <2>2, <3>2 DEF MovesOn
    <3>4. QED
      BY <2>1, <3>2, <3>3 DEF Calm
  <2>5. QED
    BY <2>3, <2>4
<1>5. CASE CheckTarget(u)
  <2>1. /\ UNCHANGED <<chan, uc, used, gone, contested, mixed, doubled>> /\ q # None /\ q.at = "target"
        /\ End(u) \/ Proceed(u, "tasks", TasksOf(q.op, u, q.to, c))
    BY <1>5 DEF CheckTarget, Checked, records, memberHistory, Before
  <2>2. q.op \in Manages /\ c \in Channel /\ q.to \in User
    BY <2>1, CallAt DEF PlaceOf
  <2>3. CASE End(u)
    BY <2>1, <2>3 DEF Calm, End
  <2>4. CASE ~End(u)
    <3>1. "tasks" \in Place /\ TasksOf(q.op, u, q.to, c) \in Seq(AnyTask)
      <4>1. /\ Task("remove", q.to, c, "kicked") \in AnyTask /\ Task("rank", q.to, c, RoleAdmin) \in AnyTask
            /\ Task("rank", q.to, c, RoleMember) \in AnyTask /\ Task("rank", q.to, c, RoleOwner) \in AnyTask
        BY <2>2, TaskTypes
      <4>2. QED
        BY <2>2, <4>1 DEF Place, TasksOf
    <3>2. PICK r \in ActRecord : /\ acts' = [acts EXCEPT ![u] = r] /\ r.op = q.op /\ r.to = q.to
                                 /\ r.c = c /\ r.held = None
      BY <2>1, <2>4, <3>1, ProceedFacts
    <3>3. MovesOn(u, r)
      BY <2>1, <2>2, <3>2 DEF MovesOn
    <3>4. QED
      BY <2>1, <3>2, <3>3 DEF Calm
  <2>5. QED
    BY <2>3, <2>4
<1>6. CASE ListMembers(u)
  <2>1. /\ UNCHANGED <<chan, uc, used, gone, contested, mixed, doubled>> /\ q # None /\ q.at = "list"
        /\ Proceed(u, "tasks", Deletion(u, c)) /\ q.op \in {"delete", "clear"} /\ c \in Channel
    BY <1>6, ListMembersFacts
  <2>2. "tasks" \in Place /\ Deletion(u, c) \in Seq(AnyTask)
    BY <2>1, DeletionOf DEF Place
  <2>3. PICK r \in ActRecord : /\ acts' = [acts EXCEPT ![u] = r] /\ r.op = q.op /\ r.to = q.to
                               /\ r.c = c /\ r.held = None /\ r.at = "tasks" /\ r.todo = Deletion(u, c)
    BY <2>1, <2>2, ProceedFacts
  <2>4. MovesOn(u, r)
    BY <2>1, <2>3 DEF MovesOn
  <2>5. QED
    BY <2>1, <2>3, <2>4 DEF Calm
<1>7. CASE ListGroups(u)
  <2>1. /\ UNCHANGED <<chan, uc, used, gone, contested, mixed, doubled>> /\ q # None /\ q.at = "groups" /\ q.op = "quit"
    BY <1>7, GroupsFacts
  <2>2. CASE End(u)
    BY <2>1, <2>2 DEF Calm, End
  <2>3. CASE ~End(u)
    <3>1. PICK todo \in Seq(AnyTask) :
            /\ Proceed(u, "tasks", todo)
            /\ \A i \in DOMAIN todo : \E d \in Channel : chan[d] # Absent /\ todo[i] = Task("remove", u, d, "left")
      BY <1>7, <2>3, GroupsFacts
    <3>2. PICK r \in ActRecord : /\ acts' = [acts EXCEPT ![u] = r] /\ r.op = q.op /\ r.to = q.to
                                 /\ r.c = c /\ r.held = None /\ r.at = "tasks" /\ r.todo = todo
      BY <2>1, <3>1, ProceedFacts DEF Place
    <3>3. MovesOn(u, r)
      BY <2>1, <3>1, <3>2 DEF MovesOn
    <3>4. QED
      BY <2>1, <3>2, <3>3 DEF Calm
  <2>4. QED
    BY <2>2, <2>3
<1>8. CASE Reread(u)
  <2> DEFINE h == uc[Head(q.todo).key]  r == [q EXCEPT !.held = h]
  <2>1. /\ UNCHANGED <<chan, uc, used, gone, contested, mixed, doubled>> /\ Working(u) /\ Head(q.todo).do \in Rereads
        /\ acts' = [acts EXCEPT ![u].held = h]
    BY <1>8 DEF Reread, records, memberHistory
  <2>2. q # None /\ q.todo # <<>> /\ q.at = "tasks" /\ Head(q.todo).key \in Key
    BY <2>1, HeadFits
  <2>3. q \in ActRecord /\ h \in Membership \cup {Absent} /\ acts \in [User -> ActRecord \cup {None}]
    BY <2>2, CallAt DEF MemberShape, ActsShape, RecordShape
  <2>4. acts' = [acts EXCEPT ![u] = r]
    BY <2>1, <2>3
  <2> HIDE DEF h
  <2>5. r \in ActRecord /\ r.op = q.op /\ r.to = q.to /\ r.c = c /\ r.at = q.at /\ r.todo = q.todo /\ r.held = h
    BY <2>3 DEF ActRecord
  <2> HIDE DEF r
  <2>6. MovesOn(u, r)
    BY <2>1, <2>2, <2>5 DEF MovesOn, h
  <2>7. QED
    BY <2>1, <2>2, <2>4, <2>5, <2>6 DEF Calm
<1>9. CASE CheckActor(u)
  <2> DEFINE mine == uc[<<u, c>>]
  <2>1. /\ UNCHANGED <<chan, uc, used, newest, gone, mixed, doubled>> /\ q # None /\ q.at = "actor" /\ c \in Channel
        /\ \/ End(u)
           \/ /\ q.op \in {"add"} \cup Manages /\ mine # Absent /\ mine.role >= RoleAdmin
              /\ acts' = [acts EXCEPT ![u] = [q EXCEPT !.rank = mine.role, !.at = IF q.op = "add" THEN "ask" ELSE "target"]]
           \/ q.op = "leave" /\ Proceed(u, "tasks", <<Task("remove", u, c, "left")>>)
           \/ /\ q.op = "rename" /\ Proceed(u, "tasks", <<Task("chan", u, c, "group")>>)
              /\ mine # Absent /\ mine.role >= RoleAdmin
           \/ q.op = "clear" /\ IsDM(c) /\ Proceed(u, "tasks", <<Task("clear", u, c, newest[c])>>)
           \/ q.op \in {"delete", "clear"} /\ Proceed(u, "list", <<>>)
    BY <1>9, ActorFacts
  <2>2. contested \subseteq contested' /\ (acts'[u] # None /\ acts'[u].at = "list" => Busy(c) = {u} \/ c \in contested')
    BY <1>9 DEF CheckActor
  <2>3. q \in ActRecord /\ q.held = None
    BY <2>1, CallAt
  <2>4. /\ Task("remove", u, c, "left") \in AnyTask /\ Task("chan", u, c, "group") \in AnyTask
        /\ Task("clear", u, c, newest[c]) \in AnyTask
    <3>1. newest[c] \in 0 .. MaxMessages
      BY <2>1 DEF MemberShape, RecordShape
    <3>2. QED
      BY <2>1, <3>1, TaskTypes
  <2>5. {"tasks", "list"} \subseteq Place
    BY DEF Place
  <2>6. CASE End(u)
    BY <2>1, <2>2, <2>6 DEF Calm, End
  <2>7. CASE /\ q.op \in {"add"} \cup Manages /\ mine # Absent /\ mine.role >= RoleAdmin
             /\ acts' = [acts EXCEPT ![u] = [q EXCEPT !.rank = mine.role, !.at = IF q.op = "add" THEN "ask" ELSE "target"]]
    <3> DEFINE r == [q EXCEPT !.rank = mine.role, !.at = IF q.op = "add" THEN "ask" ELSE "target"]
    <3>1. mine \in Membership
      BY <2>1, <2>7 DEF Key, MemberShape, RecordShape
    <3>2. mine.role \in Rank /\ mine.role # RoleMember
      BY <2>7, <3>1 DEF Membership, Rank
    <3>3. r \in ActRecord /\ r.op = q.op /\ r.to = q.to /\ r.c = c /\ r.held = None
      BY <2>3, <3>2 DEF ActRecord, Place
    <3> HIDE DEF r
    <3>4. MovesOn(u, r)
      BY <2>1, <2>7, <3>2, <3>3 DEF MovesOn
    <3>5. QED
      BY <2>1, <2>2, <2>7, <3>3, <3>4 DEF Calm, r
  <2>8. CASE q.op = "leave" /\ Proceed(u, "tasks", <<Task("remove", u, c, "left")>>)
    <3> DEFINE todo == <<Task("remove", u, c, "left")>>
    <3>0. todo \in Seq(AnyTask) /\ "tasks" \in Place /\ Proceed(u, "tasks", todo)
      BY <2>4, <2>5, <2>8
    <3> HIDE DEF todo
    <3>1. PICK r \in ActRecord : /\ acts' = [acts EXCEPT ![u] = r] /\ r.op = q.op /\ r.to = q.to /\ r.c = c /\ r.held = None
      BY <2>1, <3>0, ProceedFacts
    <3>2. MovesOn(u, r)
      BY <2>1, <2>8, <3>1 DEF MovesOn
    <3>3. QED
      BY <2>1, <2>2, <3>1, <3>2 DEF Calm
  <2>9. CASE /\ q.op = "rename" /\ Proceed(u, "tasks", <<Task("chan", u, c, "group")>>)
             /\ mine # Absent /\ mine.role >= RoleAdmin
    <3> DEFINE todo == <<Task("chan", u, c, "group")>>
    <3>0. todo \in Seq(AnyTask) /\ "tasks" \in Place /\ Proceed(u, "tasks", todo)
      BY <2>4, <2>5, <2>9
    <3> HIDE DEF todo
    <3>1. PICK r \in ActRecord : /\ acts' = [acts EXCEPT ![u] = r] /\ r.op = q.op /\ r.to = q.to /\ r.c = c /\ r.held = None
      BY <2>1, <3>0, ProceedFacts
    <3>2. MovesOn(u, r)
      BY <2>1, <2>9, <3>1 DEF MovesOn
    <3>3. QED
      BY <2>1, <2>2, <3>1, <3>2 DEF Calm
  <2>10. CASE q.op = "clear" /\ IsDM(c) /\ Proceed(u, "tasks", <<Task("clear", u, c, newest[c])>>)
    <3> DEFINE todo == <<Task("clear", u, c, newest[c])>>
    <3>0. todo \in Seq(AnyTask) /\ "tasks" \in Place /\ Proceed(u, "tasks", todo)
      BY <2>4, <2>5, <2>10
    <3> HIDE DEF todo
    <3>1. PICK r \in ActRecord : /\ acts' = [acts EXCEPT ![u] = r] /\ r.op = q.op /\ r.to = q.to /\ r.c = c /\ r.held = None
                                 /\ r.at = "tasks" /\ r.todo = todo
      BY <2>1, <3>0, ProceedFacts
    <3>2. MovesOn(u, r)
      BY <2>1, <2>10, <3>1 DEF MovesOn, todo
    <3>3. QED
      BY <2>1, <2>2, <3>1, <3>2 DEF Calm
  <2>11. CASE q.op \in {"delete", "clear"} /\ Proceed(u, "list", <<>>)
    <3> DEFINE todo == <<>>
    <3>0. todo \in Seq(AnyTask) /\ "list" \in Place /\ Proceed(u, "list", todo)
      BY <2>5, <2>11
    <3> HIDE DEF todo
    <3>1. PICK r \in ActRecord : /\ acts' = [acts EXCEPT ![u] = r] /\ r.op = q.op /\ r.to = q.to /\ r.c = c /\ r.held = None
                                 /\ r.at = "list"
      BY <2>1, <3>0, ProceedFacts
    <3>2. acts'[u] = r
      BY <3>1 DEF MemberShape, ActsShape
    <3>3. r # None => MovesOn(u, r)
      BY <2>1, <2>2, <2>11, <3>1, <3>2 DEF MovesOn
    <3>4. QED
      BY <2>1, <2>2, <3>1, <3>3 DEF Calm
  <2>12. QED
    BY <2>1, <2>6, <2>7, <2>8, <2>9, <2>10, <2>11
<1>10. QED
  BY <1>1, <1>2, <1>3, <1>4, <1>5, <1>6, <1>7, <1>8, <1>9

\* What a call has left after a task.
LEMMA RestFacts ==
  ASSUME MemberShape, NEW u \in User, NEW fails, Working(u), Rest(u, fails)
  PROVE  LET q == acts[u]  s == q.todo IN
           \/ acts' = [acts EXCEPT ![u] = None] /\ (DOMAIN s = {1} \/ (fails /\ q.op # "quit"))
           \/ \E r \in ActRecord :
                /\ acts' = [acts EXCEPT ![u] = r] /\ r.op = q.op /\ r.to = q.to /\ r.c = q.c
                /\ r.at = "tasks" /\ r.held = None /\ r.todo # <<>> /\ 2 \in DOMAIN s /\ Head(r.todo) = s[2]
                /\ \A i \in DOMAIN r.todo : i + 1 \in DOMAIN s /\ i + 1 # 1 /\ r.todo[i] = s[i + 1]
                /\ \A i \in DOMAIN s : i # 1 => \E j \in DOMAIN r.todo : r.todo[j] = s[i]
<1> DEFINE q == acts[u]  s == q.todo
<1>1. /\ q # None /\ q.at = "tasks" /\ s # <<>> /\ s \in Seq(AnyTask) /\ q \in ActRecord
      /\ acts \in [User -> ActRecord \cup {None}]
  BY CallAt DEF Working, Before, MemberShape, ActsShape
<1>2. /\ Tail(s) \in Seq(AnyTask) /\ Len(s) \in Nat /\ DOMAIN s = 1 .. Len(s)
      /\ \A i \in DOMAIN Tail(s) : i \in Nat /\ i + 1 \in DOMAIN s /\ Tail(s)[i] = s[i + 1]
      /\ \A i \in DOMAIN s : i # 1 => i - 1 \in DOMAIN Tail(s) /\ Tail(s)[i - 1] = s[i]
      /\ Tail(s) = <<>> <=> Len(s) = 1
  BY <1>1, TailsOf
<1> DEFINE ends == Tail(s) = <<>> \/ (fails /\ q.op # "quit")
<1>3. CASE ends
  BY <1>2, <1>3 DEF Rest, End
<1>4. CASE ~ends
  <2> DEFINE r == [q EXCEPT !.todo = Tail(s), !.held = None]  t == Tail(s)
  <2>1. acts' = [acts EXCEPT ![u] = r]
    BY <1>1, <1>4 DEF Rest
  <2> HIDE DEF t
  <2>2. t \in Seq(AnyTask) /\ t # <<>>
    BY <1>2, <1>4 DEF t
  <2>3. /\ r \in ActRecord /\ r.op = q.op /\ r.to = q.to /\ r.c = q.c /\ r.at = "tasks" /\ r.held = None /\ r.todo = t
    BY <1>1, <2>2 DEF ActRecord, t
  <2> HIDE DEF r
  <2>4. Head(t) = t[1] /\ 1 \in DOMAIN t /\ DOMAIN t = 1 .. Len(t) /\ Len(t) \in Nat
    BY <2>2, TailsOf
  <2>5. /\ \A i \in DOMAIN t : i \in Nat /\ i + 1 \in DOMAIN s /\ t[i] = s[i + 1]
        /\ \A i \in DOMAIN s : i # 1 => i - 1 \in DOMAIN t /\ t[i - 1] = s[i]
    BY <1>2 DEF t
  <2> HIDE DEF s, q
  <2>6. \A i \in DOMAIN t : i + 1 # 1
    BY <2>4
  <2>7. 1 + 1 = 2 /\ 2 \in DOMAIN s /\ Head(t) = s[2]
    BY <2>4, <2>5
  <2>8. \A i \in DOMAIN s : i # 1 => \E j \in DOMAIN t : t[j] = s[i]
    BY <2>5
  <2>9. /\ r.todo # <<>> /\ 2 \in DOMAIN s /\ Head(r.todo) = s[2]
        /\ \A i \in DOMAIN r.todo : i + 1 \in DOMAIN s /\ i + 1 # 1 /\ r.todo[i] = s[i + 1]
        /\ \A i \in DOMAIN s : i # 1 => \E j \in DOMAIN r.todo : r.todo[j] = s[i]
    BY <2>2, <2>3, <2>5, <2>6, <2>7, <2>8
  <2>10. QED
    BY <2>1, <2>3, <2>9 DEF s, q
<1>5. QED
  BY <1>3, <1>4

\* A step is the beginning of a call, one that writes no record, one that does, or a message.
LEMMA Steps ==
  ASSUME MemberShape, BarInv, MembershipCall \/ MembershipWork
  PROVE  \/ \E c \in Channel : Message(c)
         \/ \E u \in User : \/ \E v \in User, op \in Op, c \in Channel : Begin(u, op, v, c) \/ BeginCreation(u, v, op, c)
                            \/ BeginQuit(u) \/ Calm(u) \/ WriteBack(u) \/ WriteMember(u) \/ WriteChannel(u)
<1>1. CASE MembershipCall
  BY <1>1 DEF MembershipCall
<1>2. CASE MembershipWork
  BY <1>2, CalmMoves DEF MembershipWork
<1>3. QED
  BY <1>1, <1>2

-----------------------------------------------------------------------------
(* Deletions *)

Deleting(u, c) == acts[u] # None /\ acts[u].c = c /\ Deletes(u)

\* A channel is deleted by a call that is alone there, and its members go before it does.
DeletedAt(c) ==
  /\ \A u \in User : Deleting(u, c) =>
       /\ Busy(c) = {u}
       /\ acts[u].at = "tasks" =>
            \A x \in Members(c) : \E i \in DOMAIN acts[u].todo : acts[u].todo[i] = Task("drop", x, c, 0)
  /\ c \in gone => chan[c] = Absent /\ Members(c) = {} /\ Busy(c) = {}

DeletedInv == \A c \in Channel \ contested : DeletedAt(c)

\* A call that deletes has its channel still to be deleted, and is not at a task that is reread.
LEMMA DeletingFacts ==
  ASSUME MemberShape, NEW u \in User, Working(u), acts[u].op \in {"delete", "clear"}
  PROVE  LET s == acts[u].todo IN
           /\ Deletes(u) => Head(s).do \in {"drop", "chan"}
           /\ ~Deletes(u) => Head(s).do = "clear" /\ \A i \in DOMAIN s : s[i].do # "chan"
           /\ Head(s).do = "chan" => DOMAIN s = {1}
           /\ Head(s).do = "drop" => \E j \in DOMAIN s : j # 1 /\ s[j].do = "chan"
<1> DEFINE r == acts[u]  s == r.todo
<1>1. /\ r # None /\ r.at = "tasks" /\ s # <<>> /\ s \in Seq(AnyTask) /\ Head(s) = s[1] /\ 1 \in DOMAIN s
      /\ TaskFits(u, r, used, s[1]) /\ OrderFits(u, r, 1)
  BY HeadFits
<1>2. \A i \in DOMAIN s : OrderFits(u, r, i)
  BY <1>1, CallAt DEF CallFits, TodoFits
<1>3. Deletes(u) <=> \E i \in DOMAIN s : s[i].do = "chan"
  BY <1>1 DEF Deletes
<1>0. r.op \in {"delete", "clear"}
  OBVIOUS
<1> HIDE DEF r
<1>4. s[1].do \in {"clear", "drop", "chan"}
  <2> DEFINE t == s[1]
  <2>1. TaskFits(u, r, used, t)
    BY <1>1
  <2> HIDE DEF t, s
  <2>2. t.do \in {"clear", "drop", "chan"}
    BY <1>0, <2>1 DEF TaskFits, Task
  <2>3. QED
    BY <2>2 DEF t
<1>5. DOMAIN s = 1 .. Len(s) /\ Len(s) \in Nat
  BY <1>1
<1>12. 1 .. 1 = {1}
  OBVIOUS
<1>6. s[1].do = "clear" => DOMAIN s = {1}
  <2>1. s[1].do = "clear" => Len(s) = 1
    BY <1>0, <1>1 DEF OrderFits
  <2>2. QED
    BY <1>5, <1>12, <2>1
<1>7. s[1].do = "chan" => DOMAIN s = {1}
  <2>1. s[1].do = "chan" => Len(s) = 1
    BY <1>0, <1>1 DEF OrderFits
  <2>2. QED
    BY <1>5, <1>12, <2>1
<1> HIDE DEF s
<1>8. s[1].do = "drop" => \E j \in DOMAIN s : j # 1 /\ s[j].do = "chan"
  <2>1. s[1].do = "drop" => \E j \in DOMAIN s : 1 < j /\ s[j].do = "chan"
    BY <1>0, <1>1 DEF OrderFits, s
  <2>2. QED
    BY <1>5, <2>1
<1>9. Deletes(u) => s[1].do \in {"drop", "chan"}
  BY <1>3, <1>4, <1>6
<1>10. ~Deletes(u) => s[1].do = "clear" /\ \A i \in DOMAIN s : s[i].do # "chan"
  BY <1>1, <1>3, <1>4, <1>8
<1>11. QED
  BY <1>1, <1>7, <1>8, <1>9, <1>10 DEF s, r

LEMMA CalmDeletion ==
  ASSUME DeletedInv, UNCHANGED <<chan, uc, gone>>, contested \subseteq contested',
         \A x \in User : acts'[x] # None => acts[x] # None /\ acts'[x].c = acts[x].c,
         \A x \in User, c \in Channel \ contested' : Deleting(x, c)' =>
           \/ /\ Deleting(x, c)
              /\ acts'[x].at = "tasks" => acts[x].at = "tasks" /\ acts'[x].todo = acts[x].todo
           \/ /\ Busy(c) = {x}
              /\ acts'[x].at = "tasks" => \A y \in Members(c) : \E i \in DOMAIN acts'[x].todo :
                                            acts'[x].todo[i] = Task("drop", y, c, 0)
  PROVE  DeletedInv'
<1>1. \A c \in Channel : Members(c)' = Members(c)
  BY DEF Members, Active
<1>2. \A c \in Channel : Busy(c)' \subseteq Busy(c)
  BY DEF Busy
<1>3. ASSUME NEW c \in Channel \ contested', NEW u \in User, Deleting(u, c)'
      PROVE  /\ Busy(c)' = {u}
             /\ acts'[u].at = "tasks" =>
                  \A x \in Members(c) : \E i \in DOMAIN acts'[u].todo : acts'[u].todo[i] = Task("drop", x, c, 0)
  <2>1. u \in Busy(c)'
    BY <1>3 DEF Deleting, Busy
  <2>2. Busy(c) = {u}
    BY <1>3 DEF DeletedInv, DeletedAt
  <2>3. Busy(c)' = {u}
    BY <1>2, <2>1, <2>2
  <2>4. ASSUME acts'[u].at = "tasks"
        PROVE  \A x \in Members(c) : \E i \in DOMAIN acts'[u].todo : acts'[u].todo[i] = Task("drop", x, c, 0)
    <3>1. CASE Deleting(u, c) /\ acts[u].at = "tasks" /\ acts'[u].todo = acts[u].todo
      BY <1>3, <3>1 DEF DeletedInv, DeletedAt
    <3>2. QED
      BY <1>3, <2>4, <3>1
  <2>5. QED
    BY <2>3, <2>4
<1>4. ASSUME NEW c \in Channel \ contested', c \in gone'
      PROVE  chan'[c] = Absent /\ Members(c)' = {} /\ Busy(c)' = {}
  BY <1>1, <1>2, <1>4 DEF DeletedInv, DeletedAt
<1>5. ASSUME NEW c \in Channel \ contested' PROVE DeletedAt(c)'
  <2>1. Members(c)' = Members(c)
    BY <1>1
  <2>2. \A u \in User : Deleting(u, c)' =>
          /\ Busy(c)' = {u}
          /\ acts'[u].at = "tasks" =>
               \A x \in Members(c)' : \E i \in DOMAIN acts'[u].todo : acts'[u].todo[i] = Task("drop", x, c, 0)
    BY <1>3, <2>1
  <2>3. c \in gone' => chan'[c] = Absent /\ Members(c)' = {} /\ Busy(c)' = {}
    BY <1>4
  <2>4. QED
    BY <2>2, <2>3, Zenon DEF DeletedAt
<1>6. QED
  BY <1>5, Zenon DEF DeletedInv

\* The beginning of a call deletes nothing.
LEMMA BeginDeletion ==
  ASSUME MemberShape, DeletedInv, NEW u \in User, NEW r, acts[u] = None, acts' = [acts EXCEPT ![u] = r],
         UNCHANGED <<chan, uc, gone>>, contested \subseteq contested',
         r.op \in {"delete", "clear"} => r.at # "list" /\ r.todo = <<>>,
         r.c \in Channel \ contested' => r.c \notin gone /\ \A w \in Busy(r.c) : ~Deletes(w)
  PROVE  DeletedInv'
<1>1. acts'[u] = r /\ \A x \in User : x # u => acts'[x] = acts[x]
  BY DEF MemberShape, ActsShape
<1>2. \A c \in Channel : Members(c)' = Members(c)
  BY DEF Members, Active
<1>3. \A c \in Channel : c # r.c => Busy(c)' = Busy(c)
  BY <1>1 DEF Busy
<1>4. \A x \in User, c \in Channel : Deleting(x, c)' => x # u /\ Deleting(x, c)
  <2>1. ~Deletes(u)'
    <3>1. r.op \in {"delete", "clear"} => r.todo = <<>> /\ DOMAIN r.todo = {}
      OBVIOUS
    <3>2. QED
      BY <1>1, <3>1 DEF Deletes
  <2>2. \A x \in User : x # u => (Deletes(x)' <=> Deletes(x))
    BY <1>1 DEF Deletes
  <2>3. QED
    BY <1>1, <2>1, <2>2 DEF Deleting
<1>5. ASSUME NEW c \in Channel \ contested' PROVE DeletedAt(c)'
  <2>1. DeletedAt(c)
    BY <1>5 DEF DeletedInv
  <2>2. CASE c = r.c
    <3>1. \A x \in User : ~Deleting(x, c)
      BY <1>5, <2>2 DEF Deleting, Busy
    <3>2. c \notin gone'
      BY <1>5, <2>2
    <3>3. QED
      BY <1>4, <1>5, <3>1, <3>2 DEF DeletedAt
  <2>3. CASE c # r.c
    <3>1. Members(c)' = Members(c) /\ Busy(c)' = Busy(c)
      BY <1>2, <1>3, <2>3
    <3>2. ASSUME NEW x \in User, Deleting(x, c)' PROVE Deleting(x, c) /\ acts'[x] = acts[x]
      BY <1>1, <1>4, <3>2
    <3>3. ASSUME NEW x \in User, Deleting(x, c)'
          PROVE  /\ Busy(c)' = {x}
                 /\ acts'[x].at = "tasks" =>
                      \A y \in Members(c)' : \E i \in DOMAIN acts'[x].todo : acts'[x].todo[i] = Task("drop", y, c, 0)
      BY <2>1, <3>1, <3>2, <3>3 DEF DeletedAt
    <3>4. c \in gone' => chan'[c] = Absent /\ Members(c)' = {} /\ Busy(c)' = {}
      BY <2>1, <3>1 DEF DeletedAt
    <3>5. QED
      BY <3>3, <3>4, Zenon DEF DeletedAt
  <2>4. QED
    BY <2>2, <2>3
<1>6. QED
  BY <1>5 DEF DeletedInv

\* After a task no call is at a channel that was not there.
LEMMA RestCalls ==
  ASSUME MemberShape, NEW u \in User, NEW fails, Working(u), Rest(u, fails)
  PROVE  /\ \A x \in User : x # u => acts'[x] = acts[x]
         /\ \A x \in User : acts'[x] # None => acts[x] # None /\ acts'[x].c = acts[x].c /\ acts'[x].op = acts[x].op
                                               /\ acts'[x].to = acts[x].to
         /\ \A c \in Channel : Busy(c)' \subseteq Busy(c) /\ (Deleting(u, c)' => Deleting(u, c))
<1> DEFINE q == acts[u]
<1>1. q # None /\ q.at = "tasks" /\ acts \in [User -> ActRecord \cup {None}]
  BY DEF Working, Before, MemberShape, ActsShape
<1>2. CASE acts' = [acts EXCEPT ![u] = None]
  BY <1>1, <1>2 DEF Busy, Deleting
<1>3. CASE ~(acts' = [acts EXCEPT ![u] = None])
  <2>1. PICK r \in ActRecord :
          /\ acts' = [acts EXCEPT ![u] = r] /\ r.op = q.op /\ r.to = q.to /\ r.c = q.c /\ r.at = "tasks"
          /\ \A i \in DOMAIN r.todo : i + 1 \in DOMAIN q.todo /\ r.todo[i] = q.todo[i + 1]
    BY <1>3, RestFacts
  <2>2. acts'[u] = r /\ \A x \in User : x # u => acts'[x] = acts[x]
    BY <1>1, <2>1
  <2>3. Deletes(u)' => Deletes(u)
    BY <2>1, <2>2 DEF Deletes
  <2>4. QED
    BY <1>1, <2>1, <2>2, <2>3 DEF Busy, Deleting
<1>4. QED
  BY <1>2, <1>3

LEMMA WriteDeletion ==
  ASSUME MemberShape, NEW u \in User, NEW fails, Working(u), Rest(u, fails), NEW c \in Channel, DeletedAt(c),
         ~Deleting(u, c), u \notin Busy(c) => Members(c)' \subseteq Members(c) /\ chan'[c] = chan[c],
         c \in gone' => c \in gone
  PROVE  DeletedAt(c)'
<1>1. /\ \A x \in User : x # u => acts'[x] = acts[x]
      /\ Busy(c)' \subseteq Busy(c) /\ (Deleting(u, c)' => Deleting(u, c))
  BY RestCalls
<1>2. ASSUME NEW x \in User, Deleting(x, c)'
      PROVE  /\ Busy(c)' = {x}
             /\ acts'[x].at = "tasks" => \A y \in Members(c)' : \E i \in DOMAIN acts'[x].todo :
                                           acts'[x].todo[i] = Task("drop", y, c, 0)
  <2>1. x # u /\ acts'[x] = acts[x]
    BY <1>1, <1>2
  <2>2. Deleting(x, c)
    BY <1>2, <2>1 DEF Deleting, Deletes
  <2>3. Busy(c) = {x} /\ x \in Busy(c)'
    BY <1>2, <2>2 DEF DeletedAt, Deleting, Busy
  <2>4. Members(c)' \subseteq Members(c)
    BY <2>1, <2>3
  <2>5. QED
    BY <1>1, <2>1, <2>2, <2>3, <2>4 DEF DeletedAt
<1>3. ASSUME c \in gone' PROVE chan'[c] = Absent /\ Members(c)' = {} /\ Busy(c)' = {}
  BY <1>1, <1>3 DEF DeletedAt
<1>4. QED
  BY <1>2, <1>3 DEF DeletedAt

\* Who is active by a step that writes one record.
LEMMA WrittenMembers ==
  ASSUME MemberShape, NEW key \in Key, NEW x \in Membership \cup {Absent}, uc' = [uc EXCEPT ![key] = x]
  PROVE  /\ key = <<key[1], key[2]>> /\ key[1] \in User /\ key[2] \in Channel
         /\ \A v \in User, c \in Channel : <<v, c>> # key => (Active(v, c)' <=> Active(v, c)) /\ uc'[<<v, c>>] = uc[<<v, c>>]
         /\ \A c \in Channel : c # key[2] => Members(c)' = Members(c)
         /\ Active(key[1], key[2])' <=> x # Absent /\ x.status = "active"
         /\ uc'[key] = x
         /\ Members(key[2])' = IF x # Absent /\ x.status = "active" THEN Members(key[2]) \cup {key[1]}
                                                                   ELSE Members(key[2]) \ {key[1]}
<1>1. key = <<key[1], key[2]>> /\ key[1] \in User /\ key[2] \in Channel /\ uc \in [Key -> Membership \cup {Absent}]
  BY DEF Key, MemberShape, RecordShape
<1>2. \A v \in User, c \in Channel : <<v, c>> \in Key
  BY DEF Key
<1>3. uc'[key] = x /\ \A k \in Key : k # key => uc'[k] = uc[k]
  BY <1>1
<1>4. \A v \in User, c \in Channel : <<v, c>> # key => (Active(v, c)' <=> Active(v, c)) /\ uc'[<<v, c>>] = uc[<<v, c>>]
  BY <1>2, <1>3 DEF Active
<1>5. Active(key[1], key[2])' <=> x # Absent /\ x.status = "active"
  BY <1>1, <1>3 DEF Active
<1>6. \A v \in User, c \in Channel : <<v, c>> = key <=> v = key[1] /\ c = key[2]
  BY <1>1
<1>7. \A c \in Channel : c # key[2] => Members(c)' = Members(c)
  BY <1>4, <1>6 DEF Members
<1>8. Members(key[2])' = IF x # Absent /\ x.status = "active" THEN Members(key[2]) \cup {key[1]}
                                                             ELSE Members(key[2]) \ {key[1]}
  <2> DEFINE w == key[1]  d == key[2]
  <2>1. w \in User /\ d \in Channel /\ \A v \in User : v # w => (Active(v, d)' <=> Active(v, d))
    BY <1>1, <1>4, <1>6
  <2>2. Active(w, d)' <=> x # Absent /\ x.status = "active"
    BY <1>5
  <2> HIDE DEF w, d
  <2>4. CASE x # Absent /\ x.status = "active"
    <3>1. Members(d)' = Members(d) \cup {w}
      BY <2>1, <2>2, <2>4 DEF Members
    <3>2. QED
      BY <2>4, <3>1 DEF w, d
  <2>5. CASE ~(x # Absent /\ x.status = "active")
    <3>1. Members(d)' = Members(d) \ {w}
      BY <2>1, <2>2, <2>5 DEF Members
    <3>2. QED
      BY <2>5, <3>1 DEF w, d
  <2>6. QED
    BY <2>4, <2>5
<1>9. QED
  BY <1>1, <1>3, <1>4, <1>5, <1>7, <1>8

\* A call that is not about a channel brings nobody there.
LEMMA BackMembers ==
  ASSUME MemberShape, NEW u \in User, WriteBack(u), NEW c \in Channel, u \notin Busy(c)
  PROVE  Members(c)' \subseteq Members(c)
<1> DEFINE q == acts[u]  t == Head(q.todo)  key == t.key  old == q.held  new == Changed(t, old)
<1>1. /\ Working(u) /\ t \in AnyTask /\ t.do \in Rereads /\ key \in Key
      /\ old \in Membership \cup {Absent} /\ new \in Membership \cup {Absent}
      /\ IF new = Absent THEN UNCHANGED <<uc, raced, out, forced>> ELSE uc' = [uc EXCEPT ![key] = new]
  BY WriteBackFacts
<1>2. CASE new = Absent
  BY <1>1, <1>2 DEF Members, Active
<1>3. CASE new # Absent
  <2>0. PICK k \in Key, n \in Membership \cup {Absent} : k = key /\ n = new /\ uc' = [uc EXCEPT ![k] = n]
    BY <1>1, <1>3
  <2>1. k \in Key /\ n \in Membership \cup {Absent} /\ uc' = [uc EXCEPT ![k] = n]
    BY <2>0
  <2>2. /\ \A d \in Channel : d # k[2] => Members(d)' = Members(d)
        /\ Members(k[2])' = IF n # Absent /\ n.status = "active" THEN Members(k[2]) \cup {k[1]} ELSE Members(k[2]) \ {k[1]}
    BY <2>1, WrittenMembers
  <2>3. CASE c = k[2]
    <3>1. q # None /\ TaskFits(u, q, used, t) /\ (q.op = "quit" \/ key[2] = q.c)
      BY <1>1, HeadFits
    <3>2. q.op = "quit"
      BY <2>0, <2>3, <3>1 DEF Busy
    <3> HIDE DEF t, old
    <3>3. t.do = "remove"
      BY <3>1, <3>2 DEF TaskFits, Task
    <3>4. new.status # "active"
      BY <1>1, <1>3, <3>3, ChangedFacts
    <3>5. n.status # "active"
      BY <2>0, <3>4
    <3>6. QED
      BY <2>2, <2>3, <3>5
  <2>4. QED
    BY <2>2, <2>3
<1>4. QED
  BY <1>2, <1>3

LEMMA DropDeletion ==
  ASSUME MemberShape, DeletedInv, NEW u \in User, WriteMember(u)
  PROVE  DeletedInv'
<1> DEFINE q == acts[u]  s == q.todo  t == Head(s)  key == t.key
<1>1. /\ Working(u) /\ t \in AnyTask /\ key \in Key /\ t.do \in {"put", "drop"}
      /\ \E x \in Membership \cup {Absent} : uc' = [uc EXCEPT ![key] = x] /\ (t.do = "drop" => x = Absent)
      /\ Rest(u, FALSE) /\ UNCHANGED <<chan, gone, contested>>
  BY WriteMemberFacts
<1>2. /\ q # None /\ TaskFits(u, q, used, t) /\ q.at = "tasks" /\ t = s[1] /\ 1 \in DOMAIN s /\ s # <<>>
      /\ q.op # "quit" => key[2] = q.c
  BY <1>1, HeadFits
<1>3. q.op # "quit" /\ (t.do = "drop" => q.op \in {"delete", "clear"}) /\ (t.do = "put" => q.op \in Creates)
  <2>1. TaskFits(u, q, used, t) /\ t.do \in {"put", "drop"}
    BY <1>1, <1>2
  <2> HIDE DEF t, q
  <2>2. QED
    BY <2>1 DEF TaskFits, Task
<1>4. PICK x \in Membership \cup {Absent}, k \in Key :
        uc' = [uc EXCEPT ![k] = x] /\ k = key /\ (t.do = "drop" => x = Absent)
  BY <1>1
<1>5. \A c \in Channel : u \notin Busy(c) => Members(c)' = Members(c)
  <2>1. \A c \in Channel : u \notin Busy(c) => c # k[2]
    BY <1>2, <1>3, <1>4 DEF Busy
  <2>2. k \in Key /\ x \in Membership \cup {Absent} /\ uc' = [uc EXCEPT ![k] = x]
    BY <1>4
  <2>3. \A c \in Channel : c # k[2] => Members(c)' = Members(c)
    BY <2>2, WrittenMembers
  <2>4. QED
    BY <2>1, <2>3
<1>6. ASSUME NEW c \in Channel \ contested' PROVE DeletedAt(c)'
  <2>1. DeletedAt(c)
    BY <1>1, <1>6 DEF DeletedInv
  <2>2. CASE ~Deleting(u, c)
    BY <1>1, <1>5, <1>6, <2>1, <2>2, WriteDeletion
  <2>3. CASE Deleting(u, c)
    <3>1. q.op \in {"delete", "clear"} /\ q.c = c /\ t.do = "drop" /\ key[2] = c
      BY <1>1, <1>2, <1>3, <2>3 DEF Deleting, Deletes
    <3>2. /\ Busy(c) = {u} /\ c \notin gone
          /\ \A y \in Members(c) : \E i \in DOMAIN s : s[i] = Task("drop", y, c, 0)
      BY <1>2, <2>1, <2>3 DEF DeletedAt
    <3>3. PICK j \in DOMAIN s : j # 1
      BY <1>1, <3>1, DeletingFacts
    <3>4. /\ \A y \in User : y # u => acts'[y] = acts[y]
          /\ Busy(c)' \subseteq Busy(c)
      BY <1>1, RestCalls
    <3>5. Members(c)' = Members(c) \ {k[1]}
      BY <1>4, <3>1, WrittenMembers
    <3>6. /\ acts'[u] # None => acts'[u].at = "tasks"
          /\ acts'[u] # None => \A i \in DOMAIN s : i # 1 => \E m \in DOMAIN acts'[u].todo : acts'[u].todo[m] = s[i]
      <4>1. acts \in [User -> ActRecord \cup {None}]
        BY DEF MemberShape, ActsShape
      <4>2. CASE acts' = [acts EXCEPT ![u] = None]
        BY <4>1, <4>2
      <4>3. CASE ~(acts' = [acts EXCEPT ![u] = None])
        <5>0. PICK r \in ActRecord :
                /\ acts' = [acts EXCEPT ![u] = r] /\ r.op = q.op /\ r.to = q.to /\ r.c = q.c
                /\ r.at = "tasks" /\ r.held = None /\ r.todo # <<>> /\ 2 \in DOMAIN s /\ Head(r.todo) = s[2]
                /\ \A i \in DOMAIN r.todo : i + 1 \in DOMAIN s /\ i + 1 # 1 /\ r.todo[i] = s[i + 1]
                /\ \A i \in DOMAIN s : i # 1 => \E m \in DOMAIN r.todo : r.todo[m] = s[i]
          BY <1>1, <4>3, RestFacts, Zenon
        <5>1. /\ acts' = [acts EXCEPT ![u] = r] /\ r.at = "tasks"
              /\ \A i \in DOMAIN s : i # 1 => \E m \in DOMAIN r.todo : r.todo[m] = s[i]
          BY <5>0
        <5>2. acts'[u] = r
          BY <4>1, <5>1
        <5>3. QED
          BY <5>1, <5>2
      <4>4. QED
        BY <4>2, <4>3
    <3>7. ASSUME NEW y \in User, Deleting(y, c)'
          PROVE  /\ Busy(c)' = {y}
                 /\ \A z \in Members(c)' : \E i \in DOMAIN acts'[y].todo : acts'[y].todo[i] = Task("drop", z, c, 0)
      <4>1. y \in Busy(c)'
        BY <3>7 DEF Deleting, Busy
      <4>2. y = u /\ Busy(c)' = {u}
        BY <3>2, <3>4, <4>1
      <4>3. ASSUME NEW z \in Members(c)' PROVE \E m \in DOMAIN acts'[u].todo : acts'[u].todo[m] = Task("drop", z, c, 0)
        <5>1. PICK i \in DOMAIN s : s[i] = Task("drop", z, c, 0)
          BY <3>2, <3>5
        <5>2. z # k[1]
          BY <3>5
        <5>3. i # 1
          BY <1>2, <1>4, <5>1, <5>2 DEF Task
        <5>4. acts'[u] # None
          BY <3>7, <4>2 DEF Deleting
        <5>5. QED
          BY <3>6, <5>1, <5>3, <5>4
      <4>4. QED
        BY <4>2, <4>3
    <3>8. c \notin gone'
      BY <1>1, <3>2
    <3>9. QED
      BY <3>7, <3>8 DEF DeletedAt
  <2>4. QED
    BY <2>2, <2>3
<1>7. QED
  BY <1>6 DEF DeletedInv

LEMMA KindThere == \A op : KindOf(op) # Absent
BY DEF KindOf

LEMMA ChannelDeletion ==
  ASSUME MemberShape, DeletedInv, NEW u \in User, WriteChannel(u)
  PROVE  DeletedInv'
<1> DEFINE q == acts[u]  s == q.todo  t == Head(s)  d == q.c
<1>1. /\ Working(u) /\ t.do = "chan" /\ d \in Channel /\ t = Task("chan", u, d, t.val)
      /\ \/ q.op = "rename" /\ t.val = "group"
         \/ q.op \in Creates /\ t.val = KindOf(q.op)
         \/ q.op \in {"clear", "delete"} /\ t.val = Absent
      /\ chan' = [chan EXCEPT ![d] = t.val] /\ gone' = (IF t.val = Absent THEN gone \cup {d} ELSE gone)
      /\ Rest(u, FALSE) /\ UNCHANGED <<uc, contested>>
  BY WriteChannelFacts
<1>2. q # None /\ q.at = "tasks" /\ t = s[1] /\ 1 \in DOMAIN s /\ s # <<>>
  BY <1>1, HeadFits
<1>3. u \in Busy(d) /\ \A c \in Channel : u \notin Busy(c) => chan'[c] = chan[c]
  BY <1>1, <1>2 DEF Busy, MemberShape, RecordShape
<1>4. \A c \in Channel : Members(c)' = Members(c)
  BY <1>1 DEF Members, Active
<1>5. ASSUME NEW c \in Channel \ contested' PROVE DeletedAt(c)'
  <2>1. DeletedAt(c)
    BY <1>1, <1>5 DEF DeletedInv
  <2>2. CASE ~Deleting(u, c)
    <3>1. c \in gone' => c \in gone
      <4>1. CASE t.val # Absent
        BY <1>1, <4>1
      <4>2. CASE t.val = Absent
        <5>1. q.op \in {"delete", "clear"}
          BY <1>1, <4>2, KindThere
        <5>2. Deletes(u)
          BY <1>1, <5>1, DeletingFacts
        <5>3. c # d
          BY <1>2, <2>2, <5>2 DEF Deleting
        <5>4. QED
          BY <1>1, <5>3
      <4>3. QED
        BY <4>1, <4>2
    <3>2. QED
      BY <1>1, <1>3, <1>4, <1>5, <2>1, <2>2, <3>1, WriteDeletion
  <2>3. CASE Deleting(u, c)
    <3>1. q.op \in {"delete", "clear"} /\ d = c /\ t.val = Absent
      BY <1>1, <2>3 DEF Deleting, Deletes
    <3>2. /\ Busy(c) = {u}
          /\ \A y \in Members(c) : \E i \in DOMAIN s : s[i] = Task("drop", y, c, 0)
      BY <1>2, <2>1, <2>3 DEF DeletedAt
    <3>3. DOMAIN s = {1}
      BY <1>1, <3>1, DeletingFacts
    <3>4. Members(c) = {}
      <4>1. \A y : Task("drop", y, c, 0).do = "drop"
        BY DEF Task
      <4>2. s[1].do = "chan"
        BY <1>1, <1>2
      <4>3. QED
        BY <3>2, <3>3, <4>1, <4>2
    <3>5. acts' = [acts EXCEPT ![u] = None]
      <4>1. 2 \notin DOMAIN s
        BY <3>3
      <4>2. QED
        BY <1>1, <4>1, RestFacts
    <3>6. Busy(c)' = {}
      <4>1. acts'[u] = None /\ Busy(c)' \subseteq Busy(c)
        BY <1>1, <3>5, RestCalls DEF MemberShape, ActsShape
      <4>2. u \notin Busy(c)'
        BY <4>1 DEF Busy
      <4>3. QED
        BY <3>2, <4>1, <4>2
    <3>7. \A y \in User : ~Deleting(y, c)'
      BY <3>6 DEF Deleting, Busy
    <3>8. chan'[c] = Absent
      BY <1>1, <3>1 DEF MemberShape, RecordShape
    <3>9. QED
      BY <1>4, <3>4, <3>6, <3>7, <3>8 DEF DeletedAt
  <2>4. QED
    BY <2>2, <2>3
<1>6. QED
  BY <1>5 DEF DeletedInv

LEMMA CalmCalls ==
  ASSUME MemberShape, NEW u \in User, Calm(u)
  PROVE  /\ \A x \in User : x # u => acts'[x] = acts[x]
         /\ \A x \in User : acts'[x] # None => acts[x] # None /\ acts'[x].c = acts[x].c /\ acts'[x].op = acts[x].op
                                               /\ acts'[x].to = acts[x].to
         /\ \A c \in Channel : Busy(c)' \subseteq Busy(c)
         /\ acts'[u] # None => acts'[u] \in ActRecord /\ MovesOn(u, acts'[u])
         /\ acts'[u] = None => acts[u].at # "tasks"
<1>1. acts \in [User -> ActRecord \cup {None}] /\ acts[u] # None
  BY DEF MemberShape, ActsShape, Calm
<1>2. PICK r : acts' = [acts EXCEPT ![u] = r] /\ (r # None => r \in ActRecord /\ MovesOn(u, r))
  BY DEF Calm
<1>3. acts'[u] = r /\ \A x \in User : x # u => acts'[x] = acts[x]
  BY <1>1, <1>2
<1>4. r # None => r.c = acts[u].c /\ r.op = acts[u].op /\ r.to = acts[u].to
  BY <1>2 DEF MovesOn
<1>5. \A x \in User : acts'[x] # None => acts[x] # None /\ acts'[x].c = acts[x].c /\ acts'[x].op = acts[x].op
                                         /\ acts'[x].to = acts[x].to
  BY <1>1, <1>3, <1>4
<1>6. \A c \in Channel : Busy(c)' \subseteq Busy(c)
  BY <1>5 DEF Busy
<1>7. r = None => acts[u].at # "tasks"
  <2>1. ASSUME NEW q \in ActRecord PROVE q # None
    BY ActAssumption
  <2>2. (acts[u].at # "tasks" /\ acts' = [acts EXCEPT ![u] = None]) \/ \E q \in ActRecord : acts' = [acts EXCEPT ![u] = q]
    BY DEF Calm
  <2>3. \A q : acts' = [acts EXCEPT ![u] = q] => acts'[u] = q
    BY <1>1
  <2>4. QED
    BY <1>3, <2>1, <2>2, <2>3
<1>8. QED
  BY <1>2, <1>3, <1>5, <1>6, <1>7

LEMMA CalmDeletes ==
  ASSUME MemberShape, MemberShape', DeletedInv, NEW u \in User, Calm(u)
  PROVE  DeletedInv'
<1>1. /\ UNCHANGED <<chan, uc, gone>> /\ contested \subseteq contested' /\ acts[u] # None
  BY DEF Calm
<1>2. /\ \A x \in User : x # u => acts'[x] = acts[x]
      /\ \A x \in User : acts'[x] # None => acts[x] # None /\ acts'[x].c = acts[x].c
      /\ acts'[u] # None => MovesOn(u, acts'[u])
  BY CalmCalls
<1>3. ASSUME NEW x \in User, NEW c \in Channel \ contested', Deleting(x, c)'
      PROVE \/ /\ Deleting(x, c)
               /\ acts'[x].at = "tasks" => acts[x].at = "tasks" /\ acts'[x].todo = acts[x].todo
            \/ /\ Busy(c) = {x}
               /\ acts'[x].at = "tasks" => \A y \in Members(c) : \E i \in DOMAIN acts'[x].todo :
                                             acts'[x].todo[i] = Task("drop", y, c, 0)
  <2>1. CASE x # u
    BY <1>2, <1>3, <2>1 DEF Deleting, Deletes
  <2>2. CASE x = u
    <3> DEFINE q == acts[u]  r == acts'[u]
    <3>1. /\ r # None /\ r.c = c /\ r.op \in {"delete", "clear"}
          /\ r.at = "list" \/ \E i \in DOMAIN r.todo : r.todo[i].do = "chan"
      BY <1>3, <2>2 DEF Deleting, Deletes
    <3>2. MovesOn(u, r) /\ q # None /\ q.c = c /\ q.op = r.op
      BY <1>1, <1>2, <3>1 DEF MovesOn
    <3>3. r.at # "tasks" => r.todo = <<>> /\ DOMAIN r.todo = {}
      <4>1. r.at # "tasks" => r.todo = <<>>
        BY <3>1 DEF MemberShape, ActsShape, CallFits, PlaceFits
      <4>2. QED
        BY <4>1
    <3>4. CASE r.at = q.at /\ r.todo = q.todo /\ q.at = "tasks"
      BY <2>2, <3>1, <3>2, <3>4 DEF Deleting, Deletes
    <3>5. CASE r.at = "tasks" /\ r.todo = <<Task("clear", u, c, newest[c])>>
      <4>1. DOMAIN r.todo = {1} /\ r.todo[1].do = "clear"
        BY <3>5 DEF Task
      <4>2. QED
        BY <3>1, <3>5, <4>1
    <3>6. CASE r.at = "list" /\ (Busy(c) = {u} \/ c \in contested')
      BY <1>3, <2>2, <3>6
    <3>7. CASE q.at = "list" /\ r.at = "tasks" /\ r.todo = Deletion(u, c)
      <4>1. Deleting(u, c)
        BY <3>1, <3>2, <3>7 DEF Deleting, Deletes
      <4>2. Busy(c) = {u}
        BY <1>1, <1>3, <4>1 DEF DeletedInv, DeletedAt
      <4>3. \A y \in Members(c) : \E i \in DOMAIN Deletion(u, c) : Deletion(u, c)[i] = Task("drop", y, c, 0)
        BY DeletionOf, Zenon
      <4>4. QED
        BY <2>2, <3>7, <4>2, <4>3
    <3>8. CASE r.at = "actor"
      BY <3>1, <3>3, <3>8
    <3> HIDE DEF r, q
    <3>9. QED
      BY <3>1, <3>2, <3>4, <3>5, <3>6, <3>7, <3>8 DEF MovesOn, q
  <2>3. QED
    BY <2>1, <2>2
<1>4. QED
  BY <1>1, <1>2, <1>3, CalmDeletion

LEMMA BeginDeletes ==
  ASSUME MemberShape, DeletedInv, NEW u \in User,
         \/ \E v \in User, op \in Op, c \in Channel : Begin(u, op, v, c) \/ BeginCreation(u, v, op, c)
         \/ BeginQuit(u)
  PROVE  DeletedInv'
<1>1. ASSUME NEW v \in User, NEW op \in Op, NEW c \in Channel, Begin(u, op, v, c) PROVE DeletedInv'
  <2> DEFINE r == [op |-> op, to |-> v, c |-> c, held |-> None, rank |-> RoleMember,
                   at |-> CASE op = "join" -> "link" [] op = "receipt" -> "tasks" [] OTHER -> "member",
                   todo |-> IF op = "receipt" THEN TasksOf(op, u, v, c) ELSE <<>>,
                   barred |-> <<v, u>> \in barred]
  <2>1. /\ acts[u] = None /\ acts' = [acts EXCEPT ![u] = r] /\ UNCHANGED <<chan, uc, gone>>
        /\ contested' = IF chan[c] = Absent \/ \E w \in Busy(c) : Deletes(w) THEN contested \cup {c} ELSE contested
    BY <1>1 DEF Begin, records
  <2>2. r.c = c /\ (r.op \in {"delete", "clear"} => r.at # "list" /\ r.todo = <<>>)
    OBVIOUS
  <2>3. contested \subseteq contested'
    BY <2>1
  <2>4. c \notin contested' => c \notin gone /\ \A w \in Busy(c) : ~Deletes(w)
    <3>1. c \notin contested' => chan[c] # Absent /\ c \notin contested /\ \A w \in Busy(c) : ~Deletes(w)
      BY <2>1
    <3>2. QED
      BY <3>1 DEF DeletedInv, DeletedAt
  <2> HIDE DEF r
  <2>5. QED
    BY <2>1, <2>2, <2>3, <2>4, BeginDeletion
<1>2. ASSUME NEW v \in User, NEW op \in Op, NEW c \in Channel, BeginCreation(u, v, op, c) PROVE DeletedInv'
  <2> DEFINE r == [op |-> op, to |-> v, c |-> c, held |-> None, rank |-> RoleOwner,
                   at |-> IF op = "dm" THEN "look" ELSE IF v # u THEN "ask" ELSE "tasks",
                   todo |-> IF v # u THEN <<>> ELSE Creation(u, {}, c, op),
                   barred |-> <<v, u>> \in barred]
  <2>1. /\ acts[u] = None /\ acts' = [acts EXCEPT ![u] = r] /\ UNCHANGED <<chan, uc, gone, contested>>
        /\ op \in Creates /\ c \notin used
    BY <1>2 DEF BeginCreation, IsNext
  <2>2. r.c = c /\ r.op = op
    OBVIOUS
  <2>3. c \notin gone /\ Busy(c) = {}
    <3>1. \A w \in User : acts[w] # None /\ acts[w].c = c => FALSE
      BY <2>1, CallAt DEF MemberShape, ActsShape, CallFits, PlaceFits
    <3>2. QED
      BY <2>1, <3>1 DEF Busy, MemberShape, RecordShape
  <2> HIDE DEF r
  <2>4. QED
    BY <2>1, <2>2, <2>3, BeginDeletion
<1>3. CASE BeginQuit(u)
  <2> DEFINE r == [op |-> "quit", to |-> u, c |-> Absent, held |-> None, rank |-> RoleMember,
                   at |-> "groups", todo |-> <<>>, barred |-> FALSE]
  <2>1. /\ acts[u] = None /\ acts' = [acts EXCEPT ![u] = r] /\ UNCHANGED <<chan, uc, gone, contested>>
    BY <1>3 DEF BeginQuit, records, memberHistory
  <2>2. r.c \notin Channel /\ r.op = "quit"
    OBVIOUS
  <2> HIDE DEF r
  <2>3. QED
    BY <2>1, <2>2, BeginDeletion
<1>4. QED
  BY <1>1, <1>2, <1>3

LEMMA DeletedStep ==
  ASSUME MemberShape, MemberShape', BarInv, DeletedInv,
         MembershipCall \/ MembershipWork \/ BreakActs \/ UNCHANGED memberVars
  PROVE  DeletedInv'
<1>0. ASSUME UNCHANGED <<chan, uc, gone, contested, acts>> PROVE DeletedInv'
  BY <1>0 DEF DeletedInv, DeletedAt, Deleting, Deletes, Busy, Members, Active
<1>1. ASSUME NEW u \in User, WriteBack(u) PROVE DeletedInv'
  <2>1. /\ Working(u) /\ Head(acts[u].todo).do \in Rereads /\ UNCHANGED <<chan, gone, contested>>
        /\ \E fails : Rest(u, fails)
    BY <1>1, WriteBackFacts
  <2>2. PICK fails : Rest(u, fails)
    BY <2>1
  <2>3. ASSUME NEW c \in Channel \ contested' PROVE DeletedAt(c)'
    <3>1. ~Deleting(u, c)
      BY <2>1, DeletingFacts DEF Deleting, Deletes, Rereads
    <3>2. DeletedAt(c)
      BY <2>1, <2>3 DEF DeletedInv
    <3>3. u \notin Busy(c) => Members(c)' \subseteq Members(c)
      BY <1>1, BackMembers
    <3>4. QED
      BY <2>1, <2>2, <2>3, <3>1, <3>2, <3>3, WriteDeletion
  <2>4. QED
    BY <2>3 DEF DeletedInv
<1>2. ASSUME NEW c \in Channel, Message(c) PROVE DeletedInv'
  <2>1. UNCHANGED <<chan, uc, gone, contested, acts>>
    BY <1>2, MessageShape
  <2>2. QED
    BY <1>0, <2>1
<1>3. CASE BreakActs
  <2>1. UNCHANGED <<chan, uc, gone, contested>> /\ acts' = [u \in User |-> None]
    BY <1>3 DEF BreakActs, records, memberHistory
  <2>2. (\A u \in User, c \in Channel : ~Deleting(u, c)') /\ \A c \in Channel : Busy(c)' = {} /\ Members(c)' = Members(c)
    BY <2>1 DEF Deleting, Busy, Members, Active
  <2>3. QED
    BY <2>1, <2>2 DEF DeletedInv, DeletedAt
<1>4. CASE UNCHANGED memberVars
  <2>1. UNCHANGED <<chan, uc, gone, contested, acts>>
    BY <1>4 DEF memberVars, records, memberHistory
  <2>2. QED
    BY <1>0, <2>1
<1>5. QED
  BY <1>1, <1>2, <1>3, <1>4, Steps, BeginDeletes, CalmDeletes, DropDeletion, ChannelDeletion

-----------------------------------------------------------------------------
(* Creations *)

Making(u) == acts[u] # None /\ acts[u].op \in Creates

\* The channel of u's call is not there yet.
Unmade(u) == Making(u) /\ (acts[u].at # "tasks" \/ Head(acts[u].todo).do = "chan")

\* x deletes the account, and has to leave c yet.
Quits(x, c) == acts[x] # None /\ acts[x].op = "quit" /\ \E i \in DOMAIN acts[x].todo : acts[x].todo[i].key[2] = c

UnmadeAt(u, c) ==
  /\ chan[c] = Absent /\ c \notin gone /\ Busy(c) = {u}
  /\ \A x \in User : uc[<<x, c>>] = Absent /\ ~Quits(x, c)

\* A channel is created by one call, and nobody knows of it before it is there.
MakersInv ==
  /\ \A u, w \in User : Making(u) /\ Making(w) /\ acts[u].c = acts[w].c => u = w
  /\ \A u \in User, c \in Channel : Unmade(u) /\ acts[u].c = c => UnmadeAt(u, c)
  /\ \A u \in User : acts[u] # None /\ acts[u].op = "unnamed" => acts[u].c \in mixed

LEMMA MakingAt ==
  ASSUME MemberShape, NEW u \in User, Making(u)
  PROVE  acts[u].c \in used /\ acts[u].c \in Channel /\ acts[u].op # "quit"
BY CallAt DEF Making

\* A step at which nobody begins.
LEMMA WorkMakers ==
  ASSUME MemberShape, MakersInv, mixed \subseteq mixed',
         \A x \in User : acts'[x] # None => acts[x] # None /\ acts'[x].c = acts[x].c /\ acts'[x].op = acts[x].op,
         \A x \in User : Unmade(x)' => Unmade(x),
         \A w \in User, c \in Channel : Unmade(w) /\ Unmade(w)' /\ acts[w].c = c =>
             /\ chan'[c] = chan[c] /\ (c \in gone' => c \in gone)
             /\ \A x \in User : uc'[<<x, c>>] = uc[<<x, c>>] /\ (Quits(x, c)' => Quits(x, c))
  PROVE  MakersInv'
<1>1. ASSUME NEW u \in User, NEW w \in User, Making(u)', Making(w)', acts'[u].c = acts'[w].c PROVE u = w
  BY <1>1 DEF MakersInv, Making
<1>2. ASSUME NEW u \in User, NEW c \in Channel, Unmade(u)', acts'[u].c = c PROVE UnmadeAt(u, c)'
  <2>1. Unmade(u) /\ acts'[u] # None /\ acts[u].c = c
    BY <1>2 DEF Unmade, Making
  <2>2. UnmadeAt(u, c)
    BY <2>1 DEF MakersInv
  <2>3. Busy(c)' \subseteq Busy(c) /\ u \in Busy(c)'
    BY <1>2, <2>1 DEF Busy
  <2>4. /\ chan'[c] = chan[c] /\ (c \in gone' => c \in gone)
        /\ \A x \in User : uc'[<<x, c>>] = uc[<<x, c>>] /\ (Quits(x, c)' => Quits(x, c))
    BY <1>2, <2>1
  <2>5. QED
    BY <2>2, <2>3, <2>4 DEF UnmadeAt
<1>3. ASSUME NEW u \in User, acts'[u] # None, acts'[u].op = "unnamed" PROVE acts'[u].c \in mixed'
  BY <1>3 DEF MakersInv
<1>4. QED
  BY <1>1, <1>2, <1>3 DEF MakersInv

LEMMA CalmMakers ==
  ASSUME MemberShape, MemberShape', MakersInv, NEW u \in User, Calm(u)
  PROVE  MakersInv'
<1>1. /\ UNCHANGED <<chan, uc, gone, mixed>> /\ acts[u] # None
  BY DEF Calm
<1>2. /\ \A x \in User : x # u => acts'[x] = acts[x]
      /\ \A x \in User : acts'[x] # None => acts[x] # None /\ acts'[x].c = acts[x].c /\ acts'[x].op = acts[x].op
      /\ acts'[u] # None => MovesOn(u, acts'[u])
  BY CalmCalls
<1>3. Unmade(u)' => Unmade(u)
  <2> DEFINE q == acts[u]  r == acts'[u]
  <2>1. SUFFICES ASSUME Unmade(u)' PROVE Unmade(u)
    OBVIOUS
  <2>2. r # None /\ q # None /\ q.op = r.op /\ r.op \in Creates /\ MovesOn(u, r)
    BY <1>2, <2>1 DEF Unmade, Making
  <2>3. CASE q.at # "tasks"
    BY <2>2, <2>3 DEF Unmade, Making
  <2>4. CASE q.at = "tasks"
    <3>1. r.at = q.at /\ r.todo = q.todo
      BY <2>2, <2>4 DEF MovesOn
    <3>2. QED
      BY <2>1, <2>2, <3>1 DEF Unmade, Making
  <2>5. QED
    BY <2>3, <2>4
<1>4. ASSUME NEW x \in User, NEW c \in Channel, chan[c] = Absent, Quits(x, c)' PROVE Quits(x, c)
  <2>1. CASE x # u
    BY <1>2, <1>4, <2>1 DEF Quits
  <2>2. CASE x = u
    <3> DEFINE q == acts[u]  r == acts'[u]
    <3>1. r # None /\ q # None /\ q.op = "quit" /\ MovesOn(u, r) /\ \E i \in DOMAIN r.todo : r.todo[i].key[2] = c
      BY <1>2, <1>4, <2>2 DEF Quits
    <3>2. PICK i \in DOMAIN r.todo : r.todo[i].key[2] = c
      BY <3>1
    <3> HIDE DEF r, q
    <3>3. CASE \A j \in DOMAIN r.todo : \E d \in Channel : chan[d] # Absent /\ r.todo[j] = Task("remove", u, d, "left")
      <4>1. PICK d \in Channel : chan[d] # Absent /\ r.todo[i] = Task("remove", u, d, "left")
        BY <3>2, <3>3
      <4>2. d = c
        BY <3>2, <4>1 DEF Task
      <4>3. QED
        BY <1>4, <4>1, <4>2
    <3>4. CASE r.todo = q.todo
      BY <2>2, <3>1, <3>4 DEF Quits, q
    <3>5. QED
      BY <3>1, <3>3, <3>4 DEF MovesOn, q
  <2>3. QED
    BY <2>1, <2>2
<1>5. \A w \in User, c \in Channel : Unmade(w) /\ acts[w].c = c => chan[c] = Absent
  BY DEF MakersInv, UnmadeAt
<1>6. \A x \in User : Unmade(x)' => Unmade(x)
  <2>1. \A x \in User : x # u => (Unmade(x)' => Unmade(x))
    BY <1>2 DEF Unmade, Making
  <2>2. QED
    BY <1>3, <2>1
<1>7. \A w \in User, c \in Channel : Unmade(w) /\ Unmade(w)' /\ acts[w].c = c =>
             /\ chan'[c] = chan[c] /\ (c \in gone' => c \in gone)
             /\ \A x \in User : uc'[<<x, c>>] = uc[<<x, c>>] /\ (Quits(x, c)' => Quits(x, c))
  BY <1>1, <1>4, <1>5
<1>8. QED
  BY <1>1, <1>2, <1>6, <1>7, WorkMakers

\* After a task a call has not its channel before it, and nothing more to leave.
LEMMA RestMakers ==
  ASSUME MemberShape, NEW u \in User, NEW fails, Working(u), Rest(u, fails)
  PROVE  /\ ~Unmade(u)' /\ \A x \in User : Unmade(x)' => Unmade(x)
         /\ \A x \in User, c \in Channel : Quits(x, c)' => Quits(x, c)
<1> DEFINE q == acts[u]  s == q.todo
<1>1. q # None /\ q.at = "tasks" /\ acts \in [User -> ActRecord \cup {None}]
  BY DEF Working, Before, MemberShape, ActsShape
<1>2. CASE acts' = [acts EXCEPT ![u] = None]
  BY <1>1, <1>2 DEF Unmade, Making, Quits
<1>3. CASE ~(acts' = [acts EXCEPT ![u] = None])
  <2>1. PICK r \in ActRecord :
          /\ acts' = [acts EXCEPT ![u] = r] /\ r.op = q.op /\ r.at = "tasks"
          /\ 2 \in DOMAIN s /\ Head(r.todo) = s[2]
          /\ \A i \in DOMAIN r.todo : i + 1 \in DOMAIN s /\ r.todo[i] = s[i + 1]
    BY <1>3, RestFacts
  <2>2. acts'[u] = r /\ \A x \in User : x # u => acts'[x] = acts[x]
    BY <1>1, <2>1
  <2>3. ~Unmade(u)'
    <3>1. OrderFits(u, q, 2)
      BY <1>1, <2>1, CallAt DEF CallFits, TodoFits
    <3>2. q.op \in Creates => s[2].do # "chan"
      BY <3>1 DEF OrderFits
    <3>3. QED
      BY <2>1, <2>2, <3>2 DEF Unmade, Making
  <2>4. \A c \in Channel : Quits(u, c)' => Quits(u, c)
    BY <1>1, <2>1, <2>2 DEF Quits
  <2>5. QED
    BY <2>2, <2>3, <2>4 DEF Unmade, Making, Quits
<1>4. QED
  BY <1>2, <1>3

LEMMA WriteMakers ==
  ASSUME MemberShape, MakersInv, NEW u \in User, WriteBack(u) \/ WriteMember(u) \/ WriteChannel(u)
  PROVE  MakersInv'
<1> DEFINE q == acts[u]  t == Head(q.todo)
<1>1. Working(u) /\ \E fails : Rest(u, fails)
  BY Zenon DEF WriteBack, WriteMember, WriteChannel
<1>2. PICK fails : Rest(u, fails)
  BY <1>1
<1>3. /\ q # None /\ q.at = "tasks" /\ TaskFits(u, q, used, t) /\ t.key \in Key /\ t = q.todo[1] /\ 1 \in DOMAIN q.todo
      /\ IF q.op = "quit" THEN t.key[1] = u ELSE t.key[2] = q.c
  BY <1>1, HeadFits
<1>4. ASSUME NEW w \in User, NEW c \in Channel, Unmade(w), Unmade(w)', acts[w].c = c
      PROVE  /\ t.key[2] # c /\ (q.op # "quit" => q.c # c)
  <2>1. w # u
    BY <1>1, <1>2, <1>4, RestMakers
  <2>2. UnmadeAt(w, c)
    BY <1>4 DEF MakersInv
  <2>3. q.c # c
    BY <1>3, <2>1, <2>2 DEF UnmadeAt, Busy
  <2>4. ~Quits(u, c)
    BY <2>2 DEF UnmadeAt
  <2>5. q.op = "quit" => t.key[2] # c
    BY <1>3, <2>4 DEF Quits
  <2>6. QED
    BY <1>3, <2>3, <2>5
<1>5. ASSUME NEW c \in Channel, NEW x \in User, t.key[2] # c PROVE uc'[<<x, c>>] = uc[<<x, c>>]
  <2>1. CASE uc' = uc
    BY <2>1
  <2>2. CASE \E k \in Key : k = t.key /\ \E n \in Membership \cup {Absent} : uc' = [uc EXCEPT ![k] = n]
    <3>1. PICK k \in Key, n \in Membership \cup {Absent} : k = t.key /\ uc' = [uc EXCEPT ![k] = n]
      BY <2>2
    <3>2. k[2] # c /\ <<x, c>> # k
      BY <1>5, <3>1
    <3>3. QED
      BY <3>1, <3>2, WrittenMembers
  <2>3. CASE WriteBack(u)
    BY <2>1, <2>2, <2>3, WriteBackFacts
  <2>4. CASE WriteMember(u)
    BY <2>1, <2>2, <2>4, WriteMemberFacts
  <2>5. CASE WriteChannel(u)
    BY <2>1, <2>5, WriteChannelFacts
  <2>6. QED
    BY <2>3, <2>4, <2>5
<1>6. ASSUME NEW c \in Channel, q.op # "quit" => q.c # c PROVE chan'[c] = chan[c] /\ (c \in gone' => c \in gone)
  <2>1. CASE WriteBack(u)
    BY <2>1, WriteBackFacts
  <2>2. CASE WriteMember(u)
    BY <2>2, WriteMemberFacts
  <2>3. CASE WriteChannel(u)
    <3>1. /\ q.op # "quit" /\ chan' = [chan EXCEPT ![q.c] = t.val]
          /\ gone' = IF t.val = Absent THEN gone \cup {q.c} ELSE gone
      BY <2>3, WriteChannelFacts
    <3>2. QED
      BY <1>6, <3>1 DEF MemberShape, RecordShape
  <2>4. QED
    BY <2>1, <2>2, <2>3
<1>7. \A w \in User, c \in Channel : Unmade(w) /\ Unmade(w)' /\ acts[w].c = c =>
             /\ chan'[c] = chan[c] /\ (c \in gone' => c \in gone)
             /\ \A x \in User : uc'[<<x, c>>] = uc[<<x, c>>] /\ (Quits(x, c)' => Quits(x, c))
  BY <1>1, <1>2, <1>4, <1>5, <1>6, RestMakers
<1>8. \A x \in User : acts'[x] # None => acts[x] # None /\ acts'[x].c = acts[x].c /\ acts'[x].op = acts[x].op
  BY <1>1, <1>2, RestCalls
<1>9. \A x \in User : Unmade(x)' => Unmade(x)
  BY <1>1, <1>2, RestMakers
<1>10. mixed \subseteq mixed'
  BY WriteBackFacts, WriteMemberFacts, WriteChannelFacts
<1>11. QED
  BY <1>7, <1>8, <1>9, <1>10, WorkMakers

LEMMA BeginMakers ==
  ASSUME MemberShape, MakersInv, NEW u \in User,
         \/ \E v \in User, op \in Op, c \in Channel : Begin(u, op, v, c) \/ BeginCreation(u, v, op, c)
         \/ BeginQuit(u)
  PROVE  MakersInv'
<1>1. acts \in [User -> ActRecord \cup {None}]
  BY DEF MemberShape, ActsShape
<1>2. ASSUME NEW r, acts[u] = None, acts' = [acts EXCEPT ![u] = r], UNCHANGED <<chan, uc, gone, mixed>>,
             r.op \notin Creates, DOMAIN r.todo = {} \/ r.op # "quit",
             r.c \in Channel => chan[r.c] # Absent \/ r.c \in gone
      PROVE  MakersInv'
  <2>1. acts'[u] = r /\ \A x \in User : x # u => acts'[x] = acts[x]
    BY <1>1, <1>2
  <2>2. \A x \in User : (Making(x)' => Making(x) /\ x # u) /\ (Unmade(x)' => Unmade(x) /\ x # u)
    BY <1>2, <2>1 DEF Making, Unmade
  <2>3. \A x \in User, c \in Channel : Quits(x, c)' => Quits(x, c)
    BY <1>2, <2>1 DEF Quits
  <2>4. ASSUME NEW w \in User, NEW c \in Channel, Unmade(w)', acts'[w].c = c PROVE UnmadeAt(w, c)'
    <3>1. Unmade(w) /\ w # u /\ acts[w].c = c
      BY <2>1, <2>2, <2>4
    <3>2. UnmadeAt(w, c)
      BY <3>1 DEF MakersInv
    <3>3. r.c # c
      BY <1>2, <3>2 DEF UnmadeAt
    <3>4. Busy(c)' = Busy(c)
      BY <1>2, <2>1, <3>3 DEF Busy
    <3>5. QED
      BY <1>2, <2>3, <3>2, <3>4 DEF UnmadeAt
  <2>5. \A x, w \in User : Making(x)' /\ Making(w)' /\ acts'[x].c = acts'[w].c => x = w
    BY <2>1, <2>2 DEF MakersInv
  <2>6. ASSUME NEW x \in User, acts'[x] # None, acts'[x].op = "unnamed" PROVE acts'[x].c \in mixed'
    BY <1>2, <2>1, <2>6 DEF MakersInv
  <2>7. QED
    BY <2>4, <2>5, <2>6 DEF MakersInv
<1>3. ASSUME NEW v \in User, NEW op \in Op, NEW c \in Channel, Begin(u, op, v, c) PROVE MakersInv'
  <2> DEFINE r == [op |-> op, to |-> v, c |-> c, held |-> None, rank |-> RoleMember,
                   at |-> CASE op = "join" -> "link" [] op = "receipt" -> "tasks" [] OTHER -> "member",
                   todo |-> IF op = "receipt" THEN TasksOf(op, u, v, c) ELSE <<>>,
                   barred |-> <<v, u>> \in barred]
  <2>1. /\ acts[u] = None /\ acts' = [acts EXCEPT ![u] = r] /\ UNCHANGED <<chan, uc, gone, mixed>>
        /\ op \notin Creates \cup {"quit"} /\ (chan[c] # Absent \/ c \in gone)
    BY <1>3 DEF Begin, records
  <2>2. r.c = c /\ r.op = op
    OBVIOUS
  <2> HIDE DEF r
  <2>3. QED
    BY <1>2, <2>1, <2>2
<1>4. CASE BeginQuit(u)
  <2> DEFINE r == [op |-> "quit", to |-> u, c |-> Absent, held |-> None, rank |-> RoleMember,
                   at |-> "groups", todo |-> <<>>, barred |-> FALSE]
  <2>1. /\ acts[u] = None /\ acts' = [acts EXCEPT ![u] = r] /\ UNCHANGED <<chan, uc, gone, mixed>>
    BY <1>4 DEF BeginQuit, records, memberHistory
  <2>2. r.c \notin Channel /\ r.op = "quit" /\ DOMAIN r.todo = {}
    OBVIOUS
  <2> HIDE DEF r
  <2>3. QED
    BY <1>2, <2>1, <2>2
<1>5. ASSUME NEW v \in User, NEW op \in Op, NEW c \in Channel, BeginCreation(u, v, op, c) PROVE MakersInv'
  <2> DEFINE r == [op |-> op, to |-> v, c |-> c, held |-> None, rank |-> RoleOwner,
                   at |-> IF op = "dm" THEN "look" ELSE IF v # u THEN "ask" ELSE "tasks",
                   todo |-> IF v # u THEN <<>> ELSE Creation(u, {}, c, op),
                   barred |-> <<v, u>> \in barred]
  <2>1. /\ acts[u] = None /\ acts' = [acts EXCEPT ![u] = r] /\ UNCHANGED <<chan, uc, gone>>
        /\ op \in Creates /\ c \notin used /\ mixed \subseteq mixed' /\ (op = "unnamed" => c \in mixed')
    BY <1>5 DEF BeginCreation, IsNext
  <2>2. r.c = c /\ r.op = op
    OBVIOUS
  <2> HIDE DEF r
  <2>3. acts'[u] = r /\ \A x \in User : x # u => acts'[x] = acts[x]
    BY <1>1, <2>1
  <2>4. \A w \in User : acts[w] # None /\ acts[w].c = c => FALSE
    BY <2>1, CallAt DEF MemberShape, ActsShape, CallFits, PlaceFits
  <2>5. chan[c] = Absent /\ c \notin gone /\ \A x \in User : uc[<<x, c>>] = Absent
    BY <2>1 DEF MemberShape, RecordShape, Key
  <2>6. \A x \in User, d \in Channel : Quits(x, d)' => Quits(x, d)
    BY <2>1, <2>2, <2>3 DEF Quits
  <2>7. ASSUME NEW x \in User PROVE ~Quits(x, c)
    <3>1. SUFFICES ASSUME acts[x] # None, acts[x].op = "quit", NEW i \in DOMAIN acts[x].todo, acts[x].todo[i].key[2] = c
                   PROVE  FALSE
      BY DEF Quits
    <3> DEFINE t == acts[x].todo[i]
    <3>2. TaskFits(x, acts[x], used, t)
      BY <3>1, CallAt DEF CallFits, TodoFits
    <3>3. t.key[2] = c
      BY <3>1
    <3> HIDE DEF t
    <3>4. t.key[2] \in used
      BY <3>1, <3>2 DEF TaskFits, Task
    <3>5. QED
      BY <2>1, <3>3, <3>4
  <2>8. ASSUME NEW w \in User, NEW d \in Channel, Unmade(w)', acts'[w].c = d PROVE UnmadeAt(w, d)'
    <3>1. CASE w = u
      <4>1. d = c
        BY <2>2, <2>3, <2>8, <3>1
      <4>2. Busy(c)' = {u}
        BY <2>2, <2>3, <2>4, <2>8, <3>1 DEF Busy, Unmade, Making
      <4>3. QED
        BY <2>1, <2>5, <2>6, <2>7, <3>1, <4>1, <4>2 DEF UnmadeAt
    <3>2. CASE w # u
      <4>1. Unmade(w) /\ acts[w].c = d /\ d # c
        BY <2>3, <2>4, <2>8, <3>2 DEF Unmade, Making
      <4>2. UnmadeAt(w, d)
        BY <4>1 DEF MakersInv
      <4>3. Busy(d)' = Busy(d)
        BY <2>1, <2>2, <2>3, <4>1 DEF Busy
      <4>4. QED
        BY <2>1, <2>6, <4>2, <4>3 DEF UnmadeAt
    <3>3. QED
      BY <3>1, <3>2
  <2>9. \A x, w \in User : Making(x)' /\ Making(w)' /\ acts'[x].c = acts'[w].c => x = w
    <3>1. \A x \in User : Making(x)' /\ x # u => Making(x) /\ acts'[x].c = acts[x].c /\ acts[x].c # c
      BY <2>3, <2>4 DEF Making
    <3>2. acts'[u].c = c
      BY <2>2, <2>3
    <3>3. QED
      BY <3>1, <3>2 DEF MakersInv
  <2>10. ASSUME NEW x \in User, acts'[x] # None, acts'[x].op = "unnamed" PROVE acts'[x].c \in mixed'
    BY <2>1, <2>2, <2>3, <2>10 DEF MakersInv
  <2>11. QED
    BY <2>8, <2>9, <2>10 DEF MakersInv
<1>6. QED
  BY <1>3, <1>4, <1>5

LEMMA MakersStep ==
  ASSUME MemberShape, MemberShape', BarInv, MakersInv,
         MembershipCall \/ MembershipWork \/ BreakActs \/ UNCHANGED memberVars
  PROVE  MakersInv'
<1>1. CASE UNCHANGED <<chan, uc, gone, mixed, acts>>
  BY <1>1 DEF MakersInv, UnmadeAt, Unmade, Making, Quits, Busy
<1>2. ASSUME NEW c \in Channel, Message(c) PROVE MakersInv'
  BY <1>1, <1>2, MessageShape
<1>3. CASE BreakActs
  <2>1. acts' = [u \in User |-> None]
    BY <1>3 DEF BreakActs
  <2>2. \A u \in User : acts'[u] = None /\ ~Making(u)' /\ ~Unmade(u)'
    BY <2>1 DEF Making, Unmade
  <2>3. QED
    BY <2>2 DEF MakersInv
<1>4. CASE UNCHANGED memberVars
  BY <1>1, <1>4 DEF memberVars, records, memberHistory
<1>5. QED
  BY <1>2, <1>3, <1>4, Steps, BeginMakers, CalmMakers, WriteMakers

-----------------------------------------------------------------------------
(* Conversations *)

\* A conversation begun for two that no crash, deletion or uninvited guest spoilt.
Sound(c) == chan[c] = "dm" /\ c \notin halfway \cup contested \cup mixed

Together(u, v, c) == Sound(c) /\ Active(u, c) /\ Active(v, c)

PairAt(c) == \E a, b \in User : Members(c) \subseteq {a, b}

\* x creates c, and will lose the rank of owner.
OwnsStill(x, c) ==
  /\ acts[x] # None /\ acts[x].op = "dm" /\ acts[x].c = c
  /\ \E i \in DOMAIN acts[x].todo : acts[x].todo[i] = Task("admit", x, c, RoleMember)

\* Nobody has a rank there but who creates it, who loses it again.
RolesAt(c) ==
  \A x \in User : uc[<<x, c>>] # Absent /\ uc[<<x, c>>].role # RoleMember => OwnsStill(x, c)

\* A call at c brings nobody there but the two it is created for.
MayCall(x, c) ==
  acts[x] # None /\ acts[x].c = c =>
    /\ acts[x].op \in {"dm", "join", "leave", "delete", "clear", "receipt"} \/ acts[x].at \in {"member", "actor"}
    /\ acts[x].op = "dm" => Members(c) \subseteq {x, acts[x].to}

\* The record of c that x writes back makes nobody active there again.
HeldFits(x, c) ==
  acts[x] # None /\ acts[x].held # None =>
    LET task == Head(acts[x].todo)  held == acts[x].held IN
      task.key[2] = c /\ task.do # "admit" =>
        /\ held # Absent => held.role = RoleMember
        /\ task.do \in {"receipt", "clear"} /\ held # Absent /\ held.status = "active" => Active(x, c)

DmFits(c) == PairAt(c) /\ RolesAt(c) /\ \A x \in User : MayCall(x, c) /\ HeldFits(x, c)

DmInv == \A c \in Channel : Sound(c) => DmFits(c)

\* Who creates conversations with each other at once is known to.
Mutual ==
  \A u, v \in User :
    (/\ acts[u] # None /\ acts[u].op = "dm" /\ acts[u].to = v
     /\ acts[v] # None /\ acts[v].op = "dm" /\ acts[v].to = u) => {u, v} \in doubled

\* Two users have one sound conversation.
OnePair ==
  \A u, v \in User, c, d \in Channel :
    c # d /\ u # v /\ Together(u, v, c) /\ Together(u, v, d) => {u, v} \in doubled

\* A call that found none, or one that was hidden, creates the only one.
OneNew ==
  \A u, v \in User, d \in Channel :
    (/\ acts[u] # None /\ acts[u].op = "dm" /\ acts[u].at \in {"ask", "tasks"} /\ acts[u].c # d
     /\ acts[u].to = v /\ Together(u, v, d)) => {u, v} \in doubled

OneInv == DmInv /\ Mutual /\ OnePair /\ OneNew

\* What keeps a conversation as it is.
LEMMA KeepsDm ==
  ASSUME NEW c \in Channel, DmFits(c), \A x \in User : uc'[<<x, c>>] = uc[<<x, c>>],
         \A x \in User : OwnsStill(x, c) => OwnsStill(x, c)', \A x \in User : MayCall(x, c)' /\ HeldFits(x, c)'
  PROVE  DmFits(c)' /\ Members(c)' = Members(c) /\ \A x \in User : Active(x, c)' <=> Active(x, c)
<1>1. (\A x \in User : Active(x, c)' <=> Active(x, c)) /\ Members(c)' = Members(c)
  BY DEF Active, Members
<1>2. PairAt(c)'
  BY <1>1 DEF PairAt, DmFits
<1>3. RolesAt(c)'
  BY DEF RolesAt, DmFits
<1>4. QED
  BY <1>1, <1>2, <1>3 DEF DmFits

\* The beginning of a call.
LEMMA BeginDm ==
  ASSUME MemberShape, NEW u \in User, NEW r, acts[u] = None, acts' = [acts EXCEPT ![u] = r], r.held = None,
         UNCHANGED uc, NEW c \in Channel, DmFits(c),
         r.c = c => r.op \in {"join", "receipt"} \/ (r.op # "dm" /\ r.at = "member")
  PROVE  DmFits(c)'
<1>1. acts'[u] = r /\ \A x \in User : x # u => acts'[x] = acts[x]
  BY DEF MemberShape, ActsShape
<1>2. \A x \in User : Active(x, c)' <=> Active(x, c)
  BY DEF Active
<1>3. Members(c)' = Members(c)
  BY <1>2 DEF Members
<1>4. ASSUME NEW x \in User PROVE MayCall(x, c)' /\ HeldFits(x, c)'
  <2>1. CASE x = u
    BY <1>1, <2>1 DEF MayCall, HeldFits
  <2>2. CASE x # u
    BY <1>1, <1>2, <1>3, <2>2 DEF MayCall, HeldFits, DmFits
  <2>3. QED
    BY <2>1, <2>2
<1>5. \A x \in User : OwnsStill(x, c) => OwnsStill(x, c)'
  BY <1>1 DEF OwnsStill
<1>6. QED
  BY <1>4, <1>5, KeepsDm

LEMMA CalmDm ==
  ASSUME MemberShape, MemberShape', NEW u \in User, Calm(u), NEW c \in Channel, DmFits(c)
  PROVE  DmFits(c)'
<1> DEFINE q == acts[u]  r == acts'[u]
<1>1. UNCHANGED <<chan, uc, used>> /\ q # None
  BY DEF Calm
<1>2. /\ \A x \in User : x # u => acts'[x] = acts[x]
      /\ r # None => MovesOn(u, r) /\ r.c = q.c /\ r.op = q.op /\ r.to = q.to
      /\ r = None => q.at # "tasks"
  BY CalmCalls
<1>3. (\A x \in User : Active(x, c)' <=> Active(x, c)) /\ Members(c)' = Members(c)
  BY <1>1 DEF Active, Members
<1>4. MayCall(u, c)'
  <2>1. SUFFICES ASSUME r # None, r.c = c
                 PROVE  /\ r.op \in {"dm", "join", "leave", "delete", "clear", "receipt"} \/ r.at \in {"member", "actor"}
                        /\ r.op = "dm" => Members(c) \subseteq {u, r.to}
    BY <1>1, <1>3 DEF MayCall
  <2>2. MayCall(u, c)
    BY DEF DmFits
  <2>3. CASE q.op \in {"dm", "join", "leave", "delete", "clear", "receipt"}
    BY <1>1, <1>2, <2>1, <2>2, <2>3 DEF MayCall
  <2>4. CASE q.op \notin {"dm", "join", "leave", "delete", "clear", "receipt"}
    <3>1. q.at \in {"member", "actor"}
      BY <1>1, <1>2, <2>1, <2>2, <2>4 DEF MayCall
    <3>2. q.op \in {"add", "rename"} \cup Manages
      BY <1>1, <2>4, <3>1, CallAt DEF PlaceOf
    <3>3. ~(uc[<<u, c>>] # Absent /\ uc[<<u, c>>].role # RoleMember)
      BY <3>2 DEF DmFits, RolesAt, OwnsStill
    <3>4. r.at = "actor"
      <4> HIDE DEF q, r
      <4>1. QED
        BY <1>2, <2>1, <3>1, <3>2, <3>3 DEF MovesOn, q
    <3>5. QED
      BY <1>2, <2>1, <2>4, <3>4
  <2>5. QED
    BY <2>3, <2>4
<1>5. HeldFits(u, c)'
  <2> DEFINE t == Head(q.todo)
  <2>1. CASE r = None \/ r.held = None
    BY <2>1 DEF HeldFits
  <2>2. CASE r # None /\ r.held # None
    <3>1. r.at = q.at /\ r.todo = q.todo /\ q.at = "tasks" /\ q.todo # <<>> /\ t.do \in Rereads /\ r.held = uc[t.key]
      BY <1>2, <2>2 DEF MovesOn
    <3>2. Working(u)
      BY <1>1, <3>1 DEF Working, Before
    <3>3. /\ TaskFits(u, q, used, t) /\ t.key = <<t.key[1], t.key[2]>> /\ t.key[1] \in User
          /\ IF q.op = "quit" THEN t.key[1] = u ELSE t.key[2] = q.c
      BY <3>2, HeadFits
    <3>4. CASE ~(t.key[2] = c /\ t.do # "admit")
      BY <3>1, <3>4 DEF HeldFits
    <3>5. CASE t.key[2] = c /\ t.do # "admit"
      <4>1. q.op # "dm" /\ (q.op # "quit" => q.op \in {"leave", "clear", "receipt"})
        <5>1. q.op # "dm"
          <6> HIDE DEF t, q
          <6>1. QED
            BY <3>1, <3>3, <3>5 DEF TaskFits, Task, Rereads
        <5>2. q.op # "quit" => q.op \in {"dm", "join", "leave", "delete", "clear", "receipt"}
          BY <1>1, <3>1, <3>3, <3>5 DEF DmFits, MayCall
        <5>3. q.op \notin {"delete", "join"}
          <6> HIDE DEF t, q
          <6>1. QED
            BY <3>1, <3>3, <3>5 DEF TaskFits, Task, Rereads
        <5>4. QED
          BY <5>1, <5>2, <5>3
      <4>2. t.key[1] = u /\ (t.do = "receipt" => q.op = "receipt")
        <5> HIDE DEF t, q
        <5>1. QED
          BY <3>1, <3>3, <3>5, <4>1 DEF TaskFits, Task, Rereads
      <4>3. t.key = <<u, c>> /\ r.held = uc[<<u, c>>]
        BY <3>1, <3>3, <3>5, <4>2
      <4>4. uc[<<u, c>>] # Absent => uc[<<u, c>>].role = RoleMember
        BY <4>1 DEF DmFits, RolesAt, OwnsStill
      <4>5. uc[<<u, c>>] # Absent /\ uc[<<u, c>>].status = "active" => Active(u, c)'
        BY <1>1 DEF Active
      <4>6. QED
        BY <3>1, <4>3, <4>4, <4>5 DEF HeldFits
    <3>6. QED
      BY <3>4, <3>5
  <2>3. QED
    BY <2>1, <2>2
<1>6. ASSUME NEW x \in User, OwnsStill(x, c) PROVE OwnsStill(x, c)'
  <2>1. CASE x # u
    BY <1>2, <1>6, <2>1 DEF OwnsStill
  <2>2. CASE x = u
    <3>1. q.op = "dm" /\ q.c = c /\ q.todo # <<>>
      BY <1>6, <2>2 DEF OwnsStill
    <3>2. q.at = "tasks"
      BY <1>1, <3>1, CallAt
    <3>3. r # None /\ r.todo = q.todo
      BY <1>2, <3>2 DEF MovesOn
    <3>4. QED
      BY <1>2, <1>6, <2>2, <3>3 DEF OwnsStill
  <2>3. QED
    BY <2>1, <2>2
<1>7. ASSUME NEW x \in User PROVE MayCall(x, c)' /\ HeldFits(x, c)'
  <2>1. CASE x = u
    BY <1>4, <1>5, <2>1
  <2>2. CASE x # u
    BY <1>1, <1>2, <1>3, <2>2 DEF MayCall, HeldFits, DmFits
  <2>3. QED
    BY <2>1, <2>2
<1>8. QED
  BY <1>1, <1>6, <1>7, KeepsDm

\* A call that holds a record is at a task there.
LEMMA HoldsAt ==
  ASSUME MemberShape, NEW x \in User, acts[x] # None, acts[x].held # None
  PROVE  LET t == Head(acts[x].todo) IN
           /\ t = acts[x].todo[1] /\ 1 \in DOMAIN acts[x].todo
           /\ IF acts[x].op = "quit" THEN t.do = "remove" /\ t.key[1] = x ELSE t.key[2] = acts[x].c
<1> DEFINE q == acts[x]  t == Head(q.todo)
<1>1. Working(x)
  BY CallAt DEF Working, Before
<1>2. /\ TaskFits(x, q, used, t) /\ t = q.todo[1] /\ 1 \in DOMAIN q.todo
      /\ IF q.op = "quit" THEN t.key[1] = x ELSE t.key[2] = q.c
  BY <1>1, HeadFits
<1> HIDE DEF t, q
<1>3. q.op = "quit" => t.do = "remove"
  <2>1. TaskFits(x, q, used, t)
    BY <1>2
  <2>2. q.op = "quit" => \E d \in used : t = Task("remove", x, d, "left")
    BY <2>1 DEF TaskFits
  <2>3. QED
    BY <2>2 DEF Task
<1>4. QED
  BY <1>2, <1>3 DEF t, q

\* Who has his own rank still to lose, after another task.
LEMMA OwnsRest ==
  ASSUME MemberShape, NEW u \in User, Working(u), Rest(u, FALSE), NEW c \in Channel,
         acts[u].op = "dm", acts[u].c = c,
         NEW i \in DOMAIN acts[u].todo, i # 1, acts[u].todo[i] = Task("admit", u, c, RoleMember)
  PROVE  OwnsStill(u, c)'
<1> DEFINE q == acts[u]  s == q.todo
<1>1. s \in Seq(AnyTask) /\ acts \in [User -> ActRecord \cup {None}]
  BY HeadFits DEF MemberShape, ActsShape
<1>2. DOMAIN s # {1}
  OBVIOUS
<1>3. PICK r \in ActRecord :
        /\ acts' = [acts EXCEPT ![u] = r] /\ r.op = q.op /\ r.to = q.to /\ r.c = q.c
        /\ \A k \in DOMAIN s : k # 1 => \E j \in DOMAIN r.todo : r.todo[j] = s[k]
  BY <1>2, RestFacts
<1>4. acts'[u] = r /\ r # None
  BY <1>1, <1>3, ActAssumption
<1>5. QED
  BY <1>3, <1>4 DEF OwnsStill

LEMMA WrittenDm ==
  ASSUME MemberShape, MakersInv, NEW u \in User, Working(u), Rest(u, FALSE), NEW c \in Channel, DmFits(c),
         NEW y \in User, NEW n \in Membership \cup {Absent}, Head(acts[u].todo).key = <<y, c>>,
         uc' = [uc EXCEPT ![<<y, c>>] = n],
         (n # Absent /\ n.status = "active") =>
            Active(y, c) \/ (acts[u].op = "dm" /\ acts[u].c = c /\ y \in {u, acts[u].to}),
         (n # Absent /\ n.role # RoleMember) => y = u /\ OwnsStill(u, c)',
         n = Absent => Busy(c) = {u},
         y = u \/ (n # Absent /\ n.status = "active") \/ Busy(c) = {u}
  PROVE  DmFits(c)'
<1> DEFINE q == acts[u]  r == acts'[u]  now == n # Absent /\ n.status = "active"
<1>1. /\ q # None /\ q.at = "tasks" /\ Head(q.todo) = q.todo[1]
      /\ q.op # "quit" => q.c = c
  BY HeadFits
<1>2. /\ <<y, c>> \in Key /\ uc'[<<y, c>>] = n
      /\ \A x \in User : x # y => uc'[<<x, c>>] = uc[<<x, c>>] /\ (Active(x, c)' <=> Active(x, c))
      /\ Active(y, c)' <=> now
      /\ Members(c)' = IF now THEN Members(c) \cup {y} ELSE Members(c) \ {y}
  <2>1. PICK k \in Key : k = <<y, c>>
    BY DEF Key
  <2>2. /\ uc' = [uc EXCEPT ![k] = n] /\ k[1] = y /\ k[2] = c
    BY <2>1
  <2>3. /\ \A v \in User, d \in Channel : <<v, d>> # k => (Active(v, d)' <=> Active(v, d)) /\ uc'[<<v, d>>] = uc[<<v, d>>]
        /\ Active(k[1], k[2])' <=> n # Absent /\ n.status = "active"
        /\ uc'[k] = n
        /\ Members(k[2])' = IF n # Absent /\ n.status = "active" THEN Members(k[2]) \cup {k[1]}
                                                                 ELSE Members(k[2]) \ {k[1]}
    BY <2>2, WrittenMembers
  <2>4. \A x \in User : x # y => <<x, c>> # k
    BY <2>1
  <2>5. /\ \A v \in User : <<v, c>> # k => (Active(v, c)' <=> Active(v, c)) /\ uc'[<<v, c>>] = uc[<<v, c>>]
        /\ Active(y, c)' <=> now
        /\ Members(c)' = IF now THEN Members(c) \cup {y} ELSE Members(c) \ {y}
    BY <2>2, <2>3
  <2>6. QED
    BY <2>1, <2>3, <2>4, <2>5
<1>3. /\ \A x \in User : x # u => acts'[x] = acts[x]
      /\ r # None => r.c = q.c /\ r.op = q.op /\ r.to = q.to /\ r.held = None
  <2>1. r # None => r.c = q.c /\ r.op = q.op /\ r.to = q.to
    BY RestCalls
  <2>2. r # None => r.held = None
    BY RestFacts DEF MemberShape, ActsShape
  <2>3. QED
    BY <2>1, <2>2, RestCalls
<1>4. now /\ ~Active(y, c) => q.op = "dm" /\ q.c = c /\ y \in {u, q.to} /\ Members(c) \subseteq {u, q.to}
  BY <1>1 DEF DmFits, MayCall
<1>5. (now => Active(y, c)) => Members(c)' \subseteq Members(c)
  BY <1>2 DEF Members
<1>6. PairAt(c)'
  <2>1. CASE now /\ ~Active(y, c)
    <3>1. Members(c)' \subseteq {u, q.to} /\ q.to \in User
      BY <1>1, <1>2, <1>4, <2>1, CallAt
    <3>2. QED
      BY <3>1 DEF PairAt
  <2>2. CASE now => Active(y, c)
    BY <1>5, <2>2 DEF DmFits, PairAt
  <2>3. QED
    BY <2>1, <2>2
<1>7. RolesAt(c)'
  <2>1. ASSUME NEW x \in User, uc'[<<x, c>>] # Absent, uc'[<<x, c>>].role # RoleMember
        PROVE  OwnsStill(x, c)'
    <3>1. CASE x = y
      BY <1>2, <2>1, <3>1
    <3>2. CASE x # y /\ x # u
      <4>1. OwnsStill(x, c)
        BY <1>2, <2>1, <3>2 DEF DmFits, RolesAt
      <4>2. QED
        BY <1>3, <3>2, <4>1 DEF OwnsStill
    <3>3. CASE x # y /\ x = u
      <4>1. OwnsStill(u, c)
        BY <1>2, <2>1, <3>3 DEF DmFits, RolesAt
      <4>2. PICK i \in DOMAIN q.todo : q.todo[i] = Task("admit", u, c, RoleMember)
        BY <4>1 DEF OwnsStill
      <4>3. i # 1
        BY <1>1, <3>3, <4>2 DEF Task
      <4>4. q.op = "dm" /\ q.c = c
        BY <4>1 DEF OwnsStill
      <4>5. QED
        BY <3>3, <4>2, <4>3, <4>4, OwnsRest
    <3>4. QED
      BY <3>1, <3>2, <3>3
  <2>2. QED
    BY <2>1 DEF RolesAt
<1>8. ASSUME NEW x \in User PROVE MayCall(x, c)'
  <2>1. SUFFICES ASSUME acts'[x] # None, acts'[x].c = c
                 PROVE  /\ acts'[x].op \in {"dm", "join", "leave", "delete", "clear", "receipt"} \/ acts'[x].at \in {"member", "actor"}
                        /\ acts'[x].op = "dm" => Members(c)' \subseteq {x, acts'[x].to}
    BY DEF MayCall
  <2>2. MayCall(x, c)
    BY DEF DmFits
  <2>3. CASE x = u
    <3>1. q.c = c /\ r.op = q.op /\ r.to = q.to
      BY <1>3, <2>1, <2>3
    <3>2. q.op \in {"dm", "join", "leave", "delete", "clear", "receipt"}
      BY <1>1, <2>2, <2>3, <3>1 DEF MayCall
    <3>3. q.op = "dm" => Members(c)' \subseteq {u, q.to}
      <4>1. q.op = "dm" => Members(c) \subseteq {u, q.to}
        BY <1>1, <2>2, <2>3, <3>1 DEF MayCall
      <4>2. QED
        BY <1>2, <1>4, <1>5, <4>1
    <3>4. QED
      BY <2>3, <3>1, <3>2, <3>3
  <2>4. CASE x # u
    <3>1. acts'[x] = acts[x] /\ x \in Busy(c)
      BY <1>3, <2>1, <2>4 DEF Busy
    <3>2. n # Absent
      BY <2>4, <3>1
    <3>3. acts[x].op = "dm" => Members(c)' \subseteq {x, acts[x].to}
      <4>1. ASSUME acts[x].op = "dm" PROVE now => Active(y, c)
        <5>1. SUFFICES ASSUME now, ~Active(y, c) PROVE FALSE
          OBVIOUS
        <5>2. Making(x) /\ Making(u) /\ acts[x].c = acts[u].c
          BY <1>1, <1>4, <2>1, <3>1, <4>1, <5>1 DEF Making
        <5>3. QED
          BY <2>4, <5>2 DEF MakersInv
      <4>2. QED
        BY <1>5, <2>1, <2>2, <3>1, <4>1 DEF MayCall
    <3>4. QED
      BY <2>1, <2>2, <3>1, <3>3 DEF MayCall
  <2>5. QED
    BY <2>3, <2>4
<1>9. ASSUME NEW x \in User PROVE HeldFits(x, c)'
  <2>1. CASE x = u
    BY <1>3, <2>1 DEF HeldFits
  <2>2. CASE x # u
    <3>1. HeldFits(x, c) /\ acts'[x] = acts[x]
      BY <1>3, <2>2 DEF DmFits
    <3>2. ASSUME acts[x] # None, acts[x].held # None, Head(acts[x].todo).key[2] = c,
                 Head(acts[x].todo).do \in {"receipt", "clear"}, Active(x, c)
          PROVE  Active(x, c)'
      <4>1. acts[x].c = c
        BY <3>2, HoldsAt
      <4>2. x \in Busy(c)
        BY <3>2, <4>1 DEF Busy
      <4>3. QED
        BY <1>2, <2>2, <3>2, <4>2
    <3>3. QED
      BY <3>1, <3>2 DEF HeldFits
  <2>3. QED
    BY <2>1, <2>2
<1>10. QED
  BY <1>6, <1>7, <1>8, <1>9 DEF DmFits

\* A task elsewhere.
LEMMA OtherDm ==
  ASSUME MemberShape, NEW u \in User, Working(u), NEW fails, Rest(u, fails), NEW c \in Channel, DmFits(c),
         \A x \in User : uc'[<<x, c>>] = uc[<<x, c>>], acts[u].c # c \/ (fails /\ acts[u].op # "dm")
  PROVE  DmFits(c)'
<1> DEFINE q == acts[u]  r == acts'[u]
<1>1. /\ \A x \in User : x # u => acts'[x] = acts[x]
      /\ r # None => r.c = q.c
  BY RestCalls
<1>2. r # None => r.held = None /\ r.op = q.op /\ (fails => q.op = "quit")
  <2>1. r # None => r.held = None
    BY RestFacts DEF MemberShape, ActsShape
  <2>2. r # None /\ fails => q.op = "quit"
    BY DEF Rest, End, MemberShape, ActsShape
  <2>3. QED
    BY <2>1, <2>2, RestCalls
<1>3. (\A x \in User : Active(x, c)' <=> Active(x, c)) /\ Members(c)' = Members(c)
  BY DEF Active, Members
<1>4. \A x \in User : OwnsStill(x, c) => OwnsStill(x, c)'
  BY <1>1 DEF OwnsStill
<1>5. ASSUME NEW x \in User PROVE MayCall(x, c)' /\ HeldFits(x, c)'
  <2>1. CASE x = u
    <3>1. q # None /\ (q.op = "quit" => q.c # c)
      <4>1. q # None
        BY DEF Working, Before
      <4>2. q.op = "quit" => q.c = Absent
        BY <4>1, CallAt DEF CallFits, PlaceFits
      <4>3. QED
        BY <4>1, <4>2
    <3>2. r # None => r.c # c
      BY <1>1, <1>2, <3>1
    <3>3. QED
      BY <1>2, <2>1, <3>2 DEF MayCall, HeldFits
  <2>2. CASE x # u
    BY <1>1, <1>3, <2>2 DEF MayCall, HeldFits, DmFits
  <2>3. QED
    BY <2>1, <2>2
<1>6. QED
  BY <1>4, <1>5, KeepsDm

\* A conversation that has just been made.
LEMMA NewDm ==
  ASSUME MemberShape, NEW u \in User, Working(u), Rest(u, FALSE), NEW c \in Channel, UnmadeAt(u, c),
         acts[u].op = "dm", UNCHANGED uc
  PROVE  DmFits(c)' /\ Members(c)' = {}
<1> DEFINE q == acts[u]  r == acts'[u]
<1>1. /\ \A x \in User : x # u => acts'[x] = acts[x]
      /\ r # None => r.op = "dm" /\ r.held = None
  <2>1. r # None => r.held = None
    BY RestFacts DEF MemberShape, ActsShape
  <2>2. QED
    BY <2>1, RestCalls
<1>2. \A x \in User : uc'[<<x, c>>] = Absent
  BY DEF UnmadeAt
<1>3. Members(c)' = {}
  BY <1>2 DEF Members, Active
<1>4. PairAt(c)' /\ RolesAt(c)'
  BY <1>2, <1>3 DEF PairAt, RolesAt
<1>5. ASSUME NEW x \in User PROVE MayCall(x, c)' /\ HeldFits(x, c)'
  <2>1. CASE x = u
    BY <1>1, <1>3, <2>1 DEF MayCall, HeldFits
  <2>2. CASE x # u
    <3>1. acts[x] # None => acts[x].c # c
      BY <2>2 DEF UnmadeAt, Busy
    <3>2. acts[x] # None /\ acts[x].held # None => Head(acts[x].todo).key[2] # c
      BY <3>1, HoldsAt DEF UnmadeAt, Quits
    <3>3. QED
      BY <1>1, <2>2, <3>1, <3>2 DEF MayCall, HeldFits
  <2>3. QED
    BY <2>1, <2>2
<1>6. QED
  BY <1>3, <1>4, <1>5 DEF DmFits

\* x gets active in c by a call that creates it.
Comes(u, x, c) ==
  /\ acts[u] # None /\ acts[u].op = "dm" /\ acts[u].at = "tasks" /\ acts[u].c = c
  /\ x \in {u, acts[u].to} /\ Members(c) \subseteq {u, acts[u].to}

\* What a task of u writes there.
LEMMA RecordDm ==
  ASSUME MemberShape, MakersInv, NEW u \in User, Working(u), Rest(u, FALSE), NEW c \in Channel, DmFits(c),
         NEW y \in User, NEW n \in Membership \cup {Absent}, Head(acts[u].todo).key = <<y, c>>,
         uc' = [uc EXCEPT ![<<y, c>>] = n],
         (n # Absent /\ n.status = "active") =>
            Active(y, c) \/ (acts[u].op = "dm" /\ acts[u].c = c /\ y \in {u, acts[u].to}),
         (n # Absent /\ n.role # RoleMember) => y = u /\ OwnsStill(u, c)',
         n = Absent => Busy(c) = {u},
         y = u \/ (n # Absent /\ n.status = "active") \/ Busy(c) = {u}
  PROVE  DmFits(c)' /\ \A x \in User : Active(x, c)' => Active(x, c) \/ Comes(u, x, c)
<1>1. DmFits(c)'
  BY WrittenDm
<1>2. ASSUME NEW x \in User, Active(x, c)', ~Active(x, c) PROVE Comes(u, x, c)
  <2>1. PICK k \in Key : k = <<y, c>>
    BY DEF Key
  <2>2. uc' = [uc EXCEPT ![k] = n] /\ k[1] = y /\ k[2] = c
    BY <2>1
  <2>3. /\ \A v \in User, d \in Channel : <<v, d>> # k => (Active(v, d)' <=> Active(v, d))
        /\ Active(k[1], k[2])' <=> n # Absent /\ n.status = "active"
    BY <2>2, WrittenMembers
  <2>4. <<x, c>> = k
    BY <1>2, <2>3
  <2>5. x = y /\ n # Absent /\ n.status = "active"
    BY <1>2, <2>1, <2>2, <2>3, <2>4
  <2>6. acts[u].op = "dm" /\ acts[u].c = c /\ y \in {u, acts[u].to}
    BY <1>2, <2>5
  <2>7. acts[u] # None /\ acts[u].at = "tasks"
    BY HeadFits
  <2>8. Members(c) \subseteq {u, acts[u].to}
    BY <2>6, <2>7 DEF DmFits, MayCall
  <2>9. QED
    BY <2>5, <2>6, <2>7, <2>8 DEF Comes
<1>3. QED
  BY <1>1, <1>2

\* The rest of a channel is as it was.
LEMMA ElsewhereDm ==
  ASSUME MemberShape, NEW u \in User, Working(u), NEW c \in Channel, NEW k \in Key, k = Head(acts[u].todo).key,
         k[2] # c, NEW n \in Membership \cup {Absent}, uc' = [uc EXCEPT ![k] = n], Rest(u, FALSE), DmFits(c)
  PROVE  DmFits(c)' /\ \A x \in User : Active(x, c)' => Active(x, c)
<1>1. acts[u].c # c
  BY HeadFits, CallAt DEF CallFits, PlaceFits
<1>2. \A x \in User : <<x, c>> # k
  OBVIOUS
<1>3. \A x \in User : uc'[<<x, c>>] = uc[<<x, c>>] /\ (Active(x, c)' <=> Active(x, c))
  BY <1>2, WrittenMembers
<1>4. QED
  BY <1>1, <1>3, OtherDm

LEMMA BackDm ==
  ASSUME MemberShape, MakersInv, NEW u \in User, WriteBack(u), NEW c \in Channel, DmFits(c),
         chan[c] = "dm", c \notin mixed'
  PROVE  DmFits(c)' /\ \A x \in User : Active(x, c)' => Active(x, c) \/ Comes(u, x, c)
<1> DEFINE q == acts[u]  t == Head(q.todo)  old == q.held  new == Changed(t, old)
<1>1. /\ Working(u) /\ t \in AnyTask /\ t.do \in Rereads
      /\ old \in Membership \cup {Absent} /\ new \in Membership \cup {Absent}
      /\ IF new = Absent THEN uc' = uc ELSE uc' = [uc EXCEPT ![t.key] = new]
      /\ Rest(u, new = Absent) /\ q # None /\ old # None
      /\ (new # Absent /\ t.key[2] = c) => ~ComesIn(t, old, q.op)
  <2>1. (new # Absent /\ chan[t.key[2]] # "group" /\ ComesIn(t, old, q.op)) => t.key[2] \in mixed'
    BY WriteBackFacts
  <2>2. (new # Absent /\ t.key[2] = c) => ~ComesIn(t, old, q.op)
    BY <2>1
  <2>3. /\ Working(u) /\ t \in AnyTask /\ t.do \in Rereads
        /\ old \in Membership \cup {Absent} /\ new \in Membership \cup {Absent}
        /\ IF new = Absent THEN uc' = uc ELSE uc' = [uc EXCEPT ![t.key] = new]
        /\ Rest(u, new = Absent)
    BY WriteBackFacts, Zenon
  <2>4. q # None /\ old # None
    BY Zenon DEF WriteBack, Working, Before
  <2>5. QED
    BY <2>2, <2>3, <2>4, Zenon
<1>2. /\ TaskFits(u, q, used, t) /\ t.key \in Key /\ t.key = <<t.key[1], t.key[2]>> /\ t.key[1] \in User /\ q.at = "tasks"
      /\ IF q.op = "quit" THEN t.key[1] = u ELSE t.key[2] = q.c
  BY <1>1, HeadFits
<1>3. /\ new = Absent <=> old = Absent /\ t.do \notin {"admit", "receipt"}
      /\ t.do = "admit" => new.status = "active" /\ new.role = t.val
      /\ t.do = "remove" /\ old # Absent => new.status = t.val /\ t.val # "active" /\ new.role = old.role
      /\ t.do = "receipt" /\ old # Absent => new = old
      /\ t.do = "clear" /\ old # Absent => new.status = old.status /\ new.role = old.role
  <2> HIDE DEF t, old
  <2>1. QED
    BY <1>1, ChangedFacts
<1>4. CASE new = Absent
  <2>1. q.op # "dm"
    <3>1. t.do \notin {"admit", "receipt"} /\ TaskFits(u, q, used, t)
      BY <1>2, <1>3, <1>4
    <3> HIDE DEF t, q
    <3>2. QED
      BY <1>1, <3>1 DEF TaskFits, Task, Rereads
  <2>2. uc' = uc /\ \A x \in User : uc'[<<x, c>>] = uc[<<x, c>>] /\ (Active(x, c)' <=> Active(x, c))
    BY <1>1, <1>4 DEF Active
  <2>3. Rest(u, TRUE)
    BY <1>1, <1>4
  <2>4. DmFits(c)'
    BY <1>1, <2>1, <2>2, <2>3, OtherDm
  <2>5. QED
    BY <2>2, <2>4
<1>5. CASE new # Absent /\ t.key[2] # c
  <2>1. Rest(u, FALSE) /\ uc' = [uc EXCEPT ![t.key] = new]
    BY <1>1, <1>5
  <2>2. PICK k \in Key, n \in Membership \cup {Absent} : k = t.key /\ n = new
    BY <1>1, <1>2
  <2>3. uc' = [uc EXCEPT ![k] = n] /\ k[2] # c
    BY <1>5, <2>1, <2>2
  <2>4. DmFits(c)' /\ \A x \in User : Active(x, c)' => Active(x, c)
    BY <1>1, <2>1, <2>2, <2>3, ElsewhereDm
  <2>5. QED
    BY <2>4
<1>6. CASE new # Absent /\ t.key[2] = c
  <2>1. Rest(u, FALSE) /\ uc' = [uc EXCEPT ![t.key] = new]
    BY <1>1, <1>6
  <2>2. /\ q.op # "quit" => q.c = c /\ q.op \in {"dm", "join", "leave", "delete", "clear", "receipt"}
        /\ t.do = "admit" => q.op # "join"
        /\ t.do = "receipt" => old # Absent
    BY <1>1, <1>2, <1>6 DEF DmFits, MayCall, ComesIn
  <2>3. \/ q.op = "dm" /\ t.do = "admit" /\ t.val = RoleMember /\ t.key[1] \in {u, q.to}
        \/ t.do \in {"remove", "clear", "receipt"} /\ t.key[1] = u
    <3> HIDE DEF t, q
    <3>1. QED
      BY <1>1, <1>2, <2>2 DEF TaskFits, Task, Rereads
  <2>4. t.do # "admit" =>
          /\ old # Absent => old.role = RoleMember
          /\ t.do = "receipt" => old # Absent
          /\ t.do \in {"receipt", "clear"} /\ old # Absent /\ old.status = "active" => Active(u, c)
    BY <1>1, <1>6, <2>2 DEF DmFits, HeldFits
  <2>5. PICK y \in User, n \in Membership \cup {Absent} : y = t.key[1] /\ n = new
    BY <1>1, <1>2
  <2>6. t.key = <<y, c>> /\ uc' = [uc EXCEPT ![<<y, c>>] = n] /\ n # Absent
    BY <1>2, <1>6, <2>1, <2>5
  <2>7. n.role = RoleMember
    BY <1>3, <1>6, <2>3, <2>4, <2>5
  <2>8. n.status = "active" => Active(y, c) \/ (q.op = "dm" /\ q.c = c /\ y \in {u, q.to})
    BY <1>3, <1>6, <2>2, <2>3, <2>4, <2>5
  <2>9. y = u \/ n.status = "active"
    BY <1>3, <2>3, <2>5
  <2>10. QED
    BY <1>1, <2>1, <2>6, <2>7, <2>8, <2>9, RecordDm
<1>7. QED
  BY <1>4, <1>5, <1>6

LEMMA PutDm ==
  ASSUME MemberShape, MakersInv, DeletedInv, NEW u \in User, WriteMember(u), NEW c \in Channel, DmFits(c), Sound(c)
  PROVE  DmFits(c)' /\ \A x \in User : Active(x, c)' => Active(x, c) \/ Comes(u, x, c)
<1> DEFINE q == acts[u]  t == Head(q.todo)
<1>1. /\ Working(u) /\ Rest(u, FALSE)
      /\ \/ t.do = "put" /\ Joined(t.val) \in Membership /\ uc' = [uc EXCEPT ![t.key] = Joined(t.val)]
         \/ t.do = "drop" /\ uc' = [uc EXCEPT ![t.key] = Absent]
  BY WriteMemberFacts, Zenon
<1>2. /\ TaskFits(u, q, used, t) /\ t.key \in Key /\ t.key = <<t.key[1], t.key[2]>> /\ t.key[1] \in User /\ q.at = "tasks"
      /\ IF q.op = "quit" THEN t.key[1] = u ELSE t.key[2] = q.c
      /\ t = q.todo[1] /\ q # None /\ OrderFits(u, q, 1)
  BY <1>1, HeadFits, Zenon
<1>3. \/ t.do = "put" /\ q.op = "dm" /\ t = Task("put", u, q.c, RoleOwner)
      \/ t.do = "put" /\ q.op = "dm" /\ t = Task("put", q.to, q.c, RoleMember)
      \/ t.do = "put" /\ q.op \in {"group", "unnamed"}
      \/ t.do = "drop" /\ q.op \in {"clear", "delete"}
  <2>1. TaskFits(u, q, used, t) /\ (t.do = "put" \/ t.do = "drop")
    BY <1>1, <1>2
  <2> HIDE DEF t, q
  <2>2. CASE t.do = "put"
    BY <2>1, <2>2 DEF TaskFits, Task
  <2>3. CASE t.do = "drop"
    BY <2>1, <2>3 DEF TaskFits, Task
  <2>4. QED
    BY <2>1, <2>2, <2>3
<1>4. CASE t.key[2] # c
  <2>1. PICK k \in Key, n \in Membership \cup {Absent} : k = t.key /\ uc' = [uc EXCEPT ![k] = n]
    BY <1>1, <1>2
  <2>2. DmFits(c)' /\ \A x \in User : Active(x, c)' => Active(x, c)
    BY <1>1, <1>4, <2>1, ElsewhereDm
  <2>3. QED
    BY <2>2
<1>5. CASE t.key[2] = c
  <2>1. q.c = c /\ q.op \notin {"group", "unnamed"}
    <3>1. q.op # "quit"
      BY <1>3
    <3>2. QED
      BY <1>2, <1>5, <3>1 DEF DmFits, MayCall
  <2>2. PICK y \in User : y = t.key[1]
    BY <1>2
  <2>3. CASE t.do = "put"
    <3>1. /\ q.op = "dm"
          /\ \/ y = u /\ t.val = RoleOwner /\ t = Task("put", u, c, RoleOwner)
             \/ y = q.to /\ t.val = RoleMember
      <4> HIDE DEF t, q
      <4>1. QED
        BY <1>3, <2>1, <2>2, <2>3 DEF Task
    <3>2. q.op = "dm" /\ y \in {u, q.to}
      BY <1>3, <2>1, <2>3, <3>1
    <3>3. PICK n \in Membership \cup {Absent} : n = Joined(t.val)
      BY <1>1, <2>2, <2>3
    <3>4. n # Absent /\ n.status = "active" /\ n.role = t.val
      BY <1>1, <2>2, <2>3, <3>3 DEF Joined
    <3>5. t.key = <<y, c>> /\ uc' = [uc EXCEPT ![<<y, c>>] = n]
      BY <1>1, <1>2, <1>5, <2>2, <2>3, <3>3
    <3>6. t.val # RoleMember => y = u /\ OwnsStill(u, c)'
      <4>1. SUFFICES ASSUME t.val # RoleMember PROVE y = u /\ OwnsStill(u, c)'
        OBVIOUS
      <4>2. y = u /\ t = Task("put", u, q.c, RoleOwner)
        BY <2>1, <3>1, <4>1
      <4>3. PICK j \in DOMAIN q.todo : 1 < j /\ q.todo[j] = Task("admit", u, c, RoleMember)
        BY <1>2, <2>1, <3>2, <4>2 DEF OrderFits
      <4> j # 1
        BY <4>3
      <4>4. q.op = "dm" /\ q.c = c /\ Working(u) /\ Rest(u, FALSE)
        BY <1>1, <2>1, <3>2, <4>3
      <4>5. OwnsStill(u, c)'
        BY <4>3, <4>4, OwnsRest
      <4>6. QED
        BY <4>2, <4>5
    <3>7. QED
      BY <1>1, <2>1, <3>2, <3>4, <3>5, <3>6, RecordDm
  <2>4. CASE t.do = "drop"
    <3>1. q.op \in {"clear", "delete"}
      BY <1>3, <2>4
    <3>2. \E j \in DOMAIN q.todo : q.todo[j].do = "chan"
      BY <1>2, <2>4 DEF OrderFits
    <3>3. Deleting(u, c)
      BY <1>2, <2>1, <3>1, <3>2 DEF Deleting, Deletes
    <3>4. Busy(c) = {u}
      BY <3>3 DEF DeletedInv, DeletedAt, Sound
    <3>5. PICK n \in Membership \cup {Absent} : n = Absent
      OBVIOUS
    <3>6. t.key = <<y, c>> /\ uc' = [uc EXCEPT ![<<y, c>>] = n]
      BY <1>1, <1>2, <1>5, <2>2, <2>4, <3>5
    <3>7. QED
      BY <1>1, <3>1, <3>4, <3>5, <3>6, RecordDm
  <2>5. QED
    BY <1>1, <2>3, <2>4
<1>6. QED
  BY <1>4, <1>5

LEMMA ChannelDm ==
  ASSUME MemberShape, MakersInv, NEW u \in User, WriteChannel(u), NEW c \in Channel, chan'[c] = "dm",
         c \notin mixed',
         chan[c] = "dm" => DmFits(c)
  PROVE  /\ DmFits(c)' /\ \A x \in User : Active(x, c)' => Active(x, c)
         /\ chan[c] = "dm" \/ Members(c)' = {}
<1> DEFINE q == acts[u]  t == Head(q.todo)
<1>1. /\ Working(u) /\ t.do = "chan" /\ Rest(u, FALSE) /\ uc' = uc /\ c \notin mixed
      /\ chan' = [chan EXCEPT ![q.c] = t.val] /\ t.val \in {"dm", "group", Absent}
      /\ \/ q.op = "rename" /\ t.val = "group"
         \/ q.op \in Creates /\ t.val = KindOf(q.op)
         \/ q.op \in {"clear", "delete"} /\ t.val = Absent
  BY WriteChannelFacts
<1>2. \A x \in User : Active(x, c)' <=> Active(x, c)
  BY <1>1 DEF Active
<1>3. CASE q.c # c
  <2>1. chan[c] = "dm"
    BY <1>1, <1>3 DEF MemberShape, RecordShape
  <2>2. DmFits(c)'
    BY <1>1, <1>3, <2>1, OtherDm
  <2>3. QED
    BY <1>2, <2>1, <2>2
<1>4. CASE q.c = c
  <2>1. t.val = "dm"
    BY <1>1, <1>4 DEF MemberShape, RecordShape
  <2>0. q # None /\ q.op \in Creates /\ KindOf(q.op) = "dm"
    BY <1>1, <2>1 DEF Working, Before
  <2>2. q.op = "dm" /\ q # None
    BY <1>1, <1>4, <2>0 DEF KindOf, MakersInv
  <2>3. Unmade(u)
    BY <1>1, <2>2 DEF Unmade, Making
  <2>4. UnmadeAt(u, c)
    BY <1>4, <2>3 DEF MakersInv
  <2>5. DmFits(c)' /\ Members(c)' = {}
    BY <1>1, <2>2, <2>4, NewDm
  <2>6. QED
    BY <1>2, <2>5
<1>5. QED
  BY <1>3, <1>4

\* u creates the conversation c of x and v.
Made(u, x, v, c) ==
  /\ acts[u] # None /\ acts[u].op = "dm" /\ acts[u].at = "tasks" /\ acts[u].c = c
  /\ {x, v} = {u, acts[u].to}

LEMMA PairCard ==
  ASSUME NEW a, NEW b, a # b
  PROVE  Cardinality({a, b}) = 2
<1> DEFINE S == {a}
<1>1. IsFiniteSet(S) /\ Cardinality(S) = 1 /\ b \notin S
  BY FS_Singleton
<1> HIDE DEF S
<1>2. Cardinality(S \cup {b}) = Cardinality(S) + 1
  BY <1>1, FS_AddElement
<1>3. S \cup {b} = {a, b}
  BY DEF S
<1>4. QED
  BY <1>1, <1>2, <1>3

LEMMA TwoOf ==
  ASSUME NEW S, IsFiniteSet(S), Cardinality(S) = 2
  PROVE  \E a, b \in S : a # b /\ S = {a, b}
<1>1. S # {}
  BY FS_EmptySet
<1>2. PICK a \in S : TRUE
  BY <1>1
<1>3. IsFiniteSet(S \ {a}) /\ Cardinality(S \ {a}) = 1
  BY FS_RemoveElement
<1>4. PICK b : S \ {a} = {b}
  BY <1>3, FS_Singleton
<1>5. QED
  BY <1>2, <1>4

\* Two who are in a conversation are its members.
LEMMA PairMembers ==
  ASSUME NEW c \in Channel, PairAt(c), NEW x \in User, NEW v \in User, x # v, Together(x, v, c)
  PROVE  IsDM(c) /\ Members(c) = {x, v}
<1>1. x \in Members(c) /\ v \in Members(c)
  BY DEF Members, Together
<1>2. Members(c) = {x, v}
  BY <1>1 DEF PairAt
<1>3. Cardinality({x, v}) = 2
  BY PairCard
<1>4. chan[c] = "dm"
  BY DEF Together, Sound
<1>5. QED
  BY <1>2, <1>3, <1>4 DEF IsDM

\* No step but a creation's brings two users together.
LEMMA PairsStep ==
  ASSUME MemberShape, Mutual, Mutual', OnePair, OneNew, doubled \subseteq doubled', NEW w \in User,
         \A c \in Channel, x, v \in User : x # v /\ Together(x, v, c)' => Together(x, v, c) \/ Made(w, x, v, c),
         \A u, v \in User, d \in Channel :
           (/\ acts'[u] # None /\ acts'[u].op = "dm" /\ acts'[u].at \in {"ask", "tasks"} /\ acts'[u].c # d
            /\ acts'[u].to = v) =>
             /\ acts[u] # None /\ acts[u].op = "dm" /\ acts[u].c = acts'[u].c /\ acts[u].to = v
             /\ acts[u].at \in {"ask", "tasks"} \/ (Together(u, v, d)' => {u, v} \in doubled')
  PROVE  OnePair' /\ OneNew'
<1>1. ASSUME NEW x \in User, NEW v \in User, NEW c \in Channel, NEW d \in Channel, c # d, x # v,
             Together(x, v, c), Made(w, x, v, d)
      PROVE  {x, v} \in doubled
  <2>1. PICK y \in User : {x, v} = {w, y} /\ acts[w].to = y
    BY <1>1, CallAt DEF Made
  <2>2. Together(w, y, c)
    BY <1>1, <2>1 DEF Together
  <2>3. acts[w] # None /\ acts[w].op = "dm" /\ acts[w].at = "tasks" /\ acts[w].c # c
    BY <1>1 DEF Made
  <2>4. {w, y} \in doubled
    BY <2>1, <2>2, <2>3 DEF OneNew
  <2>5. QED
    BY <2>1, <2>4
<1>2. ASSUME NEW x \in User, NEW v \in User, NEW c \in Channel, NEW d \in Channel, c # d, x # v,
             Together(x, v, c)', Together(x, v, d)'
      PROVE  {x, v} \in doubled'
  <2>1. CASE Together(x, v, c) /\ Together(x, v, d)
    BY <1>2, <2>1 DEF OnePair
  <2>2. CASE Together(x, v, c) /\ ~Together(x, v, d)
    <3>1. Made(w, x, v, d)
      BY <1>2, <2>2
    <3>2. QED
      BY <1>1, <1>2, <2>2, <3>1
  <2>3. CASE ~Together(x, v, c)
    <3>1. Made(w, x, v, c)
      BY <1>2, <2>3
    <3>2. Together(x, v, d)
      BY <1>2, <3>1 DEF Made
    <3>3. QED
      BY <1>1, <1>2, <3>1, <3>2
  <2>4. QED
    BY <2>1, <2>2, <2>3
<1>3. ASSUME NEW u \in User, NEW v \in User, NEW d \in Channel, acts'[u] # None, acts'[u].op = "dm",
             acts'[u].at \in {"ask", "tasks"}, acts'[u].c # d, acts'[u].to = v, Together(u, v, d)'
      PROVE  {u, v} \in doubled'
  <2> DEFINE q == acts[u]
  <2>1. /\ q # None /\ q.op = "dm" /\ q.c # d /\ q.to = v
        /\ q.at \in {"ask", "tasks"} \/ {u, v} \in doubled'
    BY <1>3
  <2>2. v # u
    BY <2>1, CallAt
  <2>3. CASE q.at \in {"ask", "tasks"} /\ Together(u, v, d)
    BY <2>1, <2>3 DEF OneNew
  <2>4. CASE ~Together(u, v, d)
    <3>1. Made(w, u, v, d)
      BY <1>3, <2>2, <2>4
    <3>2. w # u
      BY <2>1, <3>1 DEF Made
    <3>3. acts[w] # None /\ acts[w].op = "dm" /\ w = v /\ acts[w].to = u
      BY <2>2, <3>1, <3>2 DEF Made
    <3>4. {u, v} \in doubled
      BY <2>1, <3>3 DEF Mutual
    <3>5. QED
      BY <3>4
  <2>5. QED
    BY <2>1, <2>3, <2>4
<1>4. QED
  BY <1>2, <1>3 DEF OnePair, OneNew

\* A step at which nobody begins to create a conversation.
LEMMA MutualStays ==
  ASSUME Mutual, doubled \subseteq doubled',
         \A x \in User : acts'[x] # None /\ acts'[x].op = "dm" =>
           acts[x] # None /\ acts[x].op = "dm" /\ acts'[x].to = acts[x].to
  PROVE  Mutual'
<1>1. ASSUME NEW u \in User, NEW v \in User, acts'[u] # None, acts'[u].op = "dm", acts'[u].to = v,
             acts'[v] # None, acts'[v].op = "dm", acts'[v].to = u
      PROVE  {u, v} \in doubled'
  <2>1. /\ acts[u] # None /\ acts[u].op = "dm" /\ acts[u].to = v
        /\ acts[v] # None /\ acts[v].op = "dm" /\ acts[v].to = u
    BY <1>1
  <2>2. {u, v} \in doubled
    BY <2>1 DEF Mutual
  <2>3. QED
    BY <2>2
<1>2. QED
  BY <1>1 DEF Mutual

LEMMA WritesOne ==
  ASSUME MemberShape, MakersInv, DeletedInv, OneInv, NEW u \in User, halfway' = halfway,
         WriteBack(u) \/ WriteMember(u) \/ WriteChannel(u)
  PROVE  OneInv'
<1> DEFINE q == acts[u]
<1>1. Working(u) /\ (\E fails : Rest(u, fails)) /\ UNCHANGED <<contested, doubled>>
  BY Zenon DEF WriteBack, WriteMember, WriteChannel
<1>11. mixed \subseteq mixed'
  BY WriteBackFacts, WriteMemberFacts, WriteChannelFacts
<1>2. PICK fails : Rest(u, fails)
  BY <1>1
<1>3. /\ \A x \in User : x # u => acts'[x] = acts[x]
      /\ \A x \in User : acts'[x] # None => acts[x] # None /\ acts'[x].c = acts[x].c /\ acts'[x].op = acts[x].op
                                            /\ acts'[x].to = acts[x].to
      /\ q # None /\ q.at = "tasks"
  BY <1>1, <1>2, RestCalls DEF Working, Before
<1>4. ASSUME NEW c \in Channel, Sound(c)'
      PROVE  /\ DmFits(c)'
             /\ \/ Sound(c) /\ \A x \in User : Active(x, c)' => Active(x, c) \/ Comes(u, x, c)
                \/ Members(c)' = {}
  <2>1. chan[c] = "dm" => Sound(c) /\ DmFits(c)
    BY <1>1, <1>4, <1>11 DEF Sound, OneInv, DmInv
  <2>2. CASE WriteBack(u)
    <3>1. chan' = chan
      BY <2>2, Zenon DEF WriteBack
    <3>2. Sound(c) /\ DmFits(c)
      BY <1>4, <2>1, <3>1 DEF Sound
    <3>3. DmFits(c)' /\ \A x \in User : Active(x, c)' => Active(x, c) \/ Comes(u, x, c)
      BY <1>4, <2>2, <3>2, BackDm DEF Sound
    <3>4. QED
      BY <3>2, <3>3
  <2>3. CASE WriteMember(u)
    <3>1. chan' = chan
      BY <2>3 DEF WriteMember
    <3>2. Sound(c) /\ DmFits(c)
      BY <1>4, <2>1, <3>1 DEF Sound
    <3>3. DmFits(c)' /\ \A x \in User : Active(x, c)' => Active(x, c) \/ Comes(u, x, c)
      BY <2>3, <3>2, PutDm
    <3>4. QED
      BY <3>2, <3>3
  <2>4. CASE WriteChannel(u)
    <3>1. chan'[c] = "dm" /\ c \notin mixed'
      BY <1>4 DEF Sound
    <3>2. QED
      BY <2>1, <2>4, <3>1, ChannelDm
  <2>5. QED
    BY <2>2, <2>3, <2>4
<1>5. DmInv'
  BY <1>4 DEF DmInv
<1>6. Mutual'
  BY <1>1, <1>3, MutualStays DEF OneInv
<1>7. ASSUME NEW c \in Channel, NEW x \in User, NEW v \in User, x # v, Together(x, v, c)'
      PROVE  Together(x, v, c) \/ Made(u, x, v, c)
  <2>1. Sound(c)' /\ Active(x, c)' /\ Active(v, c)'
    BY <1>7 DEF Together
  <2>2. Members(c)' # {}
    BY <2>1 DEF Members
  <2>3. Sound(c) /\ (Active(x, c) \/ Comes(u, x, c)) /\ (Active(v, c) \/ Comes(u, v, c))
    BY <1>4, <2>1, <2>2
  <2>4. CASE Active(x, c) /\ Active(v, c)
    BY <2>3, <2>4 DEF Together
  <2>5. CASE ~(Active(x, c) /\ Active(v, c))
    <3>1. /\ q.op = "dm" /\ q.c = c /\ Members(c) \subseteq {u, q.to}
      BY <2>3, <2>5 DEF Comes
    <3>2. x \in {u, q.to} /\ v \in {u, q.to}
      BY <2>3, <3>1 DEF Comes, Members
    <3>3. {x, v} = {u, q.to}
      BY <1>7, <3>2
    <3>4. QED
      BY <1>3, <3>1, <3>3 DEF Made
  <2>6. QED
    BY <2>4, <2>5
<1>8. ASSUME NEW x \in User, NEW v \in User, NEW d \in Channel, acts'[x] # None, acts'[x].op = "dm",
             acts'[x].at \in {"ask", "tasks"}, acts'[x].c # d, acts'[x].to = v
      PROVE  /\ acts[x] # None /\ acts[x].op = "dm" /\ acts[x].c = acts'[x].c /\ acts[x].to = v
             /\ acts[x].at \in {"ask", "tasks"} \/ (Together(x, v, d)' => {x, v} \in doubled')
  <2>1. acts[x].at \in {"ask", "tasks"}
    BY <1>3, <1>8
  <2>2. acts[x] # None /\ acts[x].op = "dm" /\ acts[x].c = acts'[x].c /\ acts[x].to = v
    BY <1>3, <1>8
  <2>3. QED
    BY <2>1, <2>2
<1>9. OnePair' /\ OneNew'
  <2>1. doubled \subseteq doubled' /\ Mutual /\ OnePair /\ OneNew
    BY <1>1 DEF OneInv
  <2>2. QED
    BY <1>6, <1>7, <1>8, <2>1, PairsStep
<1>10. QED
  BY <1>5, <1>6, <1>9, Zenon DEF OneInv

\* A step that changes no record brings nobody together.
LEMMA StillTogether ==
  ASSUME UNCHANGED uc, halfway \subseteq halfway', contested \subseteq contested', mixed \subseteq mixed',
         chan' = chan, NEW c \in Channel
  PROVE  /\ Sound(c)' => Sound(c)
         /\ \A x, v \in User : Together(x, v, c)' => Together(x, v, c)
BY DEF Together, Sound, Active

LEMMA CalmOne ==
  ASSUME MemberShape, MemberShape', OneInv, NEW u \in User, Calm(u), halfway' = halfway
  PROVE  OneInv'
<1> DEFINE q == acts[u]  r == acts'[u]
<1>1. UNCHANGED <<chan, uc, mixed>> /\ q # None /\ contested \subseteq contested' /\ doubled \subseteq doubled'
  BY DEF Calm
<1>2. /\ \A x \in User : x # u => acts'[x] = acts[x]
      /\ \A x \in User : acts'[x] # None => acts[x] # None /\ acts'[x].c = acts[x].c /\ acts'[x].op = acts[x].op
                                            /\ acts'[x].to = acts[x].to
      /\ r # None => MovesOn(u, r)
  BY CalmCalls
<1>3. DmInv'
  BY <1>1, StillTogether, CalmDm DEF OneInv, DmInv
<1>4. Mutual'
  BY <1>1, <1>2, MutualStays DEF OneInv
<1>5. ASSUME NEW v \in User, NEW d \in Channel, r # None, r.op = "dm", r.to = v, q.at \notin {"ask", "tasks"},
             Together(u, v, d)'
      PROVE  {u, v} \in doubled'
  <2>1. q.op = "dm" /\ q.at = "look" /\ q.to = v
    <3>1. q.op = "dm" /\ PlaceOf(q.op, q.at) /\ q.at \in Place /\ q.to = v
      BY <1>1, <1>2, <1>5, CallAt
    <3>2. QED
      BY <1>5, <3>1 DEF PlaceOf, Place
  <2>2. \A e \in Channel : IsDM(e) /\ Members(e) = {u, v} => {u, v} \in doubled'
    <3>1. MovesOn(u, r)
      BY <1>2, <1>5
    <3> HIDE DEF r
    <3>2. QED
      BY <2>1, <3>1 DEF MovesOn
  <2>3. v # u
    BY <1>1, <2>1, CallAt
  <2>4. Together(u, v, d) /\ Sound(d)
    BY <1>1, <1>5, StillTogether DEF Together
  <2>5. PairAt(d)
    BY <2>4 DEF OneInv, DmInv, DmFits
  <2>6. IsDM(d) /\ Members(d) = {u, v}
    BY <2>3, <2>4, <2>5, PairMembers
  <2>7. QED
    BY <2>2, <2>6
<1>6. ASSUME NEW x \in User, NEW v \in User, NEW d \in Channel, acts'[x] # None, acts'[x].op = "dm", acts'[x].to = v,
             acts'[x].at \in {"ask", "tasks"}
      PROVE  acts[x].at \in {"ask", "tasks"} \/ (Together(x, v, d)' => {x, v} \in doubled')
  <2>1. CASE x = u
    BY <1>5, <1>6, <2>1
  <2>2. CASE x # u
    <3>1. acts'[x] = acts[x]
      BY <1>2, <2>2
    <3>2. QED
      BY <1>6, <3>1
  <2>3. QED
    BY <2>1, <2>2
<1>7. OnePair' /\ OneNew'
  BY <1>1, <1>2, <1>4, <1>6, StillTogether, PairsStep DEF OneInv
<1>8. QED
  BY <1>3, <1>4, <1>7 DEF OneInv

\* The beginning of a call.
LEMMA BegunOne ==
  ASSUME MemberShape, OneInv, NEW u \in User, NEW r, acts[u] = None, acts' = [acts EXCEPT ![u] = r], r.held = None,
         UNCHANGED <<chan, uc, halfway>>, contested \subseteq contested', mixed \subseteq mixed',
         doubled \subseteq doubled',
         r.c \in Channel /\ Sound(r.c) => r.op \in {"join", "receipt"} \/ (r.op # "dm" /\ r.at = "member"),
         r.op = "dm" =>
           /\ r.at = "look" /\ r.to \in User /\ r.to # u
           /\ (acts[r.to] # None /\ acts[r.to].op = "dm" /\ acts[r.to].to = u) => {u, r.to} \in doubled'
  PROVE  OneInv'
<1>1. acts'[u] = r /\ \A x \in User : x # u => acts'[x] = acts[x]
  BY DEF MemberShape, ActsShape
<1>2. ASSUME NEW c \in Channel, Sound(c)' PROVE DmFits(c)'
  <2>1. Sound(c) /\ DmFits(c)
    BY <1>2, StillTogether DEF OneInv, DmInv
  <2>2. r.c = c => r.op \in {"join", "receipt"} \/ (r.op # "dm" /\ r.at = "member")
    BY <2>1
  <2>3. QED
    BY <2>1, <2>2, BeginDm
<1>3. DmInv'
  BY <1>2 DEF DmInv
<1>4. Mutual'
  <2>1. ASSUME NEW v \in User, NEW x \in User, acts'[v] # None, acts'[v].op = "dm", acts'[v].to = x,
               acts'[x] # None, acts'[x].op = "dm", acts'[x].to = v
        PROVE  {v, x} \in doubled'
    <3>1. CASE v # u /\ x # u
      <4>1. /\ acts[v] # None /\ acts[v].op = "dm" /\ acts[v].to = x
            /\ acts[x] # None /\ acts[x].op = "dm" /\ acts[x].to = v
        BY <1>1, <2>1, <3>1
      <4>2. QED
        BY <4>1 DEF OneInv, Mutual
    <3>2. CASE v = u
      <4>1. r.op = "dm" /\ r.to = x /\ x # u
        BY <1>1, <2>1, <3>2
      <4>2. acts[x] # None /\ acts[x].op = "dm" /\ acts[x].to = u
        BY <1>1, <2>1, <3>2, <4>1
      <4>3. QED
        BY <3>2, <4>1, <4>2
    <3>3. CASE x = u
      <4>1. r.op = "dm" /\ r.to = v /\ v # u
        BY <1>1, <2>1, <3>3
      <4>2. acts[v] # None /\ acts[v].op = "dm" /\ acts[v].to = u
        BY <1>1, <2>1, <3>3, <4>1
      <4>3. {u, v} \in doubled' /\ {u, v} = {v, u}
        BY <4>1, <4>2
      <4>4. QED
        BY <3>3, <4>3
    <3>4. QED
      BY <3>1, <3>2, <3>3
  <2>2. QED
    BY <2>1 DEF Mutual
<1>5. ASSUME NEW x \in User, NEW v \in User, NEW d \in Channel, acts'[x] # None, acts'[x].op = "dm", acts'[x].to = v,
             acts'[x].at \in {"ask", "tasks"}
      PROVE  acts'[x] = acts[x]
  BY <1>1, <1>5
<1>6. OnePair' /\ OneNew'
  BY <1>4, <1>5, StillTogether, PairsStep DEF OneInv
<1>7. QED
  BY <1>3, <1>4, <1>6 DEF OneInv

LEMMA BeginOne ==
  ASSUME MemberShape, DeletedInv, OneInv, NEW u \in User, halfway' = halfway,
         \/ \E v \in User, op \in Op, c \in Channel : Begin(u, op, v, c) \/ BeginCreation(u, v, op, c)
         \/ BeginQuit(u)
  PROVE  OneInv'
<1>1. ASSUME NEW v \in User, NEW op \in Op, NEW c \in Channel, Begin(u, op, v, c) PROVE OneInv'
  <2> DEFINE r == [op |-> op, to |-> v, c |-> c, held |-> None, rank |-> RoleMember,
                   at |-> CASE op = "join" -> "link" [] op = "receipt" -> "tasks" [] OTHER -> "member",
                   todo |-> IF op = "receipt" THEN TasksOf(op, u, v, c) ELSE <<>>,
                   barred |-> <<v, u>> \in barred]
  <2>1. /\ acts[u] = None /\ acts' = [acts EXCEPT ![u] = r] /\ UNCHANGED <<chan, uc, mixed, doubled>>
        /\ op \notin Creates
    BY <1>1 DEF Begin, records
  <2>2. contested \subseteq contested'
    BY <1>1 DEF Begin
  <2>3. r.c = c /\ r.op = op /\ r.held = None /\ (op \notin {"join", "receipt"} => r.at = "member")
    OBVIOUS
  <2> HIDE DEF r
  <2>4. r.op # "dm" /\ (r.op \in {"join", "receipt"} \/ r.at = "member")
    BY <2>1, <2>3
  <2>5. QED
    BY <2>1, <2>2, <2>3, <2>4, BegunOne
<1>2. ASSUME NEW v \in User, NEW op \in Op, NEW c \in Channel, BeginCreation(u, v, op, c) PROVE OneInv'
  <2> DEFINE r == [op |-> op, to |-> v, c |-> c, held |-> None, rank |-> RoleOwner,
                   at |-> IF op = "dm" THEN "look" ELSE IF v # u THEN "ask" ELSE "tasks",
                   todo |-> IF v # u THEN <<>> ELSE Creation(u, {}, c, op),
                   barred |-> <<v, u>> \in barred]
  <2>1. /\ acts[u] = None /\ acts' = [acts EXCEPT ![u] = r] /\ UNCHANGED <<chan, uc, contested>>
        /\ op \in Creates /\ c \notin used /\ (op = "dm" => v # u) /\ mixed \subseteq mixed'
        /\ doubled' = IF op = "dm" /\ acts[v] # None /\ acts[v].op = "dm" /\ acts[v].to = u
                      THEN doubled \cup {{u, v}} ELSE doubled
    BY <1>2 DEF BeginCreation, IsNext
  <2>2. r.c = c /\ r.op = op /\ r.held = None /\ r.to = v /\ (op = "dm" => r.at = "look")
    OBVIOUS
  <2> HIDE DEF r
  <2>3. doubled \subseteq doubled'
    BY <2>1
  <2>4. ~Sound(r.c)
    BY <2>1, <2>2 DEF Sound, MemberShape, RecordShape
  <2>5. r.op = "dm" =>
           /\ r.at = "look" /\ r.to \in User /\ r.to # u
           /\ (acts[r.to] # None /\ acts[r.to].op = "dm" /\ acts[r.to].to = u) => {u, r.to} \in doubled'
    BY <2>1, <2>2
  <2>6. QED
    BY <2>1, <2>2, <2>3, <2>4, <2>5, BegunOne
<1>3. CASE BeginQuit(u)
  <2> DEFINE r == [op |-> "quit", to |-> u, c |-> Absent, held |-> None, rank |-> RoleMember,
                   at |-> "groups", todo |-> <<>>, barred |-> FALSE]
  <2>1. /\ acts[u] = None /\ acts' = [acts EXCEPT ![u] = r] /\ UNCHANGED <<chan, uc, contested, mixed, doubled>>
    BY <1>3 DEF BeginQuit, records, memberHistory
  <2>2. r.c \notin Channel /\ r.op = "quit" /\ r.held = None
    OBVIOUS
  <2> HIDE DEF r
  <2>3. QED
    BY <2>1, <2>2, BegunOne
<1>4. QED
  BY <1>1, <1>2, <1>3

\* A crash leaves the conversations that were being created as they are.
LEMMA BreakOne ==
  ASSUME MemberShape, OneInv, BreakActs
  PROVE  OneInv'
<1>1. /\ acts' = [u \in User |-> None] /\ UNCHANGED <<chan, uc, contested, mixed, doubled>>
      /\ halfway' = halfway \cup {acts[u].c : u \in {v \in User : acts[v] # None /\ acts[v].op = "dm"}}
  BY DEF BreakActs, records, memberHistory
<1>2. halfway \subseteq halfway' /\ \A x \in User : acts[x] # None /\ acts[x].op = "dm" => acts[x].c \in halfway'
  BY <1>1
<1>3. ASSUME NEW c \in Channel, Sound(c)' PROVE DmFits(c)'
  <2>1. Sound(c) /\ DmFits(c)
    BY <1>1, <1>2, <1>3, StillTogether DEF OneInv, DmInv
  <2>2. \A x \in User : ~OwnsStill(x, c)
    BY <1>2, <1>3 DEF OwnsStill, Sound
  <2>3. \A x \in User : MayCall(x, c)' /\ HeldFits(x, c)'
    BY <1>1 DEF MayCall, HeldFits
  <2>4. QED
    BY <1>1, <2>1, <2>2, <2>3, KeepsDm
<1>4. Mutual' /\ OneNew'
  BY <1>1 DEF Mutual, OneNew
<1>5. OnePair'
  BY <1>1, <1>2, StillTogether DEF OneInv, OnePair
<1>6. QED
  BY <1>3, <1>4, <1>5 DEF OneInv, DmInv

LEMMA OneStays ==
  ASSUME OneInv, UNCHANGED <<chan, uc, acts, contested, mixed, doubled, halfway>>
  PROVE  OneInv'
<1>1. \A c \in Channel : DmFits(c) => DmFits(c)'
  BY KeepsDm DEF DmFits, OwnsStill, MayCall, HeldFits, Active, Members
<1>2. DmInv'
  BY <1>1 DEF OneInv, DmInv, Sound
<1>3. \A u, v \in User, c \in Channel : Together(u, v, c)' <=> Together(u, v, c)
  BY DEF Together, Sound, Active
<1>4. Mutual'
  BY DEF OneInv, Mutual
<1>5. OnePair'
  BY <1>3 DEF OneInv, OnePair
<1>6. OneNew'
  BY <1>3 DEF OneInv, OneNew
<1>7. QED
  BY <1>2, <1>4, <1>5, <1>6, Zenon DEF OneInv

LEMMA OneStep ==
  ASSUME MemberShape, MemberShape', BarInv, DeletedInv, MakersInv, OneInv,
         MembershipCall \/ MembershipWork \/ BreakActs \/ UNCHANGED memberVars
  PROVE  OneInv'
<1>1. CASE MembershipCall \/ MembershipWork
  <2>1. halfway' = halfway
    BY <1>1 DEF MembershipCall, MembershipWork
  <2>2. ASSUME NEW c \in Channel, Message(c) PROVE OneInv'
    BY <2>1, <2>2, MessageShape, OneStays
  <2>3. QED
    BY <1>1, <2>1, <2>2, Steps, BeginOne, CalmOne, WritesOne
<1>2. CASE UNCHANGED memberVars
  BY <1>2, OneStays DEF memberVars, records, memberHistory
<1>3. QED
  BY <1>1, <1>2, BreakOne

-----------------------------------------------------------------------------
(* Memberships *)

LEMMA OneHolds == MemberShape /\ OneInv => OneConversation
<1> SUFFICES ASSUME MemberShape, OneInv, NEW c \in Channel, NEW d \in Channel, c # d, IsDM(c), IsDM(d),
                    Members(c) = Members(d), {c, d} \cap (halfway \cup contested \cup mixed) = {}
             PROVE  Members(c) \in doubled
  BY DEF OneConversation
<1>1. Sound(c) /\ Sound(d)
  BY DEF IsDM, Sound
<1>2. IsFiniteSet(Members(c))
  BY FS_Subset DEF Members
<1>3. PICK u, v \in Members(c) : u # v /\ Members(c) = {u, v}
  BY <1>2, TwoOf DEF IsDM
<1>4. u \in User /\ v \in User /\ Together(u, v, c) /\ Together(u, v, d)
  BY <1>1, <1>3 DEF Members, Together
<1>5. {u, v} \in doubled
  BY <1>3, <1>4 DEF OneInv, OnePair
<1>6. QED
  BY <1>3, <1>5

MembersInv == MemberShape /\ RemovedInv /\ forced = {} /\ DeletedInv /\ MakersInv /\ OneInv

LEMMA MembersHold == MembersInv => MembershipHolds
<1> SUFFICES ASSUME MembersInv PROVE MembershipHolds
  OBVIOUS
<1>1. RemovedStaysOut
  BY DEF MembersInv, RemovedInv, RemovedStaysOut
<1>2. DeletedIsGone
  BY DEF MembersInv, MemberShape, RecordShape, DeletedInv, DeletedAt, DeletedIsGone
<1>3. OneConversation /\ BlocksKeepOut
  BY OneHolds DEF MembersInv, BlocksKeepOut
<1>4. QED
  BY <1>1, <1>2, <1>3 DEF MembershipHolds

LEMMA MembersInit == MembershipInit => MembersInv
<1> SUFFICES ASSUME MembershipInit PROVE MembersInv
  OBVIOUS
<1>1. MemberShape
  BY InitShape
<1>2. acts = [u \in User |-> None] /\ out = {} /\ gone = {} /\ forced = {} /\ halfway = {}
  BY DEF MembershipInit
<1>3. RemovedInv /\ DeletedInv /\ MakersInv
  BY <1>2 DEF RemovedInv, DeletedInv, DeletedAt, Deleting, MakersInv, Making, Unmade
<1>4. ASSUME NEW c \in Channel, NEW d \in Channel, Sound(c), Sound(d)
      PROVE  c = d /\ \A x \in User : uc[<<x, c>>] = IF x \in Acquainted THEN Joined(RoleMember) ELSE Absent
  <2>1. chan[c] = "dm" /\ chan[d] = "dm" /\ c \notin mixed
    BY <1>4 DEF Sound
  <2>2. PICK e \in Channel, present \in {Acquainted, User} :
          /\ chan = [b \in Channel |-> IF b = e THEN "dm" ELSE Absent]
          /\ uc = [k \in Key |-> IF k[2] = e /\ k[1] \in present THEN Joined(RoleMember) ELSE Absent]
          /\ mixed = IF present = Acquainted THEN {} ELSE {e}
    BY <2>1 DEF MembershipInit
  <2>3. c = e /\ d = e
    BY <2>1, <2>2
  <2>4. present = Acquainted
    BY <2>1, <2>2, <2>3
  <2>5. \A x \in User : <<x, e>> \in Key /\ <<x, e>>[1] = x /\ <<x, e>>[2] = e
    BY DEF Key
  <2>6. QED
    BY <2>2, <2>3, <2>4, <2>5
<1>5. PICK a, b \in User : Acquainted = {a, b}
  <2>1. IsFiniteSet(Acquainted) /\ Acquainted \subseteq User
    BY FriendsAssumption, FS_Subset
  <2>2. PICK a, b \in Acquainted : Acquainted = {a, b}
    BY <2>1, TwoOf
  <2>3. QED
    BY <2>1, <2>2
<1>6. ASSUME NEW c \in Channel, Sound(c) PROVE DmFits(c)
  <2>1. \A x \in User : uc[<<x, c>>] = IF x \in Acquainted THEN Joined(RoleMember) ELSE Absent
    BY <1>4, <1>6
  <2>2. PairAt(c)
    BY <1>5, <2>1 DEF PairAt, Members, Active
  <2>3. RolesAt(c)
    BY <2>1 DEF RolesAt, Joined
  <2>4. \A x \in User : MayCall(x, c) /\ HeldFits(x, c)
    BY <1>2 DEF MayCall, HeldFits
  <2>5. QED
    BY <2>2, <2>3, <2>4 DEF DmFits
<1>7. OneInv
  BY <1>2, <1>4, <1>6 DEF OneInv, DmInv, Mutual, OnePair, OneNew, Together
<1>8. QED
  BY <1>1, <1>2, <1>3, <1>7 DEF MembersInv

LEMMA MembersStep ==
  ASSUME FriendShape, FriendInv, MembersInv,
         MembershipCall \/ MembershipWork \/ BreakActs \/ UNCHANGED memberVars
  PROVE  MembersInv'
<1>1. BarInv /\ barred \subseteq Pair
  BY DEF FriendShape, FriendInv
<1>2. MemberShape'
  BY <1>1, ShapeStep DEF MembersInv
<1>3. RemovedInv' /\ forced' = {}
  BY RemovedStep, BlockStep DEF MembersInv
<1>4. DeletedInv' /\ MakersInv'
  BY <1>1, <1>2, DeletedStep, MakersStep DEF MembersInv
<1>5. OneInv'
  BY <1>1, <1>2, OneStep DEF MembersInv
<1>6. QED
  BY <1>2, <1>3, <1>4, <1>5 DEF MembersInv

\* Whatever calls and crashes there are: who was removed stays out unless a record read
\* before was written back, a deleted channel is gone unless it was in use meanwhile, two
\* users have one conversation with the exceptions OneConversation names (a guest by a link
\* or a receipt is one), and nobody is added by whom he had blocked all the while.
THEOREM MembershipCorrect == ServerSpec => []MembershipHolds
<1>1. ServerInit => FriendShape /\ FriendInv /\ MembersInv
  BY FriendInit, MembersInit DEF ServerInit
<1>2. FriendShape /\ FriendInv /\ MembersInv /\ [ServerNext]_serverVars => (FriendShape /\ FriendInv /\ MembersInv)'
  BY FriendStep, MembersStep DEF ServerNext, Crash, serverVars
<1>3. MembersInv => MembershipHolds
  BY MembersHold
<1>4. QED
  BY <1>1, <1>2, <1>3, PTL DEF ServerSpec

=============================================================================
