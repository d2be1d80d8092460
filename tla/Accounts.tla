------------------------------ MODULE Accounts ------------------------------
(***************************************************************************)
(* Accounts, sessions and presence: auth.go and users.go of the API, the   *)
(* users of store.go, the session store of auth/auth.go with its copy on   *)
(* disk, and what a connection of the hub does to presence (hub.go         *)
(* ServeHTTP, ping).                                                       *)
(*                                                                         *)
(* A device is a browser or a desktop client. It holds a token at most, a  *)
(* connection at most, and makes one or two calls at once. Every read and  *)
(* every write of a record is a transaction; the record of a user is read  *)
(* whole and written back whole.                                           *)
(*                                                                         *)
(* The server may crash and start again: calls, connections and the        *)
(* sessions in memory are lost, and sessions are read from disk.           *)
(***************************************************************************)
EXTENDS Naturals, FiniteSets

CONSTANTS Device, Name,
          Account,     \* numbers, given in order
          Slot,        \* numbers; bound: calls at once
          MaxTokens,   \* bound: sessions created
          MaxDone,     \* bound: calls
          MaxOpened,   \* bound: connections made
          MaxLapses,   \* bound: crashes and expiries
          Nobody       \* no account, session, call, connection or record

ASSUME AccountsAssumption == /\ Account \cup Slot \subseteq Nat /\ IsFiniteSet(Device) /\ Name # {}
                             /\ {MaxTokens, MaxDone, MaxOpened, MaxLapses} \subseteq Nat

VARIABLES
  users,    \* account -> record, or Nobody before it is registered
  sessions, \* token -> its account in memory, or Nobody
  saved,    \* token -> its account on disk, or Nobody
  expired,  \* tokens past their time
  issued,   \* tokens created so far
  presence, \* account -> the presence record, or Nobody
  token,    \* device -> the token it holds, or Nobody
  line,     \* device -> the handler of its connection, or Nobody
  jobs,     \* slot -> a call, or Nobody
  done, opened, lapses,
  leaving,  \* tokens a logout or a deletion was asked with (history)
  ended,    \* tokens logged out, with an answer (history)
  erased,   \* accounts deleted, with an answer (history)
  clashed,  \* names that two calls asked for at once (history)
  rewritten,\* accounts written over what another wrote meanwhile (history)
  jumbled   \* accounts whose presence more than one call or connection set (history)

\* The next of the numbers not given yet.
IsLeast(a, ids) == a \in ids /\ \A b \in ids : a <= b

accountStore   == <<users, sessions, saved, expired, issued, presence>>
accountBounds  == <<done, opened, lapses>>
accountHistory == <<leaving, ended, erased, clashed, rewritten, jumbled>>
accountVars == <<accountStore, token, line, jobs, accountBounds, accountHistory>>

Token == 1 .. MaxTokens

DeletedName == "Deleted Account"

User0(name) == [name |-> name, password |-> TRUE, status |-> "offline", preference |-> "auto"]

Shows == {"offline", "online", "dnd"}

UserRecord == [name : Name \cup {DeletedName}, password : BOOLEAN,
               status : Shows \cup {"deleted"}, preference : {"auto", "dnd"}]

Stage == {"names", "create", "find", "remember", "save", "answer", "leave", "forget", "erase",
          "clear", "get", "anonymize", "rename", "show", "put"}

Phase == {"preference", "presence", "read", "status", "open",
          "closed", "offline", "offPreference", "offRead", "offStatus"}

JobRecord == [device : Device, call : {"register", "login", "logout", "delete", "rename", "prefer"},
              account : Account \cup {Nobody}, name : Name \cup {Nobody, "auto", "dnd"},
              token : Token \cup {Nobody}, held : UserRecord \cup {Nobody}, at : Stage]

LineRecord == [account : Account, at : Phase, status : Shows, auto : BOOLEAN,
               held : UserRecord \cup {Nobody}]

ASSUME NobodyAssumption ==
  Nobody \notin Account \cup Token \cup UserRecord \cup JobRecord \cup LineRecord

AccountsTypeOK ==
  /\ \A a \in Account : users[a] \in UserRecord \cup {Nobody} /\ presence[a] \in Shows \cup {Nobody}
  /\ \A t \in Token : {sessions[t], saved[t]} \subseteq Account \cup {Nobody}
  /\ expired \cup leaving \cup ended \subseteq Token /\ issued \in 0 .. MaxTokens
  /\ \A d \in Device : token[d] \in Token \cup {Nobody} /\ line[d] \in LineRecord \cup {Nobody}
  /\ \A j \in Slot : jobs[j] \in JobRecord \cup {Nobody}

\* Nobody is registered, or one user is and is logged in on every device.
AccountsInit ==
  /\ \/ /\ users = [a \in Account |-> Nobody] /\ issued = 0
        /\ saved = [t \in Token |-> Nobody] /\ token = [d \in Device |-> Nobody]
     \/ /\ Cardinality(Device) <= MaxTokens /\ issued = Cardinality(Device)
        /\ LET n == CHOOSE m \in Name : TRUE IN \E a \in Account :
             /\ IsLeast(a, Account)
             /\ users = [b \in Account |-> IF b = a THEN User0(n) ELSE Nobody]
             /\ saved = [t \in Token |-> IF t <= issued THEN a ELSE Nobody]
        /\ token \in [Device -> 1 .. issued] /\ \A t \in 1 .. issued : \E d \in Device : token[d] = t
  /\ sessions = saved /\ expired = {} /\ presence = [a \in Account |-> Nobody]
  /\ line = [d \in Device |-> Nobody] /\ jobs = [j \in Slot |-> Nobody]
  /\ done = 0 /\ opened = 0 /\ lapses = 0
  /\ leaving = {} /\ ended = {} /\ erased = {} /\ clashed = {} /\ rewritten = {} /\ jumbled = {}

-----------------------------------------------------------------------------
(* Who is at work *)

\* Validate
Valid(t) == t # Nobody /\ sessions[t] # Nobody /\ t \notin expired

About0(j, a) == jobs[j] # Nobody /\ jobs[j].account = a

LineOf(d, a) == line[d] # Nobody /\ line[d].account = a

Registered == {"preference", "presence", "read", "status", "open"}

\* Mutant: no other connection is counted.
Unconnected(a, d) == {}

\* Connections of the account that the hub has, d left out.
Connected(a, d) == {e \in Device \ {d} : LineOf(e, a) /\ line[e].at \in Registered}

\* Nothing but the connection of d, and open ones, is about the account.
Alone(a, d) == /\ \A j \in Slot : ~About0(j, a)
               /\ \A e \in Device \ {d} : LineOf(e, a) => line[e].at = "open"

\* A connection that opens while nothing else happens sets the presence right, and so does
\* the last one that closes.
Mixed(a, d, sets) == IF ~Alone(a, d) THEN jumbled \cup {a} ELSE IF sets THEN jumbled \ {a} ELSE jumbled

\* The whole record, as it was read and changed, is written.
PutUser(a, held, new) ==
  /\ users' = [users EXCEPT ![a] = new]
  /\ rewritten' = IF held # users[a] THEN rewritten \cup {a} ELSE rewritten

-----------------------------------------------------------------------------
(* Calls *)

NewCall(d, call, account, name, at) ==
  [device |-> d, call |-> call, account |-> account, name |-> name, token |-> token[d],
   held |-> Nobody, at |-> at]

Hire(j, job) == jobs[j] = Nobody /\ (\A k \in Slot : k < j => jobs[k] # Nobody) /\ done < MaxDone /\ done' = done + 1
                /\ jobs' = [jobs EXCEPT ![j] = job]

\* Calls that ask for a name.
Asking(n) == \E j \in Slot : jobs[j] # Nobody /\ jobs[j].name = n /\ jobs[j].call # "login"

CallRegister(d, j, n) ==
  /\ token[d] = Nobody /\ Hire(j, NewCall(d, "register", Nobody, n, "names"))
  /\ clashed' = IF Asking(n) THEN clashed \cup {n} ELSE clashed
  /\ UNCHANGED <<accountStore, token, line, opened, lapses, leaving, ended, erased, rewritten, jumbled>>

CallLogin(d, j, n) ==
  /\ token[d] = Nobody /\ Hire(j, NewCall(d, "login", Nobody, n, "find"))
  /\ UNCHANGED <<accountStore, token, line, opened, lapses, accountHistory>>

\* Require. A session that expired is deleted; a client that is refused logs itself out.
Authorized(d, j, call, n, at) ==
  LET t == token[d]  a == sessions[t] IN
    /\ t # Nobody
    /\ IF Valid(t)
       THEN /\ Hire(j, NewCall(d, call, a, n, at)) /\ jumbled' = jumbled \cup {a}
            /\ UNCHANGED <<token, sessions, saved>>
       ELSE /\ done < MaxDone /\ done' = done + 1 /\ token' = [token EXCEPT ![d] = Nobody]
            /\ sessions' = [sessions EXCEPT ![t] = Nobody]
            /\ saved' = IF a # Nobody THEN [saved EXCEPT ![t] = Nobody] ELSE saved
            /\ UNCHANGED <<jobs, jumbled>>
    /\ UNCHANGED <<users, expired, issued, presence, line, opened, lapses, ended, erased, rewritten>>

CallLogout(d, j) ==
  /\ Authorized(d, j, "logout", Nobody, "leave")
  /\ leaving' = leaving \cup {token[d]} /\ UNCHANGED clashed

CallDelete(d, j) ==
  /\ Authorized(d, j, "delete", Nobody, "clear")
  /\ leaving' = leaving \cup {token[d]} /\ UNCHANGED clashed

CallRename(d, j, n) ==
  /\ Authorized(d, j, "rename", n, "get") /\ UNCHANGED leaving
  /\ clashed' = IF Asking(n) THEN clashed \cup {n} ELSE clashed

\* The name of the call is what the user prefers from now on.
CallPrefer(d, j, preference) ==
  Authorized(d, j, "prefer", preference, "get") /\ UNCHANGED <<leaving, clashed>>

-----------------------------------------------------------------------------
(* Their steps *)

Step(j, at) == jobs[j] # Nobody /\ jobs[j].at = at

NextAt(j, at) == jobs' = [jobs EXCEPT ![j].at = at]

Over(j) == jobs' = [jobs EXCEPT ![j] = Nobody]

\* Mutant: any name is free.
NeverTaken(n, a) == FALSE

Taken(n, a) == \E b \in Account \ {a} : users[b] # Nobody /\ users[b].name = n

\* GetUserByUsername, of a registration and of a new name. The session is given the name,
\* in memory and on disk, before the record of the user.
CheckNames(j) ==
  LET job == jobs[j] IN
    /\ Step(j, "names")
    /\ IF Taken(job.name, job.account) THEN Over(j) /\ UNCHANGED saved
       ELSE IF job.call = "register" THEN NextAt(j, "create") /\ UNCHANGED saved
       ELSE /\ NextAt(j, "put")
            /\ saved' = IF sessions[job.token] # Nobody
                        THEN [saved EXCEPT ![job.token] = sessions[job.token]] ELSE saved
    /\ UNCHANGED <<users, sessions, expired, issued, presence, token, line, accountBounds,
                   accountHistory>>

CreateUser(j) ==
  /\ Step(j, "create")
  /\ \E a \in Account : /\ IsLeast(a, {b \in Account : users[b] = Nobody})
                        /\ users' = [users EXCEPT ![a] = User0(jobs[j].name)]
  /\ Over(j)
  /\ UNCHANGED <<sessions, saved, expired, issued, presence, token, line, accountBounds,
                 accountHistory>>

\* AuthenticateUser, with the right password.
Authenticate(j) ==
  LET who == {a \in Account : users[a] # Nobody /\ users[a].name = jobs[j].name} IN
    /\ Step(j, "find")
    /\ IF who = {} THEN Over(j)
       ELSE \E a \in who :
              IF users[a].password
              THEN jobs' = [jobs EXCEPT ![j] = [@ EXCEPT !.account = a, !.at = "remember"]]
              ELSE Over(j)
    /\ UNCHANGED <<accountStore, token, line, accountBounds, accountHistory>>

\* Create of the session store: in memory, then on disk.
Remember(j) ==
  /\ Step(j, "remember") /\ issued < MaxTokens /\ issued' = issued + 1
  /\ sessions' = [sessions EXCEPT ![issued'] = jobs[j].account]
  /\ jobs' = [jobs EXCEPT ![j] = [@ EXCEPT !.token = issued', !.at = "save"]]
  /\ UNCHANGED <<users, saved, expired, presence, token, line, accountBounds, accountHistory>>

Save(j) ==
  /\ Step(j, "save") /\ saved' = [saved EXCEPT ![jobs[j].token] = jobs[j].account]
  /\ NextAt(j, "answer")
  /\ UNCHANGED <<users, sessions, expired, issued, presence, token, line, accountBounds,
                 accountHistory>>

\* SetPresence of a logout, and DeletePresence.
Leave(j) ==
  /\ Step(j, "leave") /\ presence' = [presence EXCEPT ![jobs[j].account] = "offline"]
  /\ NextAt(j, "forget")
  /\ UNCHANGED <<users, sessions, saved, expired, issued, token, line, accountBounds,
                 accountHistory>>

ClearPresence(j) ==
  /\ Step(j, "clear") /\ presence' = [presence EXCEPT ![jobs[j].account] = Nobody]
  /\ NextAt(j, "get")
  /\ UNCHANGED <<users, sessions, saved, expired, issued, token, line, accountBounds,
                 accountHistory>>

GetUser(j) ==
  LET job == jobs[j] IN
    /\ Step(j, "get")
    /\ jobs' = [jobs EXCEPT ![j] = [@ EXCEPT !.held = users[job.account],
         !.at = CASE job.call = "delete" -> "anonymize"
                  [] job.call = "rename" -> "names"
                  [] job.call = "prefer" -> "show"]]
    /\ UNCHANGED <<accountStore, token, line, accountBounds, accountHistory>>

\* DeleteUser keeps the record, without name and password.
Anonymize(j) ==
  LET job == jobs[j] IN
    /\ Step(j, "anonymize")
    /\ PutUser(job.account, job.held,
               [job.held EXCEPT !.name = DeletedName, !.password = FALSE, !.status = "deleted"])
    /\ NextAt(j, "forget")
    /\ UNCHANGED <<sessions, saved, expired, issued, presence, token, line, accountBounds,
                   leaving, ended, erased, clashed, jumbled>>

\* Delete of the session store: from memory, then from disk.
Forget(j) ==
  /\ Step(j, "forget") /\ sessions' = [sessions EXCEPT ![jobs[j].token] = Nobody]
  /\ NextAt(j, "erase")
  /\ UNCHANGED <<users, saved, expired, issued, presence, token, line, accountBounds,
                 accountHistory>>

\* Mutant: the copy on disk is left.
LeaveSaved(j) ==
  /\ Step(j, "erase") /\ NextAt(j, "answer")
  /\ UNCHANGED <<accountStore, token, line, accountBounds, accountHistory>>

EraseSaved(j) ==
  /\ Step(j, "erase") /\ saved' = [saved EXCEPT ![jobs[j].token] = Nobody]
  /\ NextAt(j, "answer")
  /\ UNCHANGED <<users, sessions, expired, issued, presence, token, line, accountBounds,
                 accountHistory>>

\* What UpdateProfile shows of a preference: with "auto" the user is online.
Shown(preference) == IF preference = "auto" THEN "online" ELSE preference

ShowPreference(j) ==
  LET job == jobs[j] IN
    /\ Step(j, "show") /\ presence' = [presence EXCEPT ![job.account] = Shown(job.name)]
    /\ NextAt(j, "put")
    /\ UNCHANGED <<users, sessions, saved, expired, issued, token, line, accountBounds,
                   accountHistory>>

UpdateUser(j) ==
  LET job == jobs[j] IN
    /\ Step(j, "put")
    /\ PutUser(job.account, job.held,
               IF job.call = "rename" THEN [job.held EXCEPT !.name = job.name]
               ELSE [job.held EXCEPT !.preference = job.name, !.status = Shown(job.name)])
    /\ Over(j)
    /\ UNCHANGED <<sessions, saved, expired, issued, presence, token, line, accountBounds,
                   leaving, ended, erased, clashed, jumbled>>

\* A login gives the device its token; the other two take it away.
Answer(j) ==
  LET job == jobs[j]  login == job.call = "login" IN
    /\ Step(j, "answer") /\ Over(j)
    /\ token' = [token EXCEPT ![job.device] = IF login THEN job.token ELSE Nobody]
    /\ ended' = IF login THEN ended ELSE ended \cup {job.token}
    /\ erased' = IF job.call = "delete" THEN erased \cup {job.account} ELSE erased
    /\ UNCHANGED <<accountStore, line, accountBounds, leaving, clashed, rewritten, jumbled>>

-----------------------------------------------------------------------------
(* Connections: ServeHTTP of the hub *)

\* The token is validated and the connection registered.
Open(d) ==
  LET a == sessions[token[d]] IN
    /\ line[d] = Nobody /\ Valid(token[d])
    /\ opened < MaxOpened /\ opened' = opened + 1
    /\ line' = [line EXCEPT ![d] = [account |-> a, at |-> "preference", status |-> "online",
                                    auto |-> TRUE, held |-> Nobody]]
    /\ jumbled' = Mixed(a, d, TRUE)
    /\ UNCHANGED <<accountStore, token, jobs, done, lapses, leaving, ended, erased, clashed, rewritten>>

InPhase(d, at) == line[d] # Nobody /\ line[d].at = at

\* The preference decides what is shown, and whether the record of the user follows.
ReadPreference(d) ==
  LET u == users[line[d].account] IN
    /\ InPhase(d, "preference")
    /\ line' = [line EXCEPT ![d] = [@ EXCEPT !.at = "presence", !.auto = u.preference = "auto",
                  !.status = IF u.preference = "auto" THEN "online" ELSE u.preference]]
    /\ UNCHANGED <<accountStore, token, jobs, accountBounds, accountHistory>>

SetPresence(d) ==
  /\ InPhase(d, "presence")
  /\ presence' = [presence EXCEPT ![line[d].account] = line[d].status]
  /\ line' = [line EXCEPT ![d].at = IF line[d].auto THEN "read" ELSE "open"]
  /\ UNCHANGED <<users, sessions, saved, expired, issued, token, jobs, accountBounds,
                 accountHistory>>

\* UpdateUserStatus reads the record and writes it back.
ReadUser(d) ==
  /\ line[d] # Nobody /\ line[d].at \in {"read", "offRead"}
  /\ line' = [line EXCEPT ![d] = [@ EXCEPT !.held = users[line[d].account],
                !.at = IF line[d].at = "read" THEN "status" ELSE "offStatus"]]
  /\ UNCHANGED <<accountStore, token, jobs, accountBounds, accountHistory>>

WriteStatus(d) ==
  LET l == line[d] IN
    /\ l # Nobody /\ l.at \in {"status", "offStatus"}
    /\ PutUser(l.account, l.held, [l.held EXCEPT !.status = l.status])
    /\ line' = [line EXCEPT ![d] = IF l.at = "status" THEN [l EXCEPT !.at = "open", !.held = Nobody]
                                                      ELSE Nobody]
    /\ UNCHANGED <<sessions, saved, expired, issued, presence, token, jobs, accountBounds,
                   leaving, ended, erased, clashed, jumbled>>

\* A ping shows the user online, whatever he prefers.
Ping(d) ==
  LET a == line[d].account IN
    /\ InPhase(d, "open") /\ presence[a] # "online"
    /\ presence' = [presence EXCEPT ![a] = "online"]
    /\ jumbled' = IF users[a].preference = "auto" THEN jumbled ELSE jumbled \cup {a}
    /\ UNCHANGED <<users, sessions, saved, expired, issued, token, line, jobs, accountBounds,
                   leaving, ended, erased, clashed, rewritten>>

\* The connection is over and unregistered.
Close(d) ==
  /\ InPhase(d, "open")
  /\ line' = [line EXCEPT ![d].at = "closed"]
  /\ jumbled' = Mixed(line[d].account, d, Connected(line[d].account, d) = {})
  /\ UNCHANGED <<accountStore, token, jobs, accountBounds, leaving, ended, erased, clashed, rewritten>>

\* stillConnected is read after the cleanup of the rest.
CheckConnected(d) ==
  /\ InPhase(d, "closed")
  /\ line' = [line EXCEPT ![d] = IF Connected(line[d].account, d) = {}
                                 THEN [@ EXCEPT !.at = "offline", !.status = "offline"] ELSE Nobody]
  /\ UNCHANGED <<accountStore, token, jobs, accountBounds, accountHistory>>

SetOffline(d) ==
  /\ InPhase(d, "offline")
  /\ presence' = [presence EXCEPT ![line[d].account] = "offline"]
  /\ line' = [line EXCEPT ![d].at = "offPreference"]
  /\ UNCHANGED <<users, sessions, saved, expired, issued, token, jobs, accountBounds,
                 accountHistory>>

ReadOffPreference(d) ==
  /\ InPhase(d, "offPreference")
  /\ line' = [line EXCEPT ![d] = IF users[line[d].account].preference = "auto"
                                 THEN [@ EXCEPT !.at = "offRead"] ELSE Nobody]
  /\ UNCHANGED <<accountStore, token, jobs, accountBounds, accountHistory>>

-----------------------------------------------------------------------------
(* Time and crashes *)

Expire(t) ==
  /\ lapses < MaxLapses /\ lapses' = lapses + 1
  /\ sessions[t] # Nobody /\ t \notin expired /\ expired' = expired \cup {t}
  /\ UNCHANGED <<users, sessions, saved, issued, presence, token, line, jobs, done, opened,
                 accountHistory>>

\* The sweeper holds the lock while it deletes from both.
SweepExpired ==
  /\ \E t \in expired : sessions[t] # Nobody
  /\ sessions' = [t \in Token |-> IF t \in expired THEN Nobody ELSE sessions[t]]
  /\ saved' = [t \in Token |-> IF t \in expired /\ sessions[t] # Nobody THEN Nobody ELSE saved[t]]
  /\ UNCHANGED <<users, expired, issued, presence, token, line, jobs, accountBounds,
                 accountHistory>>

\* NewSessionStore reads what is on disk. Who was connected is still shown so.
Restart ==
  /\ lapses < MaxLapses /\ lapses' = lapses + 1
  /\ saved' = [t \in Token |-> IF t \in expired THEN Nobody ELSE saved[t]]
  /\ sessions' = saved'
  /\ jobs' = [j \in Slot |-> Nobody] /\ line' = [d \in Device |-> Nobody]
  /\ jumbled' = jumbled \cup {a \in Account : (\E d \in Device : LineOf(d, a))
                                            \/ (\E j \in Slot : About0(j, a))}
  /\ UNCHANGED <<users, expired, issued, presence, token, done, opened, leaving, ended, erased,
                 clashed, rewritten>>

-----------------------------------------------------------------------------
AccountsCall ==
  \E j \in Slot, d \in Device :
    \/ CallLogout(d, j) \/ CallDelete(d, j)
    \/ \E n \in Name : CallRegister(d, j, n) \/ CallLogin(d, j, n) \/ CallRename(d, j, n)
    \/ \E p \in {"auto", "dnd"} : CallPrefer(d, j, p)

AccountsWork ==
  \/ \E j \in Slot :
       \/ CheckNames(j) \/ CreateUser(j) \/ Authenticate(j) \/ Remember(j) \/ Save(j)
       \/ Leave(j) \/ ClearPresence(j) \/ GetUser(j) \/ Anonymize(j) \/ Forget(j)
       \/ EraseSaved(j) \/ ShowPreference(j) \/ UpdateUser(j) \/ Answer(j)
  \/ \E d \in Device :
       \/ Open(d) \/ ReadPreference(d) \/ SetPresence(d) \/ ReadUser(d) \/ WriteStatus(d)
       \/ Ping(d) \/ Close(d) \/ CheckConnected(d) \/ SetOffline(d) \/ ReadOffPreference(d)
  \/ \E t \in Token : Expire(t)
  \/ SweepExpired

-----------------------------------------------------------------------------
(* Properties *)

\* A token that was logged out is valid never again, not after a crash either; one that a
\* device was given stays valid until it asks for that, or until it expires.
SessionsHold ==
  /\ \A t \in ended : sessions[t] = Nobody /\ saved[t] = Nobody
  /\ \A d \in Device : LET t == token[d] IN
       t \notin expired \cup leaving \cup {Nobody} => sessions[t] # Nobody /\ saved[t] = sessions[t]

\* Two users do not share a name, and a deleted account has no password again, unless two
\* calls asked for the name at once or a record was written over a newer one.
AccountsHold ==
  /\ \A a, b \in Account : a # b /\ Nobody \notin {users[a], users[b]} /\ users[a].name = users[b].name =>
       users[a].name \in clashed \cup {DeletedName} \/ {a, b} \cap rewritten # {}
  /\ \A a \in erased \ rewritten : ~users[a].password

\* When nothing about a user is under way, he is shown as he prefers if he is connected
\* and offline otherwise, unless connections or calls of his overlapped, or the server
\* crashed.
PresenceIsTrue ==
  \A a \in Account \ jumbled :
    /\ users[a] # Nobody
    /\ \A j \in Slot : ~About0(j, a)
    /\ \A d \in Device : LineOf(d, a) => line[d].at = "open"
    =>
    LET here == \E d \in Device : LineOf(d, a)
        preference == users[a].preference IN
      /\ IF here THEN presence[a] = Shown(preference) ELSE presence[a] \in {"offline", Nobody}
      /\ preference = "auto" => users[a].status = IF here THEN "online" ELSE "offline"
=============================================================================
