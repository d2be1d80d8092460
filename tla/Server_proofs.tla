----------------------------- MODULE Server_proofs -----------------------------
(***************************************************************************)
(* Proofs about the server with its store, for any number of users,        *)
(* channels, accounts, devices and calls at once, any plan and any crash.  *)
(***************************************************************************)
EXTENDS Server, FiniteSetTheorems, TLAPS

-----------------------------------------------------------------------------
(* Accounts, sessions and presence *)

AccountShape ==
  /\ users \in [Account -> UserRecord \cup {Nobody}]
  /\ sessions \in [Token -> Account \cup {Nobody}] /\ saved \in [Token -> Account \cup {Nobody}]
  /\ expired \subseteq Token /\ issued \in 0 .. MaxTokens
  /\ presence \in [Account -> Shows \cup {Nobody}]
  /\ token \in [Device -> Token \cup {Nobody}]
  /\ line \in [Device -> LineRecord \cup {Nobody}]
  /\ jobs \in [Slot -> JobRecord \cup {Nobody}]
  /\ leaving \subseteq Token /\ ended \subseteq Token /\ erased \subseteq Account

\* Who is known has been registered.
Known(a) == a \in Account /\ users[a] # Nobody

\* What a call has at each place.
JobOK(j) ==
  jobs[j] # Nobody =>
    LET job == jobs[j] IN
      \/ /\ job.call = "register" /\ job.at \in {"names", "create"}
         /\ job.account = Nobody /\ job.name \in Name
      \/ /\ job.call = "login" /\ job.at \in {"find", "remember"} /\ job.token = Nobody
         /\ IF job.at = "find" THEN job.account = Nobody ELSE Known(job.account)
      \/ /\ job.call = "login" /\ job.at \in {"save", "answer"} /\ job.token \in Token
         /\ Known(job.account)
      \/ /\ job.call = "logout" /\ job.at \in {"leave", "forget", "erase", "answer"}
         /\ job.token \in leaving /\ Known(job.account)
      \/ /\ job.call = "delete"
         /\ job.at \in {"clear", "get", "anonymize", "forget", "erase", "answer"}
         /\ job.token \in leaving /\ Known(job.account)
         /\ job.at = "anonymize" => job.held # Nobody
      \/ /\ job.call = "rename" /\ job.at \in {"get", "names", "put"} /\ job.name \in Name
         /\ job.token \in Token /\ Known(job.account)
         /\ job.at # "get" => job.held # Nobody
      \/ /\ job.call = "prefer" /\ job.at \in {"get", "show", "put"} /\ job.name \in {"auto", "dnd"}
         /\ job.token \in Token /\ Known(job.account)
         /\ job.at # "get" => job.held # Nobody

LineOK(d) ==
  line[d] # Nobody =>
    /\ Known(line[d].account)
    /\ line[d].at \in {"status", "offStatus"} => line[d].held # Nobody

SessionsKnown == \A t \in Token : sessions[t] # Nobody => Known(sessions[t])
SavedKnown    == \A t \in Token : saved[t] # Nobody => Known(saved[t])

AccountTypes ==
  /\ AccountShape
  /\ SessionsKnown /\ SavedKnown
  /\ \A j \in Slot : JobOK(j)
  /\ \A d \in Device : LineOK(d)

USE AccountsAssumption, NobodyAssumption

\* What is known of a slot, a device or a token is kept by what happens elsewhere.
LEMMA TypesKept ==
  ASSUME AccountTypes, AccountShape', \A a \in Account : users[a] # Nobody => users'[a] # Nobody,
         leaving \subseteq leaving',
         UNCHANGED sessions \/ SessionsKnown', UNCHANGED saved \/ SavedKnown',
         \A k \in Slot : jobs'[k] = jobs[k] \/ JobOK(k)',
         \A e \in Device : line'[e] = line[e] \/ LineOK(e)'
  PROVE  AccountTypes'
<1>1. SessionsKnown' /\ SavedKnown'
  BY DEF AccountTypes, AccountShape, SessionsKnown, SavedKnown, Known
<1>2. \A k \in Slot : JobOK(k)'
  BY DEF AccountTypes, JobOK, Known
<1>3. \A e \in Device : LineOK(e)'
  BY DEF AccountTypes, LineOK, Known
<1>4. QED
  BY <1>1, <1>2, <1>3 DEF AccountTypes

LEMMA HireType ==
  ASSUME AccountTypes, NEW j \in Slot, NEW d \in Device, token[d] \in Token \cup {Nobody},
         NEW call \in {"register", "login", "logout", "delete", "rename", "prefer"},
         NEW a \in Account \cup {Nobody}, NEW n \in Name \cup {Nobody, "auto", "dnd"}, NEW at \in Stage,
         Hire(j, NewCall(d, call, a, n, at))
  PROVE  /\ jobs' \in [Slot -> JobRecord \cup {Nobody}]
         /\ \A k \in Slot \ {j} : jobs'[k] = jobs[k]
         /\ jobs'[j] = NewCall(d, call, a, n, at)
  BY DEF Hire, NewCall, JobRecord, AccountTypes, AccountShape

\* What the call of j does to the other slots, where it goes on or ends.
LEMMA JobType ==
  ASSUME AccountTypes, NEW j \in Slot, NEW new \in JobRecord \cup {Nobody}, jobs' = [jobs EXCEPT ![j] = new]
  PROVE  /\ jobs' \in [Slot -> JobRecord \cup {Nobody}]
         /\ \A k \in Slot \ {j} : jobs'[k] = jobs[k]
         /\ jobs'[j] = new
  BY DEF AccountTypes, AccountShape

LEMMA NextAtType ==
  ASSUME AccountTypes, NEW j \in Slot, jobs[j] # Nobody, NEW at \in Stage, NextAt(j, at)
  PROVE  /\ jobs' \in [Slot -> JobRecord \cup {Nobody}]
         /\ \A k \in Slot \ {j} : jobs'[k] = jobs[k]
         /\ jobs'[j] = [jobs[j] EXCEPT !.at = at] /\ jobs[j] \in JobRecord
         /\ jobs'[j] \in JobRecord
<1>1. jobs[j] \in JobRecord
  BY DEF AccountTypes, AccountShape
<1>2. [jobs[j] EXCEPT !.at = at] \in JobRecord
  BY <1>1 DEF JobRecord
<1>3. jobs' = [jobs EXCEPT ![j] = [jobs[j] EXCEPT !.at = at]]
  BY DEF NextAt
<1>4. QED
  BY <1>1, <1>2, <1>3 DEF AccountTypes, AccountShape

\* A record that is written is of somebody who is registered, and of the right type.
LEMMA PutType ==
  ASSUME AccountTypes, NEW a, Known(a), NEW held, NEW new \in UserRecord, PutUser(a, held, new)
  PROVE  /\ users' \in [Account -> UserRecord \cup {Nobody}]
         /\ \A b \in Account : users[b] # Nobody => users'[b] # Nobody
         /\ \A b \in Account : b # a => users'[b] = users[b]
         /\ users'[a] = new /\ new # Nobody
  BY DEF AccountTypes, AccountShape, PutUser, Known

LEMMA AccountTypesInit == AccountsInit => AccountTypes
<1> SUFFICES ASSUME AccountsInit PROVE AccountTypes
  OBVIOUS
<1>1. /\ users \in [Account -> UserRecord \cup {Nobody}]
      /\ saved \in [Token -> Account \cup {Nobody}] /\ SavedKnown
      /\ token \in [Device -> Token \cup {Nobody}] /\ issued \in 0 .. MaxTokens
  <2>1. CASE /\ users = [a \in Account |-> Nobody] /\ issued = 0
             /\ saved = [t \in Token |-> Nobody] /\ token = [d \in Device |-> Nobody]
    BY <2>1 DEF SavedKnown
  <2>2. ASSUME NEW a \in Account, NEW n \in Name, Cardinality(Device) <= MaxTokens,
               issued = Cardinality(Device),
               users = [b \in Account |-> IF b = a THEN User0(n) ELSE Nobody],
               saved = [t \in Token |-> IF t <= issued THEN a ELSE Nobody],
               token \in [Device -> 1 .. issued]
        PROVE  /\ users \in [Account -> UserRecord \cup {Nobody}]
               /\ saved \in [Token -> Account \cup {Nobody}] /\ SavedKnown
               /\ token \in [Device -> Token \cup {Nobody}] /\ issued \in 0 .. MaxTokens
    <3>1. User0(n) \in UserRecord
      BY DEF User0, UserRecord, Shows
    <3>2. issued \in 0 .. MaxTokens
      BY <2>2, FS_CardinalityType
    <3>3. 1 .. issued \subseteq Token
      BY <3>2 DEF Token
    <3>4. QED
      BY <2>2, <3>1, <3>2, <3>3 DEF SavedKnown, Known
  <2>3. (CHOOSE m \in Name : TRUE) \in Name
    OBVIOUS
  <2>4. QED
    BY <2>1, <2>2, <2>3 DEF AccountsInit
<1>2. sessions = saved
  BY DEF AccountsInit
<1>3. AccountShape
  BY <1>1, <1>2 DEF AccountsInit, AccountShape
<1>4. QED
  BY <1>1, <1>2, <1>3 DEF AccountsInit, AccountTypes, SessionsKnown, SavedKnown, JobOK, LineOK

-----------------------------------------------------------------------------

LEMMA CallTypes ==
  ASSUME AccountTypes, AccountsCall
  PROVE  AccountTypes'
<1> PICK j \in Slot, d \in Device :
      \/ CallLogout(d, j) \/ CallDelete(d, j)
      \/ \E n \in Name : CallRegister(d, j, n) \/ CallLogin(d, j, n) \/ CallRename(d, j, n)
      \/ \E p \in {"auto", "dnd"} : CallPrefer(d, j, p)
  BY DEF AccountsCall
<1>1. ASSUME NEW n \in Name, CallRegister(d, j, n) \/ CallLogin(d, j, n) PROVE AccountTypes'
  <2>1. /\ jobs' \in [Slot -> JobRecord \cup {Nobody}]
        /\ \A k \in Slot \ {j} : jobs'[k] = jobs[k]
        /\ JobOK(j)'
    <3>1. CASE CallRegister(d, j, n)
      <4>1. Hire(j, NewCall(d, "register", Nobody, n, "names")) /\ token[d] = Nobody
        BY <3>1 DEF CallRegister
      <4>2. "names" \in Stage
        BY DEF Stage
      <4>3. QED
        BY <4>1, <4>2, HireType DEF NewCall, JobOK
    <3>2. CASE CallLogin(d, j, n)
      <4>1. Hire(j, NewCall(d, "login", Nobody, n, "find")) /\ token[d] = Nobody
        BY <3>2 DEF CallLogin
      <4>2. "find" \in Stage
        BY DEF Stage
      <4>3. QED
        BY <4>1, <4>2, HireType DEF NewCall, JobOK
    <3>3. QED
      BY <1>1, <3>1, <3>2
  <2>2. UNCHANGED <<accountStore, token, line, leaving, ended, erased>>
    BY <1>1 DEF CallRegister, CallLogin, accountHistory
  <2>3. AccountShape'
    BY <2>1, <2>2 DEF AccountTypes, AccountShape, accountStore
  <2>4. QED
    BY <2>1, <2>2, <2>3, TypesKept DEF accountStore
<1>2. ASSUME NEW call \in {"logout", "delete", "rename", "prefer"}, NEW n \in Name \cup {Nobody, "auto", "dnd"},
             NEW at \in Stage, Authorized(d, j, call, n, at),
             leaving' = IF call \in {"logout", "delete"} THEN leaving \cup {token[d]} ELSE leaving,
             \/ call = "logout" /\ at = "leave"
             \/ call = "delete" /\ at = "clear"
             \/ call = "rename" /\ at = "get" /\ n \in Name
             \/ call = "prefer" /\ at = "get" /\ n \in {"auto", "dnd"}
      PROVE  AccountTypes'
  <2>1. /\ token[d] \in Token
        /\ UNCHANGED <<users, expired, issued, presence, line, ended, erased>>
    BY <1>2 DEF Authorized, AccountTypes, AccountShape
  <2>2. CASE Valid(token[d])
    <3>1. sessions[token[d]] \in Account /\ Known(sessions[token[d]])
      BY <2>1, <2>2 DEF Valid, AccountTypes, AccountShape, SessionsKnown, Known
    <3>2. /\ Hire(j, NewCall(d, call, sessions[token[d]], n, at))
          /\ UNCHANGED <<token, sessions, saved>>
      BY <1>2, <2>2 DEF Authorized
    <3>3. /\ jobs' \in [Slot -> JobRecord \cup {Nobody}]
          /\ \A k \in Slot \ {j} : jobs'[k] = jobs[k]
          /\ jobs'[j] = NewCall(d, call, sessions[token[d]], n, at)
      BY <2>1, <3>1, <3>2, HireType
    <3>4. JobOK(j)'
      BY <1>2, <2>1, <3>1, <3>3 DEF JobOK, NewCall, Known
    <3>5. AccountShape'
      BY <1>2, <2>1, <3>2, <3>3 DEF AccountTypes, AccountShape
    <3>6. QED
      BY <1>2, <2>1, <3>2, <3>3, <3>4, <3>5, TypesKept
  <2>3. CASE ~Valid(token[d])
    <3>1. /\ token' = [token EXCEPT ![d] = Nobody] /\ UNCHANGED jobs
          /\ sessions' = [sessions EXCEPT ![token[d]] = Nobody]
          /\ saved' = saved \/ saved' = [saved EXCEPT ![token[d]] = Nobody]
      BY <1>2, <2>3 DEF Authorized
    <3>2. AccountShape'
      BY <1>2, <2>1, <3>1 DEF AccountTypes, AccountShape
    <3>3. SessionsKnown' /\ SavedKnown'
      BY <2>1, <3>1 DEF AccountTypes, AccountShape, SessionsKnown, SavedKnown, Known
    <3>4. QED
      BY <1>2, <2>1, <3>1, <3>2, <3>3, TypesKept
  <2>4. QED
    BY <2>2, <2>3
<1>3. CASE CallLogout(d, j)
  BY <1>3, <1>2 DEF CallLogout, Stage
<1>4. CASE CallDelete(d, j)
  BY <1>4, <1>2 DEF CallDelete, Stage
<1>5. ASSUME NEW n \in Name, CallRename(d, j, n) PROVE AccountTypes'
  BY <1>5, <1>2 DEF CallRename, Stage
<1>6. ASSUME NEW p \in {"auto", "dnd"}, CallPrefer(d, j, p) PROVE AccountTypes'
  BY <1>6, <1>2 DEF CallPrefer, Stage
<1>7. QED
  BY <1>1, <1>3, <1>4, <1>5, <1>6
-----------------------------------------------------------------------------
LEMMA JobStepTypes ==
  ASSUME AccountTypes, NEW j \in Slot,
         \/ CheckNames(j) \/ CreateUser(j) \/ Authenticate(j) \/ Remember(j) \/ Save(j)
         \/ Leave(j) \/ ClearPresence(j) \/ GetUser(j) \/ Anonymize(j) \/ Forget(j)
         \/ EraseSaved(j) \/ ShowPreference(j) \/ UpdateUser(j) \/ Answer(j)
  PROVE  AccountTypes'
<1> DEFINE job == jobs[j]
<1> USE DEF accountStore, accountBounds, accountHistory
<1>1. job \in JobRecord /\ JobOK(j) /\ job # Nobody
  BY DEF AccountTypes, AccountShape, CheckNames, CreateUser, Authenticate, Remember, Save, Leave,
         ClearPresence, GetUser, Anonymize, Forget, EraseSaved, ShowPreference, UpdateUser, Answer, Step
<1>2. CASE CheckNames(j)
  <2>1. CASE Over(j) /\ UNCHANGED saved
    <3>1. AccountShape'
      BY <1>2, <2>1, JobType DEF CheckNames, Over, AccountTypes, AccountShape
    <3>2. QED
      BY <1>2, <2>1, <3>1, TypesKept, JobType DEF CheckNames, Over, JobOK
  <2>2. ASSUME NEW at \in {"create", "put"}, NextAt(j, at), job.at = "names",
               at = "create" => job.call = "register" /\ UNCHANGED saved,
               at = "put" => job.call = "rename",
               saved' \in {saved, [saved EXCEPT ![job.token] = sessions[job.token]]}
        PROVE  AccountTypes'
    <3>1. at \in Stage
      BY DEF Stage
    <3>0. /\ jobs'[j] = [job EXCEPT !.at = at] /\ jobs'[j] \in JobRecord
          /\ jobs' \in [Slot -> JobRecord \cup {Nobody}]
          /\ UNCHANGED <<users, leaving>>
      BY <1>1, <1>2, <2>2, <3>1, NextAtType DEF CheckNames
    <3>2. JobOK(j)'
      <4>1. CASE at = "create"
        BY <1>1, <2>2, <3>0, <4>1 DEF JobOK, JobRecord
      <4>2. CASE at = "put"
        BY <1>1, <2>2, <3>0, <4>2 DEF JobOK, Known, JobRecord
      <4>3. QED
        BY <4>1, <4>2
    <3>3. at = "put" => job.token \in Token
      BY <1>1, <2>2 DEF JobOK
    <3>4. AccountShape'
      <4>1. saved' \in [Token -> Account \cup {Nobody}]
        BY <2>2, <3>3 DEF AccountTypes, AccountShape
      <4>2. QED
        BY <1>2, <3>0, <4>1 DEF CheckNames, AccountTypes, AccountShape
    <3>5. SavedKnown'
      BY <1>2, <2>2, <3>3 DEF CheckNames, AccountTypes, AccountShape, SessionsKnown, SavedKnown, Known
    <3>6. QED
      BY <1>1, <1>2, <2>2, <3>1, <3>2, <3>4, <3>5, TypesKept, NextAtType DEF CheckNames
  <2>3. QED
    BY <1>1, <1>2, <2>1, <2>2 DEF CheckNames, Step, JobOK
<1>3. CASE CreateUser(j)
  <2>1. PICK a \in Account : /\ IsLeast(a, {b \in Account : users[b] = Nobody})
                             /\ users' = [users EXCEPT ![a] = User0(jobs[j].name)]
    BY <1>3 DEF CreateUser
  <2>2. User0(jobs[j].name) \in UserRecord
    BY <1>1, <1>3 DEF CreateUser, Step, JobOK, User0, UserRecord, Shows
  <2>3. AccountShape'
    BY <1>3, <2>1, <2>2, JobType DEF CreateUser, Over, AccountTypes, AccountShape
  <2>4. \A b \in Account : users[b] # Nobody => users'[b] # Nobody
    BY <2>1, <2>2 DEF AccountTypes, AccountShape
  <2>5. \A k \in Slot : jobs'[k] = jobs[k] \/ JobOK(k)'
    BY <1>3, JobType DEF CreateUser, Over, JobOK
  <2>6. UNCHANGED <<sessions, saved, line, leaving>>
    BY <1>3 DEF CreateUser
  <2>7. QED
    BY <2>3, <2>4, <2>5, <2>6, TypesKept
<1>4. CASE Authenticate(j)
  <2>1. CASE Over(j)
    <3>1. AccountShape'
      BY <1>4, <2>1, JobType DEF Authenticate, Over, AccountTypes, AccountShape
    <3>2. QED
      BY <1>4, <2>1, <3>1, TypesKept, JobType DEF Authenticate, Over, JobOK
  <2>2. ASSUME NEW a \in Account, users[a] # Nobody,
               jobs' = [jobs EXCEPT ![j] = [@ EXCEPT !.account = a, !.at = "remember"]]
        PROVE  AccountTypes'
    <3>1. [job EXCEPT !.account = a, !.at = "remember"] \in JobRecord
      BY <1>1 DEF JobRecord, Stage
    <3>2. /\ jobs' \in [Slot -> JobRecord \cup {Nobody}]
          /\ \A k \in Slot \ {j} : jobs'[k] = jobs[k]
          /\ jobs'[j] = [job EXCEPT !.account = a, !.at = "remember"]
      BY <2>2, <3>1 DEF AccountTypes, AccountShape
    <3>3. JobOK(j)'
      BY <1>1, <1>4, <2>2, <3>2 DEF Authenticate, Step, JobOK, Known, JobRecord
    <3>4. AccountShape'
      BY <1>4, <3>2 DEF Authenticate, AccountTypes, AccountShape
    <3>5. QED
      BY <1>4, <3>2, <3>3, <3>4, TypesKept DEF Authenticate
  <2>3. QED
    BY <1>4, <2>1, <2>2 DEF Authenticate
<1>5. CASE Remember(j)
  <2>1. issued' \in Token /\ issued' \in 0 .. MaxTokens
    BY <1>5 DEF Remember, AccountTypes, AccountShape, Token
  <2>2. job.at = "remember" /\ Known(job.account) /\ job.call = "login"
    BY <1>1, <1>5 DEF Remember, Step, JobOK
  <2>3. /\ sessions' = [sessions EXCEPT ![issued'] = job.account]
        /\ jobs' = [jobs EXCEPT ![j] = [job EXCEPT !.token = issued', !.at = "save"]]
        /\ UNCHANGED <<users, saved, expired, presence, token, line, leaving, ended, erased>>
    BY <1>5 DEF Remember
  <2>4. [job EXCEPT !.token = issued', !.at = "save"] \in JobRecord
    BY <1>1, <2>1 DEF JobRecord, Stage
  <2>5. /\ jobs' \in [Slot -> JobRecord \cup {Nobody}]
        /\ \A k \in Slot \ {j} : jobs'[k] = jobs[k]
        /\ jobs'[j] = [job EXCEPT !.token = issued', !.at = "save"]
    BY <2>3, <2>4 DEF AccountTypes, AccountShape
  <2>6. JobOK(j)'
    BY <1>1, <2>1, <2>2, <2>3, <2>5 DEF JobOK, Known, JobRecord
  <2>7. AccountShape'
    BY <2>1, <2>2, <2>3, <2>5 DEF AccountTypes, AccountShape, Known
  <2>8. SessionsKnown'
    BY <2>1, <2>2, <2>3 DEF AccountTypes, AccountShape, SessionsKnown, Known
  <2>9. QED
    BY <2>3, <2>5, <2>6, <2>7, <2>8, TypesKept
<1>6. CASE Save(j)
  <2>1. job.at = "save" /\ job.call = "login" /\ job.token \in Token /\ Known(job.account)
    BY <1>1, <1>6 DEF Save, Step, JobOK
  <2>2. "answer" \in Stage /\ NextAt(j, "answer")
    BY <1>6 DEF Stage, Save
  <2>3. JobOK(j)'
    <3>1. jobs'[j] = [job EXCEPT !.at = "answer"] /\ UNCHANGED <<users, leaving>>
      BY <1>1, <1>6, <2>2, NextAtType DEF Save
    <3>2. QED
      BY <1>1, <2>1, <3>1 DEF JobOK, Known, JobRecord
  <2>4. AccountShape'
    BY <1>1, <1>6, <2>1, <2>2, NextAtType DEF Save, AccountTypes, AccountShape, Known
  <2>5. SavedKnown'
    BY <1>6, <2>1 DEF Save, AccountTypes, AccountShape, SavedKnown, Known
  <2>6. QED
    BY <1>1, <1>6, <2>2, <2>3, <2>4, <2>5, TypesKept, NextAtType DEF Save
<1>7. CASE Leave(j) \/ ClearPresence(j) \/ Forget(j) \/ EraseSaved(j) \/ ShowPreference(j)
  <2>1. PICK at \in {"forget", "get", "erase", "answer", "put"} : NextAt(j, at)
    BY <1>7 DEF Leave, ClearPresence, Forget, EraseSaved, ShowPreference
  <2>2. at \in Stage
    BY DEF Stage
  <2>3. job.account \in Account /\ job.token \in Token
    BY <1>1, <1>7 DEF Leave, ClearPresence, Forget, EraseSaved, ShowPreference, Step, JobOK, Known,
                      AccountTypes, AccountShape
  <2>4. /\ UNCHANGED <<users, expired, issued, token, line, leaving, ended, erased>>
        /\ sessions' \in {sessions, [sessions EXCEPT ![job.token] = Nobody]}
        /\ saved' \in {saved, [saved EXCEPT ![job.token] = Nobody]}
        /\ \/ presence' = presence
           \/ presence' = [presence EXCEPT ![job.account] = "offline"]
           \/ presence' = [presence EXCEPT ![job.account] = Nobody]
           \/ /\ presence' = [presence EXCEPT ![job.account] = Shown(job.name)]
              /\ job.name \in {"auto", "dnd"}
    <3>1. CASE ShowPreference(j)
      BY <1>1, <3>1 DEF ShowPreference, Step, JobOK
    <3>2. QED
      BY <1>7, <3>1 DEF Leave, ClearPresence, Forget, EraseSaved
  <2>5. /\ jobs' \in [Slot -> JobRecord \cup {Nobody}]
        /\ \A k \in Slot \ {j} : jobs'[k] = jobs[k]
        /\ jobs'[j] = [job EXCEPT !.at = at] /\ jobs'[j] \in JobRecord
    BY <1>1, <2>1, <2>2, NextAtType
  <2>6. JobOK(j)'
    <3>1. /\ job.at = "leave" => at = "forget"
          /\ job.at = "clear" => at = "get"
          /\ job.at = "forget" => at = "erase"
          /\ job.at = "erase" => at = "answer"
          /\ job.at = "show" => at = "put"
          /\ job.at \in {"leave", "clear", "forget", "erase", "show"}
      BY <1>1, <1>7, <2>5 DEF Leave, ClearPresence, Forget, EraseSaved, ShowPreference, Step, NextAt,
                              AccountTypes, AccountShape, JobRecord
    <3>2. QED
      BY <1>1, <2>4, <2>5, <3>1 DEF JobOK, Known, JobRecord
  <2>7. AccountShape'
    BY <2>3, <2>4, <2>5 DEF AccountTypes, AccountShape, Shown, Shows
  <2>8. SessionsKnown' /\ SavedKnown'
    BY <2>3, <2>4 DEF AccountTypes, AccountShape, SessionsKnown, SavedKnown, Known
  <2>9. QED
    BY <2>4, <2>5, <2>6, <2>7, <2>8, TypesKept
<1>8. CASE GetUser(j)
  <2>1. /\ job.at = "get" /\ Known(job.account)
        /\ \/ job.call = "delete" /\ job.token \in leaving
           \/ job.call = "rename" /\ job.name \in Name /\ job.token \in Token
           \/ job.call = "prefer" /\ job.name \in {"auto", "dnd"} /\ job.token \in Token
    BY <1>1, <1>8 DEF GetUser, Step, JobOK
  <2>2. PICK at \in {"anonymize", "names", "show"} :
          /\ jobs' = [jobs EXCEPT ![j] = [job EXCEPT !.held = users[job.account], !.at = at]]
          /\ job.call = "delete" => at = "anonymize"
          /\ job.call = "rename" => at = "names"
          /\ job.call = "prefer" => at = "show"
    BY <1>8, <2>1 DEF GetUser
  <2>3. users[job.account] \in UserRecord
    BY <2>1 DEF Known, AccountTypes, AccountShape
  <2>4. [job EXCEPT !.held = users[job.account], !.at = at] \in JobRecord
    BY <1>1, <2>3 DEF JobRecord, Stage
  <2>5. /\ jobs' \in [Slot -> JobRecord \cup {Nobody}]
        /\ \A k \in Slot \ {j} : jobs'[k] = jobs[k]
        /\ jobs'[j] = [job EXCEPT !.held = users[job.account], !.at = at]
    BY <2>2, <2>4 DEF AccountTypes, AccountShape
  <2>6. UNCHANGED <<accountStore, token, line, accountHistory>>
    BY <1>8 DEF GetUser
  <2>7. JobOK(j)'
    BY <1>1, <2>1, <2>2, <2>3, <2>5, <2>6 DEF JobOK, Known, JobRecord
  <2>8. AccountShape'
    BY <2>5, <2>6 DEF AccountTypes, AccountShape
  <2>9. QED
    BY <2>5, <2>6, <2>7, <2>8, TypesKept
<1>9. CASE Anonymize(j)
  <2>1. /\ job.at = "anonymize" /\ job.call = "delete" /\ Known(job.account) /\ job.held # Nobody
        /\ job.token \in leaving
    BY <1>1, <1>9 DEF Anonymize, Step, JobOK
  <2> DEFINE new == [job.held EXCEPT !.name = DeletedName, !.password = FALSE, !.status = "deleted"]
  <2>2. job.held \in UserRecord
    BY <1>1, <2>1 DEF JobRecord
  <2>3. new \in UserRecord
    BY <2>2 DEF UserRecord, Shows
  <2>4. PutUser(job.account, job.held, new) /\ NextAt(j, "forget")
        /\ UNCHANGED <<sessions, saved, expired, issued, presence, token, line, leaving, ended, erased>>
    BY <1>9 DEF Anonymize
  <2>5. /\ users' \in [Account -> UserRecord \cup {Nobody}]
        /\ \A b \in Account : users[b] # Nobody => users'[b] # Nobody
    BY <2>1, <2>3, <2>4, PutType
  <2>6. "forget" \in Stage
    BY DEF Stage
  <2>7. /\ jobs' \in [Slot -> JobRecord \cup {Nobody}]
        /\ \A k \in Slot \ {j} : jobs'[k] = jobs[k]
        /\ jobs'[j] = [job EXCEPT !.at = "forget"] /\ jobs'[j] \in JobRecord
    BY <1>1, <2>4, <2>6, NextAtType
  <2>8. JobOK(j)'
    BY <1>1, <2>1, <2>4, <2>5, <2>7 DEF JobOK, Known, JobRecord
  <2>9. AccountShape'
    BY <2>4, <2>5, <2>7 DEF AccountTypes, AccountShape
  <2>10. QED
    BY <2>4, <2>5, <2>7, <2>8, <2>9, TypesKept
<1>10. CASE UpdateUser(j)
  <2>1. /\ job.at = "put" /\ Known(job.account) /\ job.held # Nobody
        /\ \/ job.call = "rename" /\ job.name \in Name
           \/ job.call = "prefer" /\ job.name \in {"auto", "dnd"}
    BY <1>1, <1>10 DEF UpdateUser, Step, JobOK
  <2> DEFINE new == IF job.call = "rename" THEN [job.held EXCEPT !.name = job.name]
                    ELSE [job.held EXCEPT !.preference = job.name, !.status = Shown(job.name)]
  <2>2. job.held \in UserRecord
    BY <1>1, <2>1 DEF JobRecord
  <2>3. new \in UserRecord
    BY <2>1, <2>2 DEF UserRecord, Shown, Shows
  <2>4. PutUser(job.account, job.held, new) /\ Over(j)
        /\ UNCHANGED <<sessions, saved, expired, issued, presence, token, line, leaving, ended, erased>>
    BY <1>10 DEF UpdateUser
  <2>5. /\ users' \in [Account -> UserRecord \cup {Nobody}]
        /\ \A b \in Account : users[b] # Nobody => users'[b] # Nobody
    BY <2>1, <2>3, <2>4, PutType
  <2>6. /\ jobs' \in [Slot -> JobRecord \cup {Nobody}]
        /\ \A k \in Slot \ {j} : jobs'[k] = jobs[k]
        /\ JobOK(j)'
    BY <2>4, JobType DEF Over, JobOK
  <2>7. AccountShape'
    BY <2>4, <2>5, <2>6 DEF AccountTypes, AccountShape
  <2>8. QED
    BY <2>4, <2>5, <2>6, <2>7, TypesKept
<1>11. CASE Answer(j)
  <2>1. /\ job.at = "answer" /\ Known(job.account) /\ job.token \in Token
    BY <1>1, <1>11 DEF Answer, Step, JobOK, AccountTypes, AccountShape
  <2>2. /\ jobs' \in [Slot -> JobRecord \cup {Nobody}]
        /\ \A k \in Slot \ {j} : jobs'[k] = jobs[k]
        /\ JobOK(j)'
    BY <1>11, JobType DEF Answer, Over, JobOK
  <2>3. /\ UNCHANGED <<users, sessions, saved, expired, issued, presence, line, leaving>>
        /\ token' \in [Device -> Token \cup {Nobody}]
        /\ ended' \subseteq Token /\ erased' \subseteq Account
    BY <1>1, <1>11, <2>1 DEF Answer, AccountTypes, AccountShape, JobRecord, Known
  <2>4. AccountShape'
    BY <2>2, <2>3 DEF AccountTypes, AccountShape
  <2>5. QED
    BY <2>2, <2>3, <2>4, TypesKept
<1>12. QED
  BY <1>2, <1>3, <1>4, <1>5, <1>6, <1>7, <1>8, <1>9, <1>10, <1>11
-----------------------------------------------------------------------------
\* What the connection of d is at next.
LEMMA LineType ==
  ASSUME AccountTypes, NEW d \in Device, NEW new \in LineRecord \cup {Nobody}, line' = [line EXCEPT ![d] = new]
  PROVE  /\ line' \in [Device -> LineRecord \cup {Nobody}]
         /\ \A e \in Device \ {d} : line'[e] = line[e]
         /\ line'[d] = new
  BY DEF AccountTypes, AccountShape

LEMMA LineStepTypes ==
  ASSUME AccountTypes, NEW d \in Device,
         \/ Open(d) \/ ReadPreference(d) \/ SetPresence(d) \/ ReadUser(d) \/ WriteStatus(d)
         \/ Ping(d) \/ Close(d) \/ CheckConnected(d) \/ SetOffline(d) \/ ReadOffPreference(d)
  PROVE  AccountTypes'
<1> DEFINE l == line[d]
<1> USE DEF accountStore, accountBounds, accountHistory
<1>1. ASSUME NEW new \in LineRecord \cup {Nobody}, line' = [line EXCEPT ![d] = new],
             new # Nobody => Known(new.account) /\ (new.at \in {"status", "offStatus"} => new.held # Nobody),
             UNCHANGED <<users, sessions, saved, expired, issued, token, jobs, leaving, ended, erased>>,
             presence' \in [Account -> Shows \cup {Nobody}]
      PROVE  AccountTypes'
  <2>1. AccountShape'
    BY <1>1, LineType DEF AccountTypes, AccountShape
  <2>2. \A e \in Device : line'[e] = line[e] \/ LineOK(e)'
    BY <1>1, LineType DEF LineOK, Known
  <2>3. QED
    BY <1>1, <2>1, <2>2, TypesKept
<1>2. CASE Open(d)
  <2> DEFINE a == sessions[token[d]]
             new == [account |-> a, at |-> "preference", status |-> "online", auto |-> TRUE, held |-> Nobody]
  <2>1. a \in Account /\ Known(a)
    BY <1>2 DEF Open, Valid, AccountTypes, AccountShape, SessionsKnown, Known
  <2>2. new \in LineRecord
    BY <2>1 DEF LineRecord, Phase, Shows
  <2>3. QED
    BY <1>1, <1>2, <2>1, <2>2 DEF Open, AccountTypes, AccountShape
<1>3. ASSUME l # Nobody PROVE l \in LineRecord /\ Known(l.account) /\ users[l.account] \in UserRecord
                              /\ (l.at \in {"status", "offStatus"} => l.held \in UserRecord)
  BY <1>3 DEF AccountTypes, AccountShape, LineOK, Known, LineRecord
<1>4. CASE ReadPreference(d)
  <2> DEFINE u == users[l.account]
             new == [l EXCEPT !.at = "presence", !.auto = u.preference = "auto",
                              !.status = IF u.preference = "auto" THEN "online" ELSE u.preference]
  <2>1. l # Nobody
    BY <1>4 DEF ReadPreference, InPhase
  <2>2. new \in LineRecord /\ new.account = l.account /\ new.at = "presence"
    BY <1>3, <2>1 DEF LineRecord, UserRecord, Phase, Shows
  <2>3. QED
    BY <1>1, <1>3, <1>4, <2>1, <2>2 DEF ReadPreference, AccountTypes, AccountShape
<1>5. CASE SetPresence(d) \/ SetOffline(d)
  <2>1. PICK at \in {"read", "open", "offPreference"} : line' = [line EXCEPT ![d] = [l EXCEPT !.at = at]]
    BY <1>5 DEF SetPresence, SetOffline
  <2>2. l # Nobody
    BY <1>5 DEF SetPresence, SetOffline, InPhase
  <2>3. [l EXCEPT !.at = at] \in LineRecord /\ [l EXCEPT !.at = at].account = l.account
        /\ [l EXCEPT !.at = at].at = at
    BY <1>3, <2>2 DEF LineRecord, Phase
  <2>4. presence' \in [Account -> Shows \cup {Nobody}]
    BY <1>3, <1>5, <2>2 DEF SetPresence, SetOffline, LineRecord, Shows, Known, AccountTypes, AccountShape
  <2>5. QED
    BY <1>1, <1>3, <1>5, <2>1, <2>2, <2>3, <2>4 DEF SetPresence, SetOffline
<1>6. CASE ReadUser(d)
  <2>1. PICK at \in {"status", "offStatus"} :
          line' = [line EXCEPT ![d] = [l EXCEPT !.held = users[l.account], !.at = at]]
    BY <1>6 DEF ReadUser
  <2> DEFINE new == [l EXCEPT !.held = users[l.account], !.at = at]
  <2>2. l # Nobody
    BY <1>6 DEF ReadUser
  <2>3. new \in LineRecord /\ new.account = l.account /\ new.held # Nobody
    BY <1>3, <2>2 DEF LineRecord, Phase
  <2>4. QED
    BY <1>1, <1>3, <1>6, <2>1, <2>2, <2>3 DEF ReadUser, AccountTypes, AccountShape
<1>7. CASE WriteStatus(d)
  <2>1. l # Nobody /\ l.at \in {"status", "offStatus"} /\ l \in LineRecord /\ Known(l.account)
        /\ l.held \in UserRecord
    BY <1>3, <1>7 DEF WriteStatus
  <2> DEFINE record == [l.held EXCEPT !.status = l.status]
             new == IF l.at = "status" THEN [l EXCEPT !.at = "open", !.held = Nobody] ELSE Nobody
  <2>2. record \in UserRecord
    BY <2>1 DEF UserRecord, LineRecord, Shows
  <2>3. new \in LineRecord \cup {Nobody} /\ (new # Nobody => new.account = l.account /\ new.at = "open")
    BY <2>1 DEF LineRecord, Phase
  <2>4. PutUser(l.account, l.held, record) /\ line' = [line EXCEPT ![d] = new]
        /\ UNCHANGED <<sessions, saved, expired, issued, presence, token, jobs, leaving, ended, erased>>
    BY <1>7 DEF WriteStatus
  <2>5. /\ users' \in [Account -> UserRecord \cup {Nobody}]
        /\ \A b \in Account : users[b] # Nobody => users'[b] # Nobody
    BY <2>1, <2>2, <2>4, PutType
  <2>6. AccountShape'
    BY <2>3, <2>4, <2>5, LineType DEF AccountTypes, AccountShape
  <2>7. \A e \in Device : line'[e] = line[e] \/ LineOK(e)'
    BY <2>1, <2>3, <2>4, <2>5, LineType DEF LineOK, Known
  <2>8. QED
    BY <2>4, <2>5, <2>6, <2>7, TypesKept
<1>8. CASE Ping(d)
  <2>1. AccountShape'
    BY <1>8 DEF Ping, AccountTypes, AccountShape, Shows
  <2>2. QED
    BY <1>8, <2>1, TypesKept DEF Ping
<1>9. CASE Close(d)
  <2>1. l # Nobody /\ line' = [line EXCEPT ![d] = [l EXCEPT !.at = "closed"]]
    BY <1>9 DEF Close, InPhase
  <2>2. [l EXCEPT !.at = "closed"] \in LineRecord /\ [l EXCEPT !.at = "closed"].account = l.account
        /\ [l EXCEPT !.at = "closed"].at = "closed"
    BY <1>3, <2>1 DEF LineRecord, Phase
  <2>3. QED
    BY <1>1, <1>3, <1>9, <2>1, <2>2 DEF Close, AccountTypes, AccountShape
<1>10. CASE CheckConnected(d) \/ ReadOffPreference(d)
  <2>1. l # Nobody
    BY <1>10 DEF CheckConnected, ReadOffPreference, InPhase
  <2>2. PICK new \in {[l EXCEPT !.at = "offline", !.status = "offline"], [l EXCEPT !.at = "offRead"], Nobody} :
          line' = [line EXCEPT ![d] = new]
    BY <1>10 DEF CheckConnected, ReadOffPreference
  <2>3. new \in LineRecord \cup {Nobody}
        /\ (new # Nobody => new.account = l.account /\ new.at \in {"offline", "offRead"})
    BY <1>3, <2>1, <2>2 DEF LineRecord, Phase, Shows
  <2>4. QED
    BY <1>1, <1>3, <1>10, <2>1, <2>2, <2>3 DEF CheckConnected, ReadOffPreference, AccountTypes, AccountShape
<1>11. QED
  BY <1>2, <1>4, <1>5, <1>6, <1>7, <1>8, <1>9, <1>10

LEMMA TimeTypes ==
  ASSUME AccountTypes, (\E t \in Token : Expire(t)) \/ SweepExpired \/ Restart \/ UNCHANGED accountVars
  PROVE  AccountTypes'
<1> USE DEF accountStore, accountBounds, accountHistory, accountVars
<1>1. CASE (\E t \in Token : Expire(t)) \/ UNCHANGED accountVars
  <2>1. AccountShape'
    BY <1>1 DEF Expire, AccountTypes, AccountShape
  <2>2. QED
    BY <1>1, <2>1, TypesKept DEF Expire
<1>2. CASE SweepExpired
  <2>1. AccountShape'
    BY <1>2 DEF SweepExpired, AccountTypes, AccountShape
  <2>2. SessionsKnown' /\ SavedKnown'
    BY <1>2 DEF SweepExpired, AccountTypes, AccountShape, SessionsKnown, SavedKnown, Known
  <2>3. QED
    BY <1>2, <2>1, <2>2, TypesKept DEF SweepExpired
<1>3. CASE Restart
  <2>1. AccountShape'
    BY <1>3 DEF Restart, AccountTypes, AccountShape
  <2>2. SessionsKnown' /\ SavedKnown'
    BY <1>3 DEF Restart, AccountTypes, AccountShape, SessionsKnown, SavedKnown, Known
  <2>3. (\A k \in Slot : JobOK(k)') /\ (\A e \in Device : LineOK(e)')
    BY <1>3 DEF Restart, JobOK, LineOK
  <2>4. QED
    BY <1>3, <2>1, <2>2, <2>3, TypesKept DEF Restart
<1>4. QED
  BY <1>1, <1>2, <1>3

-----------------------------------------------------------------------------
\* What a step of the server is to accounts.
AccountsStep == AccountsCall \/ AccountsWork \/ Restart \/ UNCHANGED accountVars

LEMMA ServerAccounts ==
  /\ ServerInit => AccountsInit
  /\ [ServerNext]_serverVars => AccountsStep
  BY DEF ServerInit, ServerNext, serverVars, AccountsStep, Crash

LEMMA AccountTypesStep ==
  ASSUME AccountTypes, AccountsStep
  PROVE  AccountTypes'
<1>1. CASE AccountsWork
  <2>1. CASE \E j \in Slot :
       \/ CheckNames(j) \/ CreateUser(j) \/ Authenticate(j) \/ Remember(j) \/ Save(j)
       \/ Leave(j) \/ ClearPresence(j) \/ GetUser(j) \/ Anonymize(j) \/ Forget(j)
       \/ EraseSaved(j) \/ ShowPreference(j) \/ UpdateUser(j) \/ Answer(j)
    BY <2>1, JobStepTypes
  <2>2. CASE \E d \in Device :
       \/ Open(d) \/ ReadPreference(d) \/ SetPresence(d) \/ ReadUser(d) \/ WriteStatus(d)
       \/ Ping(d) \/ Close(d) \/ CheckConnected(d) \/ SetOffline(d) \/ ReadOffPreference(d)
    BY <2>2, LineStepTypes
  <2>3. QED
    BY <1>1, <2>1, <2>2, TimeTypes DEF AccountsWork
<1>2. QED
  BY <1>1, CallTypes, TimeTypes DEF AccountsStep
-----------------------------------------------------------------------------
(* Sessions *)

\* A login that has made its token: nobody else knows it.
Granting(j) == jobs[j] # Nobody /\ jobs[j].call = "login" /\ jobs[j].at \in {"save", "answer"}

Secret(j) ==
  Granting(j) =>
    LET t == jobs[j].token IN
      /\ t \in 1 .. issued /\ t \notin ended \cup leaving
      /\ \A d \in Device : token[d] # t
      /\ \A k \in Slot \ {j} : jobs[k] # Nobody => jobs[k].token # t
      /\ sessions[t] # Nobody \/ t \in expired
      /\ sessions[t] # Nobody => sessions[t] = jobs[j].account
      /\ jobs[j].at = "answer" => t \in expired \/ saved[t] = sessions[t]

\* What a logout or a deletion has taken away.
Closing(j) ==
  jobs[j] # Nobody /\ jobs[j].call \in {"logout", "delete"} =>
    /\ jobs[j].at \in {"erase", "answer"} => sessions[jobs[j].token] = Nobody
    /\ jobs[j].at = "answer" => saved[jobs[j].token] = Nobody

\* Tokens that are known have been issued.
Issued ==
  /\ \A d \in Device : token[d] # Nobody => token[d] <= issued
  /\ \A j \in Slot : jobs[j] # Nobody /\ jobs[j].token # Nobody => jobs[j].token <= issued
  /\ \A t \in ended \cup leaving : t <= issued

TokenInv == Issued /\ (\A j \in Slot : Secret(j) /\ Closing(j)) /\ SessionsHold

\* A call that goes on keeps all but its place.
LEMMA Moves ==
  ASSUME AccountTypes, NEW j \in Slot, jobs[j] # Nobody, NEW at \in Stage, NextAt(j, at)
  PROVE  /\ \A k \in Slot \ {j} : jobs'[k] = jobs[k]
         /\ jobs'[j] # Nobody /\ jobs'[j].at = at
         /\ jobs'[j].call = jobs[j].call /\ jobs'[j].token = jobs[j].token
         /\ jobs'[j].account = jobs[j].account /\ jobs'[j].name = jobs[j].name
         /\ jobs'[j].held = jobs[j].held
<1>1. /\ \A k \in Slot \ {j} : jobs'[k] = jobs[k]
      /\ jobs'[j] = [jobs[j] EXCEPT !.at = at] /\ jobs[j] \in JobRecord /\ jobs'[j] \in JobRecord
  BY NextAtType
<1>2. QED
  BY <1>1 DEF JobRecord

LEMMA CallEnds ==
  ASSUME AccountTypes, NEW j \in Slot, Over(j)
  PROVE  /\ jobs'[j] = Nobody
         /\ \A k \in Slot \ {j} : jobs'[k] = jobs[k]
<1>1. jobs' = [jobs EXCEPT ![j] = Nobody]
  BY DEF Over
<1>2. jobs \in [Slot -> JobRecord \cup {Nobody}]
  BY DEF AccountTypes, AccountShape
<1>3. Nobody \in JobRecord \cup {Nobody}
  OBVIOUS
<1>4. QED
  BY <1>1, <1>3, JobType

\* Steps that give no token out: sessions end that have expired or that somebody asked to end,
\* and the copy on disk follows the memory.
LEMMA TokensKept ==
  ASSUME AccountTypes, TokenInv,
         UNCHANGED <<issued, token, leaving, ended>>, expired \subseteq expired',
         \A k \in Slot : \/ jobs'[k] = jobs[k] \/ jobs'[k] = Nobody
                         \/ /\ jobs[k] # Nobody /\ jobs'[k].token = jobs[k].token
                            /\ ~Granting(k)' /\ Closing(k)',
         \A t \in Token :
            \/ sessions'[t] = sessions[t] /\ saved'[t] \in {saved[t], sessions[t]}
            \/ /\ sessions'[t] \in {sessions[t], Nobody} /\ saved'[t] \in {saved[t], Nobody}
               /\ \/ t \in expired'
                  \/ t \in leaving /\ \A k \in Slot : Granting(k) => jobs[k].token # t
  PROVE  TokenInv'
<1>1. Issued'
  BY DEF TokenInv, Issued
<1>2. ASSUME NEW t \in ended PROVE sessions'[t] = Nobody /\ saved'[t] = Nobody
  BY <1>2 DEF TokenInv, SessionsHold, AccountTypes, AccountShape
<1>3. ASSUME NEW d \in Device, token[d] \notin expired' \cup leaving \cup {Nobody}
      PROVE  sessions'[token[d]] # Nobody /\ saved'[token[d]] = sessions'[token[d]]
  BY <1>3 DEF TokenInv, SessionsHold, AccountTypes, AccountShape
<1>4. ASSUME NEW k \in Slot PROVE Secret(k)'
  <2>1. CASE jobs'[k] = jobs[k]
    <3>1. SUFFICES ASSUME Granting(k) PROVE Secret(k)'
      BY <2>1 DEF Secret, Granting
    <3> DEFINE t == jobs[k].token
    <3>2. /\ t \in 1 .. issued /\ t \notin ended \cup leaving /\ t \in Token
          /\ \A d \in Device : token[d] # t
          /\ \A i \in Slot \ {k} : jobs[i] # Nobody => jobs[i].token # t
          /\ sessions[t] # Nobody \/ t \in expired
          /\ sessions[t] # Nobody => sessions[t] = jobs[k].account
          /\ jobs[k].at = "answer" => t \in expired \/ saved[t] = sessions[t]
      BY <3>1 DEF TokenInv, Secret, AccountTypes, AccountShape, Token
    <3>3. \A i \in Slot \ {k} : jobs'[i] # Nobody => jobs'[i].token # t
      BY <3>2
    <3>4. /\ sessions'[t] # Nobody \/ t \in expired'
          /\ sessions'[t] # Nobody => sessions'[t] = jobs[k].account
          /\ jobs[k].at = "answer" => t \in expired' \/ saved'[t] = sessions'[t]
      BY <3>1, <3>2
    <3>5. QED
      BY <2>1, <3>2, <3>3, <3>4 DEF Secret
  <2>2. QED
    BY <2>1 DEF Secret, Granting
<1>5. ASSUME NEW k \in Slot PROVE Closing(k)'
  <2>1. CASE jobs'[k] = jobs[k] /\ jobs[k] # Nobody /\ jobs[k].call \in {"logout", "delete"}
    <3>1. jobs[k].token \in Token
      BY <2>1 DEF AccountTypes, AccountShape, JobOK
    <3>2. Closing(k)
      BY DEF TokenInv
    <3>3. QED
      BY <2>1, <3>1, <3>2 DEF Closing
  <2>2. QED
    BY <2>1 DEF Closing
<1>6. QED
  BY <1>1, <1>2, <1>3, <1>4, <1>5 DEF TokenInv, SessionsHold

LEMMA TokenInit == AccountTypes /\ AccountsInit => TokenInv
<1> SUFFICES ASSUME AccountTypes, AccountsInit PROVE TokenInv
  OBVIOUS
<1>1. /\ \A d \in Device : token[d] # Nobody => token[d] \in 1 .. issued
      /\ \A d \in Device : token[d] # Nobody => saved[token[d]] # Nobody
  <2>1. CASE token = [d \in Device |-> Nobody]
    BY <2>1
  <2>2. ASSUME NEW a \in Account, saved = [t \in Token |-> IF t <= issued THEN a ELSE Nobody],
               token \in [Device -> 1 .. issued]
        PROVE  \A d \in Device : token[d] \in 1 .. issued /\ saved[token[d]] # Nobody
    BY <2>2 DEF AccountTypes, AccountShape, Token
  <2>3. QED
    BY <2>1, <2>2 DEF AccountsInit
<1>2. /\ sessions = saved /\ ended = {} /\ leaving = {} /\ jobs = [j \in Slot |-> Nobody]
  BY DEF AccountsInit
<1>3. Issued
  BY <1>1, <1>2 DEF Issued, AccountTypes, AccountShape
<1>4. \A j \in Slot : Secret(j) /\ Closing(j)
  BY <1>2 DEF Secret, Closing, Granting
<1>5. SessionsHold
  BY <1>1, <1>2 DEF SessionsHold
<1>6. QED
  BY <1>3, <1>4, <1>5 DEF TokenInv
\* What a call on its way does to sessions: it takes its own away, or the new name is
\* written to disk.
Shortens(job) ==
  \/ UNCHANGED <<sessions, saved>>
  \/ /\ job.token \in Token /\ UNCHANGED sessions
     /\ saved' = [saved EXCEPT ![job.token] = sessions[job.token]]
  \/ /\ job.token \in Token \cap leaving
     /\ \/ sessions' = [sessions EXCEPT ![job.token] = Nobody] /\ UNCHANGED saved
        \/ saved' = [saved EXCEPT ![job.token] = Nobody] /\ UNCHANGED sessions

\* A call that goes on, but for a login that has its token, keeps all there is to it.
LEMMA TokenMoves ==
  ASSUME AccountTypes, TokenInv, NEW j \in Slot, jobs[j] # Nobody, NEW at \in Stage, NextAt(j, at),
         at \notin {"save", "answer"} \/ jobs[j].call # "login",
         UNCHANGED <<issued, token, leaving, ended>>, expired' = expired,
         Shortens(jobs[j]),
         Closing(j)'
  PROVE  TokenInv'
<1> DEFINE job == jobs[j]
<1>1. /\ \A k \in Slot \ {j} : jobs'[k] = jobs[k]
      /\ jobs'[j] # Nobody /\ jobs'[j].at = at /\ jobs'[j].call = job.call /\ jobs'[j].token = job.token
  BY Moves
<1>2. ~Granting(j)'
  BY <1>1 DEF Granting
<1>3. ASSUME NEW k \in Slot
      PROVE  \/ jobs'[k] = jobs[k] \/ jobs'[k] = Nobody
             \/ /\ jobs[k] # Nobody /\ jobs'[k].token = jobs[k].token
                /\ ~Granting(k)' /\ Closing(k)'
  BY <1>1, <1>2
<1>4. ASSUME job.token \in leaving, NEW k \in Slot, Granting(k) PROVE jobs[k].token # job.token
  BY <1>4 DEF TokenInv, Secret
<1>5. ASSUME NEW t \in Token
      PROVE  \/ sessions'[t] = sessions[t] /\ saved'[t] \in {saved[t], sessions[t]}
             \/ /\ sessions'[t] \in {sessions[t], Nobody} /\ saved'[t] \in {saved[t], Nobody}
                /\ \/ t \in expired'
                   \/ t \in leaving /\ \A k \in Slot : Granting(k) => jobs[k].token # t
  BY <1>4 DEF AccountTypes, AccountShape, Shortens
<1>6. QED
  BY <1>3, <1>5, TokensKept

LEMMA TokenWork ==
  ASSUME AccountTypes, TokenInv, NEW j \in Slot,
         \/ CheckNames(j) \/ CreateUser(j) \/ Authenticate(j)
         \/ Leave(j) \/ ClearPresence(j) \/ GetUser(j) \/ Anonymize(j) \/ Forget(j)
         \/ EraseSaved(j) \/ ShowPreference(j) \/ UpdateUser(j)
  PROVE  TokenInv'
<1> DEFINE job == jobs[j]
<1> USE DEF accountStore, accountBounds, accountHistory
<1>1. job \in JobRecord /\ JobOK(j) /\ job # Nobody
  BY DEF AccountTypes, AccountShape, CheckNames, CreateUser, Authenticate, Leave,
         ClearPresence, GetUser, Anonymize, Forget, EraseSaved, ShowPreference, UpdateUser, Step
<1>2. ASSUME Over(j), UNCHANGED <<sessions, saved, expired, issued, token, leaving, ended>> PROVE TokenInv'
  BY <1>2, CallEnds, TokensKept
<1>3. CASE CheckNames(j)
  <2>1. CASE Taken(job.name, job.account)
    BY <1>2, <1>3, <2>1 DEF CheckNames
  <2>2. CASE ~Taken(job.name, job.account) /\ job.call = "register"
    <3>1. NextAt(j, "create") /\ "create" \in Stage
      BY <1>3, <2>2 DEF CheckNames, Stage
    <3>2. Closing(j)'
      BY <1>1, <2>2, <3>1, Moves DEF Closing
    <3>3. Shortens(job)
      BY <1>3, <2>2 DEF CheckNames, Shortens
    <3>4. QED
      BY <1>1, <1>3, <2>2, <3>1, <3>2, <3>3, TokenMoves DEF CheckNames
  <2>3. CASE ~Taken(job.name, job.account) /\ job.call = "rename"
    <3>1. NextAt(j, "put") /\ "put" \in Stage /\ job.token \in Token
      BY <1>1, <1>3, <2>3 DEF CheckNames, Stage, JobOK
    <3>2. Closing(j)'
      BY <1>1, <2>3, <3>1, Moves DEF Closing
    <3>3. Shortens(job)
      BY <1>3, <2>3, <3>1 DEF CheckNames, Shortens
    <3>4. QED
      BY <1>1, <1>3, <2>3, <3>1, <3>2, <3>3, TokenMoves DEF CheckNames
  <2>4. QED
    BY <1>1, <1>3, <2>1, <2>2, <2>3 DEF CheckNames, Step, JobOK
<1>4. CASE CreateUser(j) \/ UpdateUser(j)
  BY <1>2, <1>4 DEF CreateUser, UpdateUser
<1>5. CASE Authenticate(j)
  <2>1. CASE Over(j)
    BY <1>2, <1>5, <2>1 DEF Authenticate
  <2>2. ASSUME NEW a \in Account, jobs' = [jobs EXCEPT ![j] = [@ EXCEPT !.account = a, !.at = "remember"]]
        PROVE  TokenInv'
    <3>1. [job EXCEPT !.account = a, !.at = "remember"] \in JobRecord
      BY <1>1 DEF JobRecord, Stage
    <3>2. /\ \A k \in Slot \ {j} : jobs'[k] = jobs[k]
          /\ jobs'[j] = [job EXCEPT !.account = a, !.at = "remember"]
      BY <2>2, <3>1, JobType
    <3>3. jobs'[j].at = "remember" /\ jobs'[j].token = job.token /\ jobs'[j].call = job.call
      BY <1>1, <3>2 DEF JobRecord
    <3>4. ~Granting(j)' /\ Closing(j)'
      BY <3>3 DEF Granting, Closing
    <3>5. QED
      BY <1>1, <1>5, <3>2, <3>3, <3>4, TokensKept DEF Authenticate
  <2>3. QED
    BY <1>5, <2>1, <2>2 DEF Authenticate
<1>6. CASE GetUser(j)
  <2>1. PICK at \in {"anonymize", "names", "show"} :
          jobs' = [jobs EXCEPT ![j] = [@ EXCEPT !.held = users[job.account], !.at = at]]
    BY <1>1, <1>6 DEF GetUser, Step, JobOK
  <2>2. users[job.account] \in UserRecord
    BY <1>1, <1>6 DEF GetUser, Step, JobOK, Known, AccountTypes, AccountShape
  <2>3. [job EXCEPT !.held = users[job.account], !.at = at] \in JobRecord
    BY <1>1, <2>2 DEF JobRecord, Stage
  <2>4. /\ \A k \in Slot \ {j} : jobs'[k] = jobs[k]
        /\ jobs'[j] = [job EXCEPT !.held = users[job.account], !.at = at]
    BY <2>1, <2>3, JobType
  <2>5. jobs'[j].at = at /\ jobs'[j].token = job.token /\ jobs'[j].call = job.call
    BY <1>1, <2>4 DEF JobRecord
  <2>6. ~Granting(j)' /\ Closing(j)'
    BY <2>5 DEF Granting, Closing
  <2>7. QED
    BY <1>1, <1>6, <2>4, <2>5, <2>6, TokensKept DEF GetUser
<1>7. ASSUME NEW at \in {"forget", "get", "put"}, NextAt(j, at),
             UNCHANGED <<sessions, saved, expired, issued, token, leaving, ended>>
      PROVE  TokenInv'
  <2>1. at \in Stage
    BY DEF Stage
  <2>2. Closing(j)'
    BY <1>1, <1>7, <2>1, Moves DEF Closing
  <2>3. Shortens(job)
    BY <1>7 DEF Shortens
  <2>4. QED
    BY <1>1, <1>7, <2>1, <2>2, <2>3, TokenMoves
<1>8. CASE Leave(j) \/ ClearPresence(j) \/ Anonymize(j) \/ ShowPreference(j)
  BY <1>7, <1>8 DEF Leave, ClearPresence, Anonymize, ShowPreference
<1>9. CASE Forget(j)
  <2>1. /\ job.call \in {"logout", "delete"} /\ job.token \in leaving /\ job.token \in Token
        /\ NextAt(j, "erase") /\ "erase" \in Stage
    BY <1>1, <1>9 DEF Forget, Step, JobOK, Stage, AccountTypes, AccountShape
  <2>2. Closing(j)'
    BY <1>1, <1>9, <2>1, Moves DEF Forget, Closing, AccountTypes, AccountShape
  <2>3. Shortens(job)
    BY <1>9, <2>1 DEF Forget, Shortens
  <2>4. QED
    BY <1>1, <1>9, <2>1, <2>2, <2>3, TokenMoves DEF Forget
<1>10. CASE EraseSaved(j)
  <2>1. /\ job.call \in {"logout", "delete"} /\ job.token \in leaving /\ job.token \in Token
        /\ NextAt(j, "answer") /\ "answer" \in Stage /\ job.at = "erase"
    BY <1>1, <1>10 DEF EraseSaved, Step, JobOK, Stage, AccountTypes, AccountShape
  <2>2. Closing(j)
    BY DEF TokenInv
  <2>3. Closing(j)'
    BY <1>1, <1>10, <2>1, <2>2, Moves DEF EraseSaved, Closing, AccountTypes, AccountShape
  <2>4. Shortens(job)
    BY <1>10, <2>1 DEF EraseSaved, Shortens
  <2>5. QED
    BY <1>1, <1>10, <2>1, <2>3, <2>4, TokenMoves DEF EraseSaved
<1>11. QED
  BY <1>3, <1>4, <1>5, <1>6, <1>8, <1>9, <1>10

\* Connections, time and the sweeper.
LEMMA TokenOther ==
  ASSUME AccountTypes, TokenInv,
         \/ \E d \in Device :
              \/ Open(d) \/ ReadPreference(d) \/ SetPresence(d) \/ ReadUser(d) \/ WriteStatus(d)
              \/ Ping(d) \/ Close(d) \/ CheckConnected(d) \/ SetOffline(d) \/ ReadOffPreference(d)
         \/ \E t \in Token : Expire(t)
         \/ SweepExpired
         \/ UNCHANGED accountVars
  PROVE  TokenInv'
<1> USE DEF accountStore, accountBounds, accountHistory, accountVars
<1>1. UNCHANGED <<issued, token, leaving, ended, jobs>>
  BY DEF Open, ReadPreference, SetPresence, ReadUser, WriteStatus, Ping, Close, CheckConnected,
         SetOffline, ReadOffPreference, Expire, SweepExpired
<1>2. CASE SweepExpired
  <2>1. \A t \in Token : \/ sessions'[t] = sessions[t] /\ saved'[t] \in {saved[t], sessions[t]}
                         \/ /\ sessions'[t] \in {sessions[t], Nobody} /\ saved'[t] \in {saved[t], Nobody}
                            /\ t \in expired'
    BY <1>2 DEF SweepExpired
  <2>2. QED
    BY <1>1, <1>2, <2>1, TokensKept DEF SweepExpired
<1>3. CASE ~SweepExpired
  <2>1. UNCHANGED <<sessions, saved>> /\ expired \subseteq expired'
    BY <1>3 DEF Open, ReadPreference, SetPresence, ReadUser, WriteStatus, Ping, Close, CheckConnected,
         SetOffline, ReadOffPreference, Expire
  <2>2. QED
    BY <1>1, <2>1, TokensKept
<1>4. QED
  BY <1>2, <1>3
LEMMA TokenCalls ==
  ASSUME AccountTypes, TokenInv, AccountsCall
  PROVE  TokenInv'
<1> USE DEF accountStore, accountBounds, accountHistory
<1> PICK j \in Slot, d \in Device :
      \/ CallLogout(d, j) \/ CallDelete(d, j)
      \/ \E n \in Name : CallRegister(d, j, n) \/ CallLogin(d, j, n) \/ CallRename(d, j, n)
      \/ \E p \in {"auto", "dnd"} : CallPrefer(d, j, p)
  BY DEF AccountsCall
<1>1. ASSUME NEW call \in {"register", "login", "logout", "delete", "rename", "prefer"},
             NEW a \in Account \cup {Nobody}, NEW n \in Name \cup {Nobody, "auto", "dnd"},
             NEW at \in {"names", "find", "leave", "clear", "get"},
             Hire(j, NewCall(d, call, a, n, at)),
             UNCHANGED <<issued, token, sessions, saved, expired, ended>>,
             leaving' \in {leaving, leaving \cup {token[d]}}, token[d] # Nobody \/ leaving' = leaving
      PROVE  TokenInv'
  <2>1. token[d] \in Token \cup {Nobody} /\ at \in Stage
    BY DEF AccountTypes, AccountShape, Stage
  <2>2. /\ \A k \in Slot \ {j} : jobs'[k] = jobs[k]
        /\ jobs'[j] = NewCall(d, call, a, n, at)
    BY <1>1, <2>1, HireType
  <2>3. jobs'[j].token = token[d] /\ jobs'[j].at = at
    BY <2>2 DEF NewCall
  <2>4. Issued'
    BY <1>1, <2>1, <2>2, <2>3 DEF TokenInv, Issued
  <2>5. \A k \in Slot : Closing(k)'
    BY <1>1, <2>2, <2>3 DEF TokenInv, Closing
  <2>6. ASSUME NEW k \in Slot PROVE Secret(k)'
    <3>1. CASE k = j
      BY <3>1, <2>3 DEF Secret, Granting
    <3>2. CASE k # j
      <4>1. SUFFICES ASSUME Granting(k) PROVE Secret(k)'
        BY <2>2, <3>2 DEF Secret, Granting
      <4> DEFINE t == jobs[k].token
      <4>2. /\ t \in 1 .. issued /\ t \notin ended \cup leaving
            /\ \A e \in Device : token[e] # t
            /\ \A i \in Slot \ {k} : jobs[i] # Nobody => jobs[i].token # t
            /\ sessions[t] # Nobody \/ t \in expired
            /\ sessions[t] # Nobody => sessions[t] = jobs[k].account
            /\ jobs[k].at = "answer" => t \in expired \/ saved[t] = sessions[t]
        BY <4>1 DEF TokenInv, Secret
      <4>3. \A i \in Slot \ {k} : jobs'[i] # Nobody => jobs'[i].token # t
        BY <2>2, <2>3, <4>2
      <4>4. t \notin leaving'
        BY <1>1, <4>2
      <4>5. jobs'[k] = jobs[k]
        BY <2>2, <3>2
      <4>6. QED
        BY <1>1, <4>2, <4>3, <4>4, <4>5 DEF Secret
    <3>3. QED
      BY <3>1, <3>2
  <2>7. SessionsHold'
    BY <1>1 DEF TokenInv, SessionsHold
  <2>8. QED
    BY <2>4, <2>5, <2>6, <2>7 DEF TokenInv
<1>2. ASSUME NEW n \in Name, CallRegister(d, j, n) \/ CallLogin(d, j, n) PROVE TokenInv'
  BY <1>1, <1>2 DEF CallRegister, CallLogin
<1>3. ASSUME NEW call \in {"logout", "delete", "rename", "prefer"}, NEW n \in Name \cup {Nobody, "auto", "dnd"},
             NEW at \in {"leave", "clear", "get"}, Authorized(d, j, call, n, at), ended' = ended,
             leaving' \in {leaving, leaving \cup {token[d]}}
      PROVE  TokenInv'
  <2> DEFINE t == token[d]
  <2>1. /\ t \in Token
        /\ UNCHANGED <<users, expired, issued, presence, line, ended, erased>>
    BY <1>3 DEF Authorized, AccountTypes, AccountShape
  <2>2. CASE Valid(t)
    <3>1. /\ Hire(j, NewCall(d, call, sessions[t], n, at))
          /\ UNCHANGED <<token, sessions, saved>>
      BY <1>3, <2>2 DEF Authorized
    <3>2. sessions[t] \in Account
      BY <2>1, <2>2 DEF Valid, AccountTypes, AccountShape
    <3>3. QED
      BY <1>1, <1>3, <2>1, <3>1, <3>2
  <2>3. CASE ~Valid(t)
    <3>1. /\ token' = [token EXCEPT ![d] = Nobody] /\ UNCHANGED jobs
          /\ sessions' = [sessions EXCEPT ![t] = Nobody]
          /\ saved' = IF sessions[t] # Nobody THEN [saved EXCEPT ![t] = Nobody] ELSE saved
      BY <1>3, <2>3 DEF Authorized
    <3>2. /\ \A e \in Device : token'[e] \in {token[e], Nobody}
          /\ \A s \in Token : sessions'[s] \in {sessions[s], Nobody} /\ saved'[s] \in {saved[s], Nobody}
          /\ \A s \in Token \ {t} : sessions'[s] = sessions[s] /\ saved'[s] = saved[s]
      BY <2>1, <3>1 DEF AccountTypes, AccountShape
    <3>3. Issued'
      BY <1>3, <2>1, <3>1, <3>2 DEF TokenInv, Issued
    <3>4. ASSUME NEW k \in Slot PROVE Secret(k)'
      <4>1. SUFFICES ASSUME Granting(k) PROVE Secret(k)'
        BY <3>1 DEF Secret, Granting
      <4> DEFINE s == jobs[k].token
      <4>2. /\ s \in 1 .. issued /\ s \notin ended \cup leaving
            /\ \A e \in Device : token[e] # s
            /\ \A i \in Slot \ {k} : jobs[i] # Nobody => jobs[i].token # s
            /\ sessions[s] # Nobody \/ s \in expired
            /\ sessions[s] # Nobody => sessions[s] = jobs[k].account
            /\ jobs[k].at = "answer" => s \in expired \/ saved[s] = sessions[s]
        BY <4>1 DEF TokenInv, Secret
      <4>3. s # t /\ s \in Token /\ s # Nobody
        BY <4>2 DEF AccountTypes, AccountShape, Token
      <4>4. sessions'[s] = sessions[s] /\ saved'[s] = saved[s] /\ s \notin leaving' /\ \A e \in Device : token'[e] # s
        BY <1>3, <3>2, <4>2, <4>3
      <4>5. QED
        BY <2>1, <3>1, <4>2, <4>4 DEF Secret
    <3>5. ASSUME NEW k \in Slot PROVE Closing(k)'
      <4>1. SUFFICES ASSUME jobs[k] # Nobody, jobs[k].call \in {"logout", "delete"} PROVE Closing(k)'
        BY <3>1 DEF Closing
      <4>2. jobs[k].token \in Token
        BY <4>1 DEF AccountTypes, AccountShape, JobOK
      <4>3. Closing(k)
        BY DEF TokenInv
      <4>4. QED
        BY <3>1, <3>2, <4>1, <4>2, <4>3 DEF Closing
    <3>6. SessionsHold'
      <4>1. ASSUME NEW s \in ended PROVE sessions'[s] = Nobody /\ saved'[s] = Nobody
        BY <3>2, <4>1 DEF TokenInv, SessionsHold, AccountTypes, AccountShape
      <4>2. ASSUME NEW e \in Device, token'[e] \notin expired \cup leaving' \cup {Nobody}
            PROVE  sessions'[token'[e]] # Nobody /\ saved'[token'[e]] = sessions'[token'[e]]
        <5>1. token'[e] = token[e] /\ token[e] \in Token /\ token[e] \notin leaving
          BY <1>3, <3>2, <4>2 DEF AccountTypes, AccountShape
        <5>2. sessions[token[e]] # Nobody /\ saved[token[e]] = sessions[token[e]]
          BY <4>2, <5>1 DEF TokenInv, SessionsHold
        <5>3. token[e] # t
          BY <2>3, <4>2, <5>1, <5>2 DEF Valid
        <5>4. QED
          BY <3>2, <5>1, <5>2, <5>3
      <4>3. QED
        BY <2>1, <4>1, <4>2 DEF SessionsHold
    <3>7. QED
      BY <3>3, <3>4, <3>5, <3>6 DEF TokenInv
  <2>4. QED
    BY <2>2, <2>3
<1>4. CASE CallLogout(d, j) \/ CallDelete(d, j)
  BY <1>3, <1>4 DEF CallLogout, CallDelete, Authorized
<1>5. ASSUME NEW n \in Name, CallRename(d, j, n) PROVE TokenInv'
  BY <1>3, <1>5 DEF CallRename, Authorized
<1>6. ASSUME NEW p \in {"auto", "dnd"}, CallPrefer(d, j, p) PROVE TokenInv'
  BY <1>3, <1>6 DEF CallPrefer, Authorized
<1>7. QED
  BY <1>2, <1>4, <1>5, <1>6
\* A token is new when its login makes it, and the device is given what nobody else has.
LEMMA TokenLogin ==
  ASSUME AccountTypes, TokenInv, NEW j \in Slot, Remember(j) \/ Save(j)
  PROVE  TokenInv'
<1> DEFINE job == jobs[j]
<1> USE DEF accountStore, accountBounds, accountHistory
<1>1. job \in JobRecord /\ JobOK(j) /\ job # Nobody
  BY DEF AccountTypes, AccountShape, Remember, Save, Step
<1>2. CASE Remember(j)
  <2> DEFINE t == issued'
  <2>1. /\ job.at = "remember" /\ job.call = "login" /\ job.account \in Account /\ job.account # Nobody
        /\ issued \in Nat /\ t = issued + 1 /\ t \in Token
        /\ UNCHANGED <<saved, expired, token, leaving, ended>>
    BY <1>1, <1>2 DEF Remember, Step, JobOK, Known, AccountTypes, AccountShape, Token
  <2>2. [job EXCEPT !.token = t, !.at = "save"] \in JobRecord
    BY <1>1, <2>1 DEF JobRecord, Stage
  <2>3. /\ \A k \in Slot \ {j} : jobs'[k] = jobs[k]
        /\ jobs'[j] = [job EXCEPT !.token = t, !.at = "save"]
    BY <1>2, <2>2, JobType DEF Remember
  <2>4. /\ jobs'[j] # Nobody /\ jobs'[j].token = t /\ jobs'[j].at = "save" /\ jobs'[j].call = "login"
        /\ jobs'[j].account = job.account
    BY <1>1, <2>1, <2>2, <2>3 DEF JobRecord
  <2>5. /\ sessions'[t] = job.account
        /\ \A s \in Token \ {t} : sessions'[s] = sessions[s]
    BY <1>2, <2>1 DEF Remember, AccountTypes, AccountShape
  <2>6. Issued
    BY DEF TokenInv
  <2>7. t \notin ended \cup leaving /\ (\A e \in Device : token[e] # t)
        /\ \A k \in Slot : jobs[k] # Nobody => jobs[k].token # t
    BY <2>1, <2>6 DEF Issued, AccountTypes, AccountShape, Token
  <2>8. Issued'
    <3>1. \A e \in Device : token[e] # Nobody => token[e] \in Nat
      BY DEF AccountTypes, AccountShape, Token
    <3>2. \A k \in Slot : jobs[k] # Nobody /\ jobs[k].token # Nobody => jobs[k].token \in Nat
      BY DEF AccountTypes, AccountShape, Token, JobRecord
    <3>3. \A s \in ended \cup leaving : s \in Nat
      <4>1. ended \subseteq Token /\ leaving \subseteq Token
        BY DEF AccountTypes, AccountShape
      <4>2. Token \subseteq Nat
        BY DEF Token
      <4>3. QED
        BY <4>1, <4>2
    <3>4. \A e \in Device : token'[e] # Nobody => token'[e] <= issued'
      BY <2>1, <2>6, <3>1 DEF Issued
    <3>5. \A s \in ended' \cup leaving' : s <= issued'
      BY <2>1, <2>6, <3>3 DEF Issued
    <3>6. ASSUME NEW k \in Slot, jobs'[k] # Nobody, jobs'[k].token # Nobody PROVE jobs'[k].token <= issued'
      <4>1. CASE k = j
        BY <2>1, <2>4, <4>1
      <4>2. CASE k # j
        <5>1. jobs'[k] = jobs[k]
          BY <2>3, <4>2
        <5>2. jobs[k].token \in Nat /\ jobs[k].token <= issued
          BY <2>6, <3>2, <3>6, <5>1 DEF Issued
        <5>3. QED
          BY <2>1, <5>1, <5>2
      <4>3. QED
        BY <4>1, <4>2
    <3>7. QED
      BY <3>4, <3>5, <3>6 DEF Issued
  <2>9. ASSUME NEW k \in Slot PROVE Secret(k)'
    <3>1. CASE k = j
      <4>1. \A i \in Slot \ {j} : jobs'[i] # Nobody => jobs'[i].token # t
        BY <2>3, <2>7
      <4>2. t \in 1 .. issued' /\ sessions'[t] # Nobody
        BY <2>1, <2>5
      <4>3. QED
        BY <2>1, <2>4, <2>5, <2>7, <3>1, <4>1, <4>2 DEF Secret
    <3>2. CASE k # j
      <4>1. SUFFICES ASSUME Granting(k) PROVE Secret(k)'
        BY <2>3, <3>2 DEF Secret, Granting
      <4> DEFINE s == jobs[k].token
      <4>2. /\ s \in 1 .. issued /\ s \notin ended \cup leaving
            /\ \A e \in Device : token[e] # s
            /\ \A i \in Slot \ {k} : jobs[i] # Nobody => jobs[i].token # s
            /\ sessions[s] # Nobody \/ s \in expired
            /\ sessions[s] # Nobody => sessions[s] = jobs[k].account
            /\ jobs[k].at = "answer" => s \in expired \/ saved[s] = sessions[s]
        BY <4>1 DEF TokenInv, Secret
      <4>3. s # t /\ s \in Token /\ s \in 1 .. issued'
        BY <2>1, <4>2 DEF AccountTypes, AccountShape, Token
      <4>4. \A i \in Slot \ {k} : jobs'[i] # Nobody => jobs'[i].token # s
        BY <2>3, <2>4, <4>2, <4>3
      <4>5. sessions'[s] = sessions[s] /\ jobs'[k] = jobs[k]
        BY <2>3, <2>5, <3>2, <4>3
      <4>6. QED
        BY <2>1, <4>2, <4>3, <4>4, <4>5 DEF Secret
    <3>3. QED
      BY <3>1, <3>2
  <2>10. ASSUME NEW k \in Slot PROVE Closing(k)'
    <3>1. CASE k = j
      BY <2>4, <3>1 DEF Closing
    <3>2. CASE k # j /\ jobs[k] # Nobody /\ jobs[k].call \in {"logout", "delete"}
      <4>1. jobs[k].token \in Token /\ jobs[k].token # t /\ jobs'[k] = jobs[k]
        BY <2>3, <2>7, <3>2 DEF AccountTypes, AccountShape, JobOK
      <4>2. Closing(k)
        BY DEF TokenInv
      <4>3. QED
        BY <2>1, <2>5, <3>2, <4>1, <4>2 DEF Closing
    <3>3. QED
      BY <2>3, <3>1, <3>2 DEF Closing
  <2>11. SessionsHold'
    <3>1. \A s \in ended : s \in Token \ {t}
      BY <2>7 DEF AccountTypes, AccountShape
    <3>2. \A e \in Device : token[e] # Nobody => token[e] \in Token \ {t}
      BY <2>7 DEF AccountTypes, AccountShape
    <3>3. QED
      BY <2>1, <2>5, <3>1, <3>2 DEF TokenInv, SessionsHold
  <2>12. QED
    BY <2>8, <2>9, <2>10, <2>11 DEF TokenInv
<1>3. CASE Save(j)
  <2> DEFINE t == job.token
  <2>1. /\ job.at = "save" /\ job.call = "login" /\ job.account \in Account
        /\ t \in Token /\ NextAt(j, "answer") /\ "answer" \in Stage
        /\ UNCHANGED <<sessions, expired, issued, token, leaving, ended>>
    BY <1>1, <1>3 DEF Save, Step, JobOK, Known, Stage
  <2>2. /\ \A k \in Slot \ {j} : jobs'[k] = jobs[k]
        /\ jobs'[j] # Nobody /\ jobs'[j].token = t /\ jobs'[j].at = "answer" /\ jobs'[j].call = "login"
        /\ jobs'[j].account = job.account
    BY <1>1, <2>1, Moves
  <2>3. /\ t \in 1 .. issued /\ t \notin ended \cup leaving
        /\ \A e \in Device : token[e] # t
        /\ \A i \in Slot \ {j} : jobs[i] # Nobody => jobs[i].token # t
        /\ sessions[t] # Nobody \/ t \in expired
        /\ sessions[t] # Nobody => sessions[t] = job.account
    BY <1>1, <2>1 DEF TokenInv, Secret, Granting
  <2>4. saved'[t] = job.account /\ \A s \in Token \ {t} : saved'[s] = saved[s]
    BY <1>3, <2>1 DEF Save, AccountTypes, AccountShape
  <2>5. Issued'
    <3>1. ASSUME NEW k \in Slot, jobs'[k] # Nobody, jobs'[k].token # Nobody PROVE jobs'[k].token <= issued'
      <4>1. jobs[k] # Nobody /\ jobs'[k].token = jobs[k].token
        BY <1>1, <2>2, <3>1
      <4>2. QED
        BY <2>1, <3>1, <4>1 DEF TokenInv, Issued
    <3>2. QED
      BY <2>1, <3>1 DEF TokenInv, Issued
  <2>6. ASSUME NEW k \in Slot PROVE Secret(k)'
    <3>1. CASE k = j
      <4>1. \A i \in Slot \ {j} : jobs'[i] # Nobody => jobs'[i].token # t
        BY <2>2, <2>3
      <4>2. QED
        BY <2>1, <2>2, <2>3, <2>4, <3>1, <4>1 DEF Secret
    <3>2. CASE k # j
      <4>1. SUFFICES ASSUME Granting(k) PROVE Secret(k)'
        BY <2>2, <3>2 DEF Secret, Granting
      <4> DEFINE s == jobs[k].token
      <4>2. /\ s \in 1 .. issued /\ s \notin ended \cup leaving
            /\ \A e \in Device : token[e] # s
            /\ \A i \in Slot \ {k} : jobs[i] # Nobody => jobs[i].token # s
            /\ sessions[s] # Nobody \/ s \in expired
            /\ sessions[s] # Nobody => sessions[s] = jobs[k].account
            /\ jobs[k].at = "answer" => s \in expired \/ saved[s] = sessions[s]
        BY <4>1 DEF TokenInv, Secret
      <4>3. s # t /\ s \in Token
        BY <1>1, <3>2, <4>2 DEF AccountTypes, AccountShape, Token
      <4>4. \A i \in Slot \ {k} : jobs'[i] # Nobody => jobs'[i].token # s
        BY <2>2, <4>2, <4>3
      <4>5. saved'[s] = saved[s] /\ jobs'[k] = jobs[k]
        BY <2>2, <2>4, <3>2, <4>3
      <4>6. QED
        BY <2>1, <4>2, <4>3, <4>4, <4>5 DEF Secret
    <3>3. QED
      BY <3>1, <3>2
  <2>7. ASSUME NEW k \in Slot PROVE Closing(k)'
    <3>1. CASE k = j
      BY <2>2, <3>1 DEF Closing
    <3>2. CASE k # j /\ jobs[k] # Nobody /\ jobs[k].call \in {"logout", "delete"}
      <4>1. jobs[k].token \in Token /\ jobs[k].token # t /\ jobs'[k] = jobs[k]
        BY <2>2, <2>3, <3>2 DEF AccountTypes, AccountShape, JobOK
      <4>2. Closing(k)
        BY DEF TokenInv
      <4>3. QED
        BY <2>1, <2>4, <3>2, <4>1, <4>2 DEF Closing
    <3>3. QED
      BY <2>2, <3>1, <3>2 DEF Closing
  <2>8. SessionsHold'
    <3>1. \A s \in ended : s \in Token \ {t}
      BY <2>3 DEF AccountTypes, AccountShape
    <3>2. \A e \in Device : token[e] # Nobody => token[e] \in Token \ {t}
      BY <2>3 DEF AccountTypes, AccountShape
    <3>3. QED
      BY <2>1, <2>4, <3>1, <3>2 DEF TokenInv, SessionsHold
  <2>9. QED
    BY <2>5, <2>6, <2>7, <2>8 DEF TokenInv
<1>4. QED
  BY <1>2, <1>3

LEMMA TokenAnswer ==
  ASSUME AccountTypes, TokenInv, NEW j \in Slot, Answer(j)
  PROVE  TokenInv'
<1> DEFINE job == jobs[j]  login == job.call = "login"
<1>1. job \in JobRecord /\ JobOK(j) /\ job # Nobody /\ job.at = "answer"
  BY DEF AccountTypes, AccountShape, Answer, Step
<1>2. /\ job.token \in Token /\ job.device \in Device
      /\ login \/ job.call \in {"logout", "delete"}
  BY <1>1 DEF JobOK, JobRecord, AccountTypes, AccountShape
<1>3. /\ jobs'[j] = Nobody
      /\ \A k \in Slot \ {j} : jobs'[k] = jobs[k]
  BY CallEnds DEF Answer
<1>4. /\ \A e \in Device \ {job.device} : token'[e] = token[e]
      /\ token'[job.device] = IF login THEN job.token ELSE Nobody
      /\ ended' = IF login THEN ended ELSE ended \cup {job.token}
      /\ UNCHANGED <<sessions, saved, expired, issued, leaving>>
  BY <1>2 DEF Answer, accountStore, AccountTypes, AccountShape
<1>5. Issued'
  BY <1>1, <1>2, <1>3, <1>4 DEF TokenInv, Issued
<1>6. ASSUME NEW k \in Slot PROVE Secret(k)'
  <2>1. SUFFICES ASSUME Granting(k), k # j PROVE Secret(k)'
    BY <1>3 DEF Secret, Granting
  <2> DEFINE s == jobs[k].token
  <2>2. /\ s \in 1 .. issued /\ s \notin ended \cup leaving
        /\ \A e \in Device : token[e] # s
        /\ \A i \in Slot \ {k} : jobs[i] # Nobody => jobs[i].token # s
        /\ sessions[s] # Nobody \/ s \in expired
        /\ sessions[s] # Nobody => sessions[s] = jobs[k].account
        /\ jobs[k].at = "answer" => s \in expired \/ saved[s] = sessions[s]
    BY <2>1 DEF TokenInv, Secret
  <2>3. s # job.token /\ s # Nobody
    BY <1>1, <2>1, <2>2 DEF AccountTypes, AccountShape, Token
  <2>4. \A i \in Slot \ {k} : jobs'[i] # Nobody => jobs'[i].token # s
    BY <1>3, <2>2
  <2>5. (\A e \in Device : token'[e] # s) /\ s \notin ended' \cup leaving' /\ jobs'[k] = jobs[k]
    BY <1>3, <1>4, <2>1, <2>2, <2>3
  <2>6. QED
    BY <1>4, <2>2, <2>4, <2>5 DEF Secret
<1>7. \A k \in Slot : Closing(k)'
  BY <1>3, <1>4 DEF TokenInv, Closing
<1>8. SessionsHold'
  <2>1. ~login => sessions[job.token] = Nobody /\ saved[job.token] = Nobody
    BY <1>1, <1>2 DEF TokenInv, Closing
  <2>2. login => job.token \in expired \/ (sessions[job.token] # Nobody /\ saved[job.token] = sessions[job.token])
    BY <1>1 DEF TokenInv, Secret, Granting
  <2>3. \A t \in ended' : sessions'[t] = Nobody /\ saved'[t] = Nobody
    BY <1>4, <2>1 DEF TokenInv, SessionsHold
  <2>4. ASSUME NEW e \in Device, token'[e] \notin expired' \cup leaving' \cup {Nobody}
        PROVE  sessions'[token'[e]] # Nobody /\ saved'[token'[e]] = sessions'[token'[e]]
    <3>1. CASE e = job.device
      BY <1>4, <2>2, <2>4, <3>1
    <3>2. CASE e # job.device
      BY <1>4, <2>4, <3>2 DEF TokenInv, SessionsHold
    <3>3. QED
      BY <3>1, <3>2
  <2>5. QED
    BY <2>3, <2>4 DEF SessionsHold
<1>9. QED
  BY <1>5, <1>6, <1>7, <1>8 DEF TokenInv

\* After a crash memory is what is on disk.
LEMMA TokenRestart ==
  ASSUME AccountTypes, TokenInv, Restart
  PROVE  TokenInv'
<1>1. /\ UNCHANGED <<token, expired, issued, leaving, ended>> /\ jobs' = [j \in Slot |-> Nobody]
      /\ \A t \in Token : saved'[t] = IF t \in expired THEN Nobody ELSE saved[t]
      /\ sessions' = saved'
  BY DEF Restart
<1>2. Issued'
  BY <1>1 DEF TokenInv, Issued
<1>3. \A j \in Slot : Secret(j)' /\ Closing(j)'
  BY <1>1 DEF Secret, Granting, Closing
<1>4. SessionsHold'
  <2>1. ended \subseteq Token /\ \A d \in Device : token[d] # Nobody => token[d] \in Token
    BY DEF AccountTypes, AccountShape
  <2>2. QED
    BY <1>1, <2>1 DEF TokenInv, SessionsHold
<1>5. QED
  BY <1>2, <1>3, <1>4 DEF TokenInv

LEMMA TokenStep ==
  ASSUME AccountTypes, TokenInv, AccountsStep
  PROVE  TokenInv'
<1>1. CASE \E j \in Slot :
       \/ CheckNames(j) \/ CreateUser(j) \/ Authenticate(j) \/ Remember(j) \/ Save(j)
       \/ Leave(j) \/ ClearPresence(j) \/ GetUser(j) \/ Anonymize(j) \/ Forget(j)
       \/ EraseSaved(j) \/ ShowPreference(j) \/ UpdateUser(j) \/ Answer(j)
  BY <1>1, TokenWork, TokenLogin, TokenAnswer
<1>2. QED
  BY <1>1, TokenCalls, TokenRestart, TokenOther DEF AccountsStep, AccountsWork

\* Users, sessions, connections and calls are what they are meant to be.
THEOREM AccountsTypeCorrect == ServerSpec => []AccountsTypeOK
<1>1. ServerInit => AccountTypes
  BY ServerAccounts, AccountTypesInit
<1>2. AccountTypes /\ [ServerNext]_serverVars => AccountTypes'
  BY ServerAccounts, AccountTypesStep
<1>3. AccountTypes => AccountsTypeOK
  BY DEF AccountTypes, AccountShape, AccountsTypeOK
<1>4. QED
  BY <1>1, <1>2, <1>3, PTL DEF ServerSpec

\* A token that was logged out is valid never again, not after a crash either, and a token
\* that a device was given holds until it is logged out or expires: of registration, login,
\* logout, deletion, expiry and restart in any order, by any number of devices.
THEOREM TokensCorrect == ServerSpec => []SessionsHold
<1>1. ServerInit => AccountTypes /\ TokenInv
  BY ServerAccounts, AccountTypesInit, TokenInit
<1>2. AccountTypes /\ TokenInv /\ [ServerNext]_serverVars => (AccountTypes /\ TokenInv)'
  BY ServerAccounts, AccountTypesStep, TokenStep
<1>3. TokenInv => SessionsHold
  BY DEF TokenInv
<1>4. QED
  BY <1>1, <1>2, <1>3, PTL DEF ServerSpec
-----------------------------------------------------------------------------
(* Names and deleted accounts *)

AsksFor(j, n) == jobs[j] # Nobody /\ jobs[j].call \in {"register", "rename"} /\ jobs[j].name = n

\* Nobody else has the name, or who has it was written over.
FreeFor(n, a) == \A b \in Account \ {a} : users[b] # Nobody /\ users[b].name = n => b \in rewritten

Distinct == \A j, k \in Slot : \A n \in Name : j # k /\ AsksFor(j, n) /\ AsksFor(k, n) => n \in clashed

\* A call that found its name free.
Cleared(j) ==
  jobs[j] # Nobody /\ jobs[j].call \in {"register", "rename"} /\ jobs[j].at \in {"create", "put"} =>
    jobs[j].name \in clashed \cup {DeletedName} \/ FreeFor(jobs[j].name, jobs[j].account)

\* A deletion that has taken the password.
Erasing(j) ==
  jobs[j] # Nobody /\ jobs[j].call = "delete" /\ jobs[j].at \in {"forget", "erase", "answer"} =>
    jobs[j].account \in rewritten \/ ~users[jobs[j].account].password

NameInv ==
  /\ Distinct
  /\ \A j \in Slot : Cleared(j) /\ Erasing(j)
  /\ \A a \in erased : users[a] # Nobody
  /\ AccountsHold

\* What may be written over the record of an account.
Fits(a) ==
  LET n == users'[a].name IN
    /\ users'[a] # Nobody
    /\ \/ n \in clashed \cup {DeletedName} \/ a \in rewritten'
       \/ users[a] # Nobody /\ users[a].name = n
       \/ FreeFor(n, a) /\ n \in Name /\ \E j \in Slot : AsksFor(j, n) /\ jobs'[j] = Nobody
    /\ \/ a \in rewritten' \/ users[a] = Nobody \/ ~users'[a].password
       \/ users'[a].password = users[a].password

LEMMA NamesKept ==
  ASSUME AccountTypes, NameInv, clashed \subseteq clashed', rewritten \subseteq rewritten',
         NEW w, \A b \in Account \ {w} : users'[b] = users[b],
         w \in Account => users'[w] = users[w] \/ Fits(w),
         \A a \in erased' \ erased : a \in Account /\ users'[a] # Nobody /\ (a \in rewritten' \/ ~users'[a].password),
         \A k \in Slot : \/ jobs'[k] = jobs[k] \/ jobs'[k] = Nobody
                         \/ Cleared(k)' /\ Erasing(k)',
         Distinct'
  PROVE  NameInv'
<1>1. ASSUME NEW k \in Slot PROVE Cleared(k)'
  <2>1. SUFFICES ASSUME jobs'[k] = jobs[k], jobs[k] # Nobody, jobs[k].call \in {"register", "rename"},
                        jobs[k].at \in {"create", "put"}, jobs[k].name \notin clashed \cup {DeletedName}
                 PROVE  FreeFor(jobs[k].name, jobs[k].account)'
    BY DEF Cleared
  <2> DEFINE n == jobs[k].name
  <2>2. FreeFor(n, jobs[k].account)
    BY <2>1 DEF NameInv, Cleared
  <2>3. SUFFICES ASSUME NEW b \in Account, b # jobs[k].account, users'[b] # Nobody, users'[b].name = n
                 PROVE  b \in rewritten'
    BY <2>1 DEF FreeFor
  <2>4. CASE users'[b] = users[b]
    BY <2>2, <2>3, <2>4 DEF FreeFor
  <2>5. CASE b = w /\ Fits(w)
    <3>1. CASE users[w] # Nobody /\ users[w].name = n
      BY <2>2, <2>3, <2>5, <3>1 DEF FreeFor
    <3>2. ASSUME NEW j \in Slot, AsksFor(j, n), jobs'[j] = Nobody, n \in Name PROVE FALSE
      <4>1. j # k /\ AsksFor(k, n)
        BY <2>1, <3>2 DEF AsksFor
      <4>2. n \in clashed
        BY <3>2, <4>1 DEF NameInv, Distinct
      <4>3. QED
        BY <2>1, <4>2
    <3>3. QED
      BY <2>1, <2>3, <2>5, <3>1, <3>2 DEF Fits
  <2>6. QED
    BY <2>3, <2>4, <2>5
<1>2. ASSUME NEW k \in Slot PROVE Erasing(k)'
  <2>1. SUFFICES ASSUME jobs'[k] = jobs[k], jobs[k] # Nobody, jobs[k].call = "delete",
                        jobs[k].at \in {"forget", "erase", "answer"}
                 PROVE  jobs[k].account \in rewritten' \/ ~users'[jobs[k].account].password
    BY DEF Erasing
  <2> DEFINE a == jobs[k].account
  <2>2. a \in Account /\ users[a] # Nobody
    BY <2>1 DEF AccountTypes, JobOK, Known
  <2>3. a \in rewritten \/ ~users[a].password
    BY <2>1 DEF NameInv, Erasing
  <2>4. QED
    BY <2>2, <2>3 DEF Fits
<1>3. ASSUME NEW a \in erased' PROVE users'[a] # Nobody /\ (a \in rewritten' \/ ~users'[a].password)
  <2>1. CASE a \in erased
    <3>1. a \in Account /\ users[a] # Nobody /\ (a \in rewritten \/ ~users[a].password)
      BY <2>1 DEF NameInv, AccountsHold, AccountTypes, AccountShape
    <3>2. QED
      BY <3>1 DEF Fits
  <2>2. QED
    BY <1>3, <2>1
<1>4. ASSUME NEW a \in Account, NEW b \in Account, a # b, users'[a] # Nobody, users'[b] # Nobody,
             users'[a].name = users'[b].name
      PROVE  users'[a].name \in clashed' \cup {DeletedName} \/ a \in rewritten' \/ b \in rewritten'
  <2>1. CASE users'[a] = users[a] /\ users'[b] = users[b]
    BY <1>4, <2>1 DEF NameInv, AccountsHold
  <2>2. ASSUME NEW c \in Account, NEW e \in Account, c # e, c = w, Fits(w), users'[e] = users[e],
               users[e] # Nobody, users'[c].name = users[e].name
        PROVE  users'[c].name \in clashed' \cup {DeletedName} \/ c \in rewritten' \/ e \in rewritten'
    <3>1. CASE users[c] # Nobody /\ users[c].name = users'[c].name
      BY <2>2, <3>1 DEF NameInv, AccountsHold
    <3>2. CASE FreeFor(users'[c].name, c)
      BY <2>2, <3>2 DEF FreeFor
    <3>3. QED
      BY <2>2, <3>1, <3>2 DEF Fits
  <2>3. CASE a = w /\ Fits(w)
    BY <1>4, <2>2, <2>3
  <2>4. CASE b = w /\ Fits(w)
    BY <1>4, <2>2, <2>4
  <2>5. QED
    BY <1>4, <2>1, <2>3, <2>4
<1>5. AccountsHold'
  BY <1>3, <1>4 DEF AccountsHold
<1>6. QED
  BY <1>1, <1>2, <1>3, <1>5 DEF NameInv

\* Calls that go on or end ask for nothing new.
LEMMA NothingAsked ==
  ASSUME NameInv, clashed \subseteq clashed',
         \A k \in Slot : \/ jobs'[k] = jobs[k] \/ jobs'[k] = Nobody
                         \/ jobs[k] # Nobody /\ jobs'[k].call = jobs[k].call /\ jobs'[k].name = jobs[k].name
  PROVE  Distinct'
<1>1. \A k \in Slot : \A n \in Name : AsksFor(k, n)' => AsksFor(k, n)
  BY DEF AsksFor
<1>2. QED
  BY <1>1 DEF NameInv, Distinct

LEMMA NameInit == AccountsInit => NameInv
<1> SUFFICES ASSUME AccountsInit PROVE NameInv
  OBVIOUS
<1>1. jobs = [j \in Slot |-> Nobody] /\ erased = {}
  BY DEF AccountsInit
<1>2. \A a, b \in Account : users[a] # Nobody /\ users[b] # Nobody => a = b
  BY DEF AccountsInit
<1>3. QED
  BY <1>1, <1>2 DEF NameInv, Distinct, Cleared, Erasing, AsksFor, AccountsHold
LEMMA NameCalls ==
  ASSUME AccountTypes, NameInv, AccountsCall
  PROVE  NameInv'
<1> USE DEF accountStore, accountBounds, accountHistory
<1> PICK j \in Slot, d \in Device :
      \/ CallLogout(d, j) \/ CallDelete(d, j)
      \/ \E n \in Name : CallRegister(d, j, n) \/ CallLogin(d, j, n) \/ CallRename(d, j, n)
      \/ \E p \in {"auto", "dnd"} : CallPrefer(d, j, p)
  BY DEF AccountsCall
<1>1. ASSUME NEW call \in {"register", "login", "logout", "delete", "rename", "prefer"},
             NEW a \in Account \cup {Nobody}, NEW n \in Name \cup {Nobody, "auto", "dnd"},
             NEW at \in {"names", "find", "leave", "clear", "get"},
             Hire(j, NewCall(d, call, a, n, at)), UNCHANGED <<users, erased, rewritten>>,
             IF call \in {"register", "rename"} /\ Asking(n) THEN clashed' = clashed \cup {n} ELSE UNCHANGED clashed
      PROVE  NameInv'
  <2>1. token[d] \in Token \cup {Nobody} /\ at \in Stage
    BY DEF AccountTypes, AccountShape, Stage
  <2>2. /\ \A k \in Slot \ {j} : jobs'[k] = jobs[k]
        /\ jobs'[j] = NewCall(d, call, a, n, at)
    <3>1. Hire(j, NewCall(d, call, a, n, at))
      BY <1>1
    <3>2. QED
      BY <2>1, <3>1, HireType
  <2>3. jobs'[j].call = call /\ jobs'[j].at = at /\ jobs'[j].name = n
    BY <2>2 DEF NewCall
  <2>4. Cleared(j)' /\ Erasing(j)'
    BY <2>3 DEF Cleared, Erasing
  <2>5. Distinct'
    <3>1. ASSUME NEW k \in Slot \ {j}, NEW m \in Name, AsksFor(j, m)', AsksFor(k, m)' PROVE m \in clashed'
      <4>1. AsksFor(k, m) /\ m = n /\ call \in {"register", "rename"}
        BY <2>2, <2>3, <3>1 DEF AsksFor
      <4>2. Asking(n)
        BY <4>1 DEF Asking, AsksFor
      <4>3. QED
        BY <1>1, <4>1, <4>2
    <3>2. ASSUME NEW k \in Slot \ {j}, NEW i \in Slot \ {j}, NEW m \in Name, i # k, AsksFor(i, m)', AsksFor(k, m)'
          PROVE m \in clashed'
      BY <1>1, <2>2, <3>2 DEF NameInv, Distinct, AsksFor
    <3>3. QED
      BY <3>1, <3>2 DEF Distinct
  <2>6. QED
    BY <1>1, <2>2, <2>4, <2>5, NamesKept
<1>2. ASSUME NEW n \in Name, CallRegister(d, j, n) \/ CallLogin(d, j, n) PROVE NameInv'
  BY <1>1, <1>2 DEF CallRegister, CallLogin
<1>3. ASSUME NEW call \in {"logout", "delete", "rename", "prefer"}, NEW n \in Name \cup {Nobody, "auto", "dnd"},
             NEW at \in {"leave", "clear", "get"}, Authorized(d, j, call, n, at),
             IF call = "rename" /\ Asking(n) THEN clashed' = clashed \cup {n} ELSE UNCHANGED clashed
      PROVE  NameInv'
  <2>1. UNCHANGED <<users, erased, rewritten>> /\ token[d] \in Token
    BY <1>3 DEF Authorized, AccountTypes, AccountShape
  <2>2. CASE Valid(token[d])
    <3>1. sessions[token[d]] \in Account /\ Hire(j, NewCall(d, call, sessions[token[d]], n, at))
      BY <1>3, <2>1, <2>2 DEF Authorized, Valid, AccountTypes, AccountShape
    <3>2. QED
      BY <1>1, <1>3, <2>1, <3>1
  <2>3. CASE ~Valid(token[d])
    <3>1. UNCHANGED jobs
      BY <1>3, <2>3 DEF Authorized
    <3>2. Distinct' /\ clashed \subseteq clashed'
      BY <1>3, <3>1, NothingAsked
    <3>3. QED
      BY <2>1, <3>1, <3>2, NamesKept
  <2>4. QED
    BY <2>2, <2>3
<1>4. CASE CallLogout(d, j) \/ CallDelete(d, j)
  BY <1>3, <1>4 DEF CallLogout, CallDelete
<1>5. ASSUME NEW n \in Name, CallRename(d, j, n) PROVE NameInv'
  BY <1>3, <1>5 DEF CallRename
<1>6. ASSUME NEW p \in {"auto", "dnd"}, CallPrefer(d, j, p) PROVE NameInv'
  BY <1>3, <1>6 DEF CallPrefer
<1>7. QED
  BY <1>2, <1>4, <1>5, <1>6

LEMMA NameWork ==
  ASSUME AccountTypes, NameInv, NEW j \in Slot,
         \/ CheckNames(j) \/ CreateUser(j) \/ Authenticate(j) \/ Remember(j) \/ Save(j)
         \/ Leave(j) \/ ClearPresence(j) \/ GetUser(j) \/ Anonymize(j) \/ Forget(j)
         \/ EraseSaved(j) \/ ShowPreference(j) \/ UpdateUser(j) \/ Answer(j)
  PROVE  NameInv'
<1> DEFINE job == jobs[j]
<1> USE DEF accountStore, accountBounds, accountHistory
<1>1. job \in JobRecord /\ JobOK(j) /\ job # Nobody
  BY DEF AccountTypes, AccountShape, CheckNames, CreateUser, Authenticate, Remember, Save, Leave,
         ClearPresence, GetUser, Anonymize, Forget, EraseSaved, ShowPreference, UpdateUser, Answer, Step
<1>2. ASSUME Over(j), UNCHANGED <<clashed>>, rewritten \subseteq rewritten',
             NEW w, \A b \in Account \ {w} : users'[b] = users[b],
             w \in Account => users'[w] = users[w] \/ Fits(w),
             \A a \in erased' \ erased : a \in Account /\ users'[a] # Nobody /\ (a \in rewritten' \/ ~users'[a].password)
      PROVE  NameInv'
  <2>1. \A k \in Slot : jobs'[k] = jobs[k] \/ jobs'[k] = Nobody
    BY <1>2, CallEnds
  <2>2. Distinct'
    BY <1>2, <2>1, NothingAsked
  <2>3. QED
    BY <1>2, <2>1, <2>2, NamesKept
<1>3. ASSUME \A k \in Slot \ {j} : jobs'[k] = jobs[k],
             jobs'[j].call = job.call, jobs'[j].name = job.name, Cleared(j)', Erasing(j)',
             UNCHANGED <<users, clashed, rewritten, erased>>
      PROVE  NameInv'
  <2>1. Distinct'
    BY <1>1, <1>3, NothingAsked
  <2>2. QED
    BY <1>3, <2>1, NamesKept
<1>4. CASE CheckNames(j)
  <2>1. CASE Taken(job.name, job.account)
    BY <1>2, <1>4, <2>1 DEF CheckNames
  <2>2. CASE ~Taken(job.name, job.account)
    <3>1. job.call \in {"register", "rename"}
      BY <1>1, <1>4 DEF CheckNames, Step, JobOK
    <3>2. PICK at \in {"create", "put"} : NextAt(j, at)
      BY <1>4, <2>2 DEF CheckNames
    <3>3. at \in Stage
      BY DEF Stage
    <3>4. /\ \A k \in Slot \ {j} : jobs'[k] = jobs[k]
          /\ jobs'[j].call = job.call /\ jobs'[j].name = job.name /\ jobs'[j].account = job.account
      BY <1>1, <3>2, <3>3, Moves
    <3>5. FreeFor(job.name, job.account)
      BY <2>2 DEF Taken, FreeFor
    <3>6. Cleared(j)' /\ Erasing(j)'
      BY <1>4, <3>1, <3>4, <3>5 DEF Cleared, Erasing, FreeFor, CheckNames
    <3>7. QED
      BY <1>3, <1>4, <3>4, <3>6 DEF CheckNames
  <2>3. QED
    BY <2>1, <2>2
<1>5. CASE CreateUser(j)
  <2>1. job.call = "register" /\ job.at = "create" /\ job.account = Nobody /\ job.name \in Name
    BY <1>1, <1>5 DEF CreateUser, Step, JobOK
  <2>2. PICK a \in Account : users[a] = Nobody /\ users' = [users EXCEPT ![a] = User0(job.name)]
    BY <1>5 DEF CreateUser, IsLeast
  <2>3. job.name \in clashed \cup {DeletedName} \/ FreeFor(job.name, a)
    BY <1>1, <2>1 DEF NameInv, Cleared, FreeFor
  <2>4. /\ users'[a] = User0(job.name)
        /\ \A b \in Account \ {a} : users'[b] = users[b]
    BY <2>2 DEF AccountTypes, AccountShape
  <2>5. User0(job.name) \in UserRecord /\ User0(job.name).name = job.name
    BY <2>1 DEF User0, UserRecord, Shows
  <2>6. AsksFor(j, job.name) /\ jobs'[j] = Nobody
    BY <1>1, <1>5, <2>1, CallEnds DEF AsksFor, CreateUser
  <2>7. Fits(a)
    BY <1>5, <2>1, <2>2, <2>3, <2>4, <2>5, <2>6 DEF Fits
  <2>8. QED
    BY <1>2, <1>5, <2>4, <2>7 DEF CreateUser
<1>6. CASE Authenticate(j)
  <2>1. CASE Over(j)
    BY <1>2, <1>6, <2>1 DEF Authenticate
  <2>2. ASSUME NEW a \in Account, jobs' = [jobs EXCEPT ![j] = [@ EXCEPT !.account = a, !.at = "remember"]]
        PROVE  NameInv'
    <3>1. [job EXCEPT !.account = a, !.at = "remember"] \in JobRecord
      BY <1>1 DEF JobRecord, Stage
    <3>2. /\ \A k \in Slot \ {j} : jobs'[k] = jobs[k]
          /\ jobs'[j] = [job EXCEPT !.account = a, !.at = "remember"]
      BY <2>2, <3>1, JobType
    <3>3. jobs'[j].at = "remember" /\ jobs'[j].name = job.name /\ jobs'[j].call = job.call
      BY <1>1, <3>2 DEF JobRecord
    <3>4. Cleared(j)' /\ Erasing(j)'
      BY <3>3 DEF Cleared, Erasing
    <3>5. QED
      BY <1>3, <1>6, <3>2, <3>3, <3>4 DEF Authenticate
  <2>3. QED
    BY <1>6, <2>1, <2>2 DEF Authenticate
<1>7. CASE Remember(j)
  <2>1. issued' \in Token /\ job.call = "login"
    BY <1>1, <1>7 DEF Remember, Step, JobOK, AccountTypes, AccountShape, Token
  <2>2. [job EXCEPT !.token = issued', !.at = "save"] \in JobRecord
    BY <1>1, <2>1 DEF JobRecord, Stage
  <2>3. /\ \A k \in Slot \ {j} : jobs'[k] = jobs[k]
        /\ jobs'[j] = [job EXCEPT !.token = issued', !.at = "save"]
    BY <1>7, <2>2, JobType DEF Remember
  <2>4. jobs'[j].at = "save" /\ jobs'[j].name = job.name /\ jobs'[j].call = job.call
    BY <1>1, <2>3 DEF JobRecord
  <2>5. Cleared(j)' /\ Erasing(j)'
    BY <2>1, <2>4 DEF Cleared, Erasing
  <2>6. QED
    BY <1>3, <1>7, <2>3, <2>4, <2>5 DEF Remember
<1>8. CASE GetUser(j)
  <2>1. PICK at \in {"anonymize", "names", "show"} :
          jobs' = [jobs EXCEPT ![j] = [@ EXCEPT !.held = users[job.account], !.at = at]]
    BY <1>1, <1>8 DEF GetUser, Step, JobOK
  <2>2. users[job.account] \in UserRecord
    BY <1>1, <1>8 DEF GetUser, Step, JobOK, Known, AccountTypes, AccountShape
  <2>3. [job EXCEPT !.held = users[job.account], !.at = at] \in JobRecord
    BY <1>1, <2>2 DEF JobRecord, Stage
  <2>4. /\ \A k \in Slot \ {j} : jobs'[k] = jobs[k]
        /\ jobs'[j] = [job EXCEPT !.held = users[job.account], !.at = at]
    BY <2>1, <2>3, JobType
  <2>5. jobs'[j].at = at /\ jobs'[j].name = job.name /\ jobs'[j].call = job.call
    BY <1>1, <2>4 DEF JobRecord
  <2>6. Cleared(j)' /\ Erasing(j)'
    BY <2>5 DEF Cleared, Erasing
  <2>7. QED
    BY <1>3, <1>8, <2>4, <2>5, <2>6 DEF GetUser
<1>9. CASE Save(j) \/ Leave(j) \/ ClearPresence(j) \/ Forget(j) \/ EraseSaved(j) \/ ShowPreference(j)
  <2>1. PICK at \in {"answer", "forget", "get", "erase", "put"} : NextAt(j, at)
    BY <1>9 DEF Save, Leave, ClearPresence, Forget, EraseSaved, ShowPreference
  <2>2. at \in Stage
    BY DEF Stage
  <2>3. /\ \A k \in Slot \ {j} : jobs'[k] = jobs[k]
        /\ jobs'[j].call = job.call /\ jobs'[j].name = job.name /\ jobs'[j].account = job.account
        /\ jobs'[j].at = at
    BY <1>1, <2>1, <2>2, Moves
  <2>4. /\ job.call \notin {"register", "rename"}
        /\ job.call = "delete" => at = "get" \/ job.at \in {"forget", "erase"}
    <3>1. /\ job.at \in {"save", "leave", "clear", "forget", "erase", "show"}
          /\ job.at \in {"save", "leave", "show"} => job.call # "delete"
          /\ job.call \notin {"register", "rename"}
      BY <1>1, <1>9 DEF Save, Leave, ClearPresence, Forget, EraseSaved, ShowPreference, Step, JobOK
    <3>2. CASE ClearPresence(j)
      BY <1>1, <2>3, <3>1, <3>2, Moves DEF ClearPresence, Stage
    <3>3. CASE ~ClearPresence(j)
      BY <1>1, <1>9, <3>1, <3>3 DEF Save, Leave, Forget, EraseSaved, ShowPreference, Step, JobOK
    <3>4. QED
      BY <3>2, <3>3
  <2>5. UNCHANGED <<users, clashed, rewritten, erased>>
    BY <1>9 DEF Save, Leave, ClearPresence, Forget, EraseSaved, ShowPreference
  <2>6. Cleared(j)' /\ Erasing(j)'
    BY <1>1, <2>3, <2>4, <2>5 DEF Cleared, Erasing, NameInv
  <2>7. QED
    BY <1>3, <2>3, <2>5, <2>6
<1>10. CASE Anonymize(j)
  <2> DEFINE a == job.account
             new == [job.held EXCEPT !.name = DeletedName, !.password = FALSE, !.status = "deleted"]
  <2>1. a \in Account /\ Known(a) /\ job.held \in UserRecord /\ job.call = "delete"
    BY <1>1, <1>10 DEF Anonymize, Step, JobOK, Known, JobRecord
  <2>2. new \in UserRecord /\ new.name = DeletedName /\ new.password = FALSE
    BY <2>1 DEF UserRecord
  <2>3. /\ PutUser(a, job.held, new) /\ NextAt(j, "forget") /\ "forget" \in Stage
        /\ UNCHANGED <<clashed, erased>>
    BY <1>10 DEF Anonymize, Stage
  <2>4. users'[a] = new /\ \A b \in Account \ {a} : users'[b] = users[b]
    BY <2>1, <2>2, <2>3, PutType
  <2>5. /\ \A k \in Slot \ {j} : jobs'[k] = jobs[k]
        /\ jobs'[j].call = job.call /\ jobs'[j].name = job.name /\ jobs'[j].account = a
        /\ jobs'[j].at = "forget"
    BY <1>1, <2>3, Moves
  <2>6. Cleared(j)' /\ Erasing(j)'
    BY <2>1, <2>2, <2>4, <2>5 DEF Cleared, Erasing
  <2>7. Fits(a) /\ rewritten \subseteq rewritten'
    BY <2>1, <2>2, <2>3, <2>4 DEF Fits, PutUser
  <2>8. Distinct'
    BY <1>1, <2>3, <2>5, NothingAsked
  <2>9. QED
    BY <2>3, <2>4, <2>5, <2>6, <2>7, <2>8, NamesKept
<1>11. CASE UpdateUser(j)
  <2> DEFINE a == job.account
             new == IF job.call = "rename" THEN [job.held EXCEPT !.name = job.name]
                    ELSE [job.held EXCEPT !.preference = job.name, !.status = Shown(job.name)]
  <2>0. /\ job.at = "put" /\ Known(a) /\ job.held # Nobody
        /\ \/ job.call = "rename" /\ job.name \in Name
           \/ job.call = "prefer" /\ job.name \in {"auto", "dnd"}
    BY <1>1, <1>11 DEF UpdateUser, Step, JobOK
  <2>1. a \in Account /\ Known(a) /\ job.held \in UserRecord
    BY <1>1, <2>0 DEF Known, JobRecord
  <2>2. new \in UserRecord /\ new.password = job.held.password
        /\ new.name = IF job.call = "rename" THEN job.name ELSE job.held.name
    BY <2>0, <2>1 DEF UserRecord, Shown, Shows
  <2>3. PutUser(a, job.held, new) /\ Over(j) /\ UNCHANGED <<clashed, erased>>
    BY <1>11 DEF UpdateUser
  <2>4. users'[a] = new /\ \A b \in Account \ {a} : users'[b] = users[b]
    BY <2>1, <2>2, <2>3, PutType
  <2>5. jobs'[j] = Nobody
    BY <2>3, CallEnds
  <2>6. job.held = users[a] \/ a \in rewritten'
    BY <2>3 DEF PutUser
  <2>7. ASSUME job.call = "rename"
        PROVE  AsksFor(j, job.name) /\ (job.name \in clashed \cup {DeletedName} \/ FreeFor(job.name, a))
    BY <1>1, <2>0, <2>7 DEF AsksFor, NameInv, Cleared
  <2>8. Fits(a) /\ rewritten \subseteq rewritten'
    BY <2>0, <2>1, <2>2, <2>3, <2>4, <2>5, <2>6, <2>7 DEF Fits, PutUser, Known
  <2>9. QED
    BY <1>2, <2>3, <2>4, <2>8
<1>12. CASE Answer(j)
  <2>1. job.call = "delete" => /\ job.account \in Account /\ users[job.account] # Nobody
                               /\ job.account \in rewritten \/ ~users[job.account].password
    BY <1>1, <1>12 DEF Answer, Step, JobOK, Known, NameInv, Erasing
  <2>2. UNCHANGED <<users, clashed, rewritten>> /\ Over(j)
        /\ erased' = IF job.call = "delete" THEN erased \cup {job.account} ELSE erased
    BY <1>12 DEF Answer
  <2>3. QED
    BY <1>2, <2>1, <2>2
<1>13. QED
  BY <1>4, <1>5, <1>6, <1>7, <1>8, <1>9, <1>10, <1>11, <1>12

LEMMA NameOther ==
  ASSUME AccountTypes, NameInv,
         \/ \E d \in Device :
              \/ Open(d) \/ ReadPreference(d) \/ SetPresence(d) \/ ReadUser(d) \/ WriteStatus(d)
              \/ Ping(d) \/ Close(d) \/ CheckConnected(d) \/ SetOffline(d) \/ ReadOffPreference(d)
         \/ \E t \in Token : Expire(t)
         \/ SweepExpired \/ Restart
         \/ UNCHANGED accountVars
  PROVE  NameInv'
<1> USE DEF accountStore, accountBounds, accountHistory, accountVars
<1>1. \A k \in Slot : jobs'[k] = jobs[k] \/ jobs'[k] = Nobody
  BY DEF Open, ReadPreference, SetPresence, ReadUser, WriteStatus, Ping, Close, CheckConnected,
         SetOffline, ReadOffPreference, Expire, SweepExpired, Restart
<1>2. UNCHANGED <<clashed, erased>>
  BY DEF Open, ReadPreference, SetPresence, ReadUser, WriteStatus, Ping, Close, CheckConnected,
         SetOffline, ReadOffPreference, Expire, SweepExpired, Restart
<1>3. Distinct'
  BY <1>1, <1>2, NothingAsked
<1>4. ASSUME NEW d \in Device, WriteStatus(d) PROVE NameInv'
  <2> DEFINE l == line[d]  a == l.account  new == [l.held EXCEPT !.status = l.status]
  <2>1. l \in LineRecord /\ a \in Account /\ Known(a) /\ l.held \in UserRecord
    BY <1>4 DEF WriteStatus, AccountTypes, AccountShape, LineOK, LineRecord, Known
  <2>2. new \in UserRecord /\ new.name = l.held.name /\ new.password = l.held.password
    BY <2>1 DEF UserRecord, LineRecord, Shows
  <2>3. PutUser(a, l.held, new)
    BY <1>4 DEF WriteStatus
  <2>4. users'[a] = new /\ \A b \in Account \ {a} : users'[b] = users[b]
    BY <2>1, <2>2, <2>3, PutType
  <2>5. l.held = users[a] \/ a \in rewritten'
    BY <2>3 DEF PutUser
  <2>6. Fits(a) /\ rewritten \subseteq rewritten'
    BY <2>1, <2>2, <2>3, <2>4, <2>5 DEF Fits, PutUser, Known
  <2>7. QED
    BY <1>1, <1>2, <1>3, <2>1, <2>4, <2>6, NamesKept
<1>5. ASSUME \A d \in Device : ~WriteStatus(d) PROVE NameInv'
  <2>1. UNCHANGED <<users, rewritten>>
    BY <1>5 DEF Open, ReadPreference, SetPresence, ReadUser, Ping, Close, CheckConnected,
         SetOffline, ReadOffPreference, Expire, SweepExpired, Restart
  <2>2. QED
    BY <1>1, <1>2, <1>3, <2>1, NamesKept
<1>6. QED
  BY <1>4, <1>5

LEMMA NameStep ==
  ASSUME AccountTypes, NameInv, AccountsStep
  PROVE  NameInv'
<1>1. CASE \E j \in Slot :
       \/ CheckNames(j) \/ CreateUser(j) \/ Authenticate(j) \/ Remember(j) \/ Save(j)
       \/ Leave(j) \/ ClearPresence(j) \/ GetUser(j) \/ Anonymize(j) \/ Forget(j)
       \/ EraseSaved(j) \/ ShowPreference(j) \/ UpdateUser(j) \/ Answer(j)
  BY <1>1, NameWork
<1>2. QED
  BY <1>1, NameCalls, NameOther DEF AccountsStep, AccountsWork

\* Two users do not share a name and a deleted account has no password again, of any calls
\* at once, except where two asked for the name together or a record was written over a
\* newer one, which is all that can break it.
THEOREM AccountsCorrect == ServerSpec => []AccountsHold
<1>1. ServerInit => AccountTypes /\ NameInv
  BY ServerAccounts, AccountTypesInit, NameInit
<1>2. AccountTypes /\ NameInv /\ [ServerNext]_serverVars => (AccountTypes /\ NameInv)'
  BY ServerAccounts, AccountTypesStep, NameStep
<1>3. NameInv => AccountsHold
  BY DEF NameInv
<1>4. QED
  BY <1>1, <1>2, <1>3, PTL DEF ServerSpec
-----------------------------------------------------------------------------
(* Presence *)

\* What is shown of a user who is here, and of one who is not.
ShownHere(a)  == presence[a] = Shown(users[a].preference)
StatusHere(a) == users[a].preference = "auto" => users[a].status = "online"
Here(a) == ShownHere(a) /\ StatusHere(a)

Away(a) == /\ presence[a] \in {"offline", Nobody}
           /\ users[a].preference = "auto" => users[a].status = "offline"

OtherLines(d, a) == \E e \in Device \ {d} : LineOf(e, a)

\* What is true while one connection of a user is at work.
AtWork(d, a) ==
  LET l == line[d]  u == users[a] IN
    /\ l.at = "presence" => (l.auto <=> u.preference = "auto") /\ l.status = Shown(u.preference)
    /\ l.at \in {"read", "status"} => ShownHere(a) /\ u.preference = "auto" /\ l.status = "online"
    /\ l.at = "closed" /\ OtherLines(d, a) => Here(a)
    /\ l.at = "offline" => ~OtherLines(d, a) /\ l.status = "offline"
    /\ l.at \in {"offPreference", "offRead", "offStatus"} =>
         ~OtherLines(d, a) /\ presence[a] = "offline" /\ l.status = "offline"
    /\ l.at \in {"offRead", "offStatus"} => u.preference = "auto"
    /\ l.at \in {"status", "offStatus"} => l.held = u

Unsettled(d, a) == LineOf(d, a) /\ line[d].at # "open"

\* Of a user whose calls and connections did not overlap: at most one connection is at work,
\* and if none is, what is shown is right.
Settled(a) ==
  /\ \A j \in Slot : About0(j, a) => jobs[j].call = "login"
  /\ \A d, e \in Device : Unsettled(d, a) /\ Unsettled(e, a) => d = e
  /\ \A d \in Device : Unsettled(d, a) => AtWork(d, a)
  /\ (\A d \in Device : ~Unsettled(d, a)) => IF \E d \in Device : LineOf(d, a) THEN Here(a) ELSE Away(a)

PresenceInv ==
  /\ \A a \in Account : users[a] = Nobody => presence[a] = Nobody /\ a \notin jumbled
  /\ \A a \in Account \ jumbled : users[a] # Nobody => Settled(a)

LEMMA PresenceHolds == AccountTypes /\ PresenceInv => PresenceIsTrue
<1> SUFFICES ASSUME AccountTypes, PresenceInv, NEW a \in Account \ jumbled, users[a] # Nobody,
                    \A d \in Device : LineOf(d, a) => line[d].at = "open"
             PROVE  IF \E d \in Device : LineOf(d, a) THEN Here(a) ELSE Away(a)
  BY DEF PresenceIsTrue, Here, ShownHere, StatusHere, Away
<1>1. Settled(a) /\ \A d \in Device : ~Unsettled(d, a)
  BY DEF PresenceInv, Unsettled
<1>2. QED
  BY <1>1 DEF Settled

\* A user about whom nothing happens.
LEMMA SettledKept ==
  ASSUME NEW a \in Account, Settled(a), users'[a] = users[a], presence'[a] = presence[a],
         \A d \in Device : line'[d] = line[d] \/ (~LineOf(d, a) /\ ~LineOf(d, a)'),
         \A j \in Slot : About0(j, a)' => jobs'[j].call = "login"
  PROVE  Settled(a)'
<1>1. \A d \in Device : LineOf(d, a)' <=> LineOf(d, a)
  BY DEF LineOf
<1>2. \A d \in Device : Unsettled(d, a)' <=> Unsettled(d, a)
  BY <1>1 DEF LineOf, Unsettled
<1>3. Here(a)' <=> Here(a)
  BY DEF Here, ShownHere, StatusHere, Shown
<1>4. Away(a)' <=> Away(a)
  BY DEF Away
<1>5. ASSUME NEW d \in Device, Unsettled(d, a)' PROVE AtWork(d, a)'
  <2>1. AtWork(d, a) /\ line'[d] = line[d]
    BY <1>2, <1>5 DEF Settled, Unsettled
  <2>2. OtherLines(d, a)' <=> OtherLines(d, a)
    BY <1>1 DEF OtherLines
  <2>3. ShownHere(a)' <=> ShownHere(a)
    BY DEF ShownHere, Shown
  <2>4. QED
    BY <1>3, <2>1, <2>2, <2>3 DEF AtWork
<1>6. QED
  BY <1>1, <1>2, <1>3, <1>4, <1>5 DEF Settled

\* A user one of whose connections goes on while the others are open.
LEMMA LineSettles ==
  ASSUME NEW a \in Account, NEW d \in Device, \A e \in Device \ {d} : line'[e] = line[e],
         \A e \in Device \ {d} : LineOf(e, a) => line[e].at = "open",
         \A j \in Slot : About0(j, a)' => jobs'[j].call = "login",
         Unsettled(d, a)' => AtWork(d, a)',
         ~Unsettled(d, a)' => IF OtherLines(d, a) \/ LineOf(d, a)' THEN Here(a)' ELSE Away(a)'
  PROVE  Settled(a)'
<1>1. \A e \in Device \ {d} : (LineOf(e, a)' <=> LineOf(e, a)) /\ ~Unsettled(e, a)'
  BY DEF LineOf, Unsettled
<1>2. (\E e \in Device : LineOf(e, a)') <=> OtherLines(d, a) \/ LineOf(d, a)'
  BY <1>1 DEF OtherLines
<1>3. QED
  BY <1>1, <1>2 DEF Settled

\* A step of one connection is right if it is right for its own user.
LEMMA LineStepSettles ==
  ASSUME AccountTypes, PresenceInv, NEW a, Known(a), NEW d \in Device,
         users'[a] # Nobody,
         \A b \in Account \ {a} : users'[b] = users[b] /\ presence'[b] = presence[b],
         UNCHANGED jobs, \A e \in Device \ {d} : line'[e] = line[e],
         line[d] # Nobody => line[d].account = a, line'[d] # Nobody => line'[d].account = a,
         jumbled \ {a} \subseteq jumbled', jumbled' \subseteq jumbled \cup {a},
         a \notin jumbled' => Settled(a)'
  PROVE  PresenceInv'
<1>1. ASSUME NEW b \in Account, b # a, b \notin jumbled', users'[b] # Nobody PROVE Settled(b)'
  <2>1. Settled(b) /\ \A j \in Slot : About0(j, b)' => jobs'[j].call = "login"
    BY <1>1 DEF PresenceInv, Settled, About0
  <2>2. QED
    BY <1>1, <2>1, SettledKept DEF LineOf
<1>2. QED
  BY <1>1 DEF PresenceInv, Known

\* While a connection of a user is at work the others are open.
LEMMA OthersOpen ==
  ASSUME PresenceInv, NEW d \in Device, NEW a \in Account \ jumbled, users[a] # Nobody, Unsettled(d, a)
  PROVE  /\ \A e \in Device \ {d} : LineOf(e, a) => line[e].at = "open"
         /\ \A j \in Slot : About0(j, a) => jobs[j].call = "login"
         /\ AtWork(d, a)
  BY DEF PresenceInv, Settled, Unsettled
LEMMA BusyStep ==
  ASSUME AccountTypes, PresenceInv, NEW d \in Device, NEW a \in Account, line[d] # Nobody,
         line[d].at # "open", line[d].account = a, users[a] # Nobody, users'[a] # Nobody,
         \A b \in Account \ {a} : users'[b] = users[b] /\ presence'[b] = presence[b],
         UNCHANGED <<jobs, jumbled>>, \A e \in Device \ {d} : line'[e] = line[e],
         line'[d] # Nobody => line'[d].account = a,
         a \notin jumbled /\ AtWork(d, a) =>
           /\ Unsettled(d, a)' => AtWork(d, a)'
           /\ ~Unsettled(d, a)' => IF OtherLines(d, a) \/ LineOf(d, a)' THEN Here(a)' ELSE Away(a)'
  PROVE  PresenceInv'
<1>1. ASSUME a \notin jumbled PROVE Settled(a)'
  <2>1. Unsettled(d, a)
    BY DEF Unsettled, LineOf
  <2>2. /\ \A e \in Device \ {d} : LineOf(e, a) => line[e].at = "open"
        /\ \A j \in Slot : About0(j, a) => jobs[j].call = "login"
        /\ AtWork(d, a)
    BY <1>1, <2>1, OthersOpen
  <2>3. \A j \in Slot : About0(j, a)' => jobs'[j].call = "login"
    BY <2>2 DEF About0
  <2>4. QED
    BY <1>1, <2>2, <2>3, LineSettles
<1>2. QED
  BY <1>1, LineStepSettles DEF Known

\* A connection of d on its way.
LEMMA PresenceBusy ==
  ASSUME AccountTypes, PresenceInv, NEW d \in Device,
         \/ ReadPreference(d) \/ SetPresence(d) \/ ReadUser(d) \/ WriteStatus(d)
         \/ CheckConnected(d) \/ SetOffline(d) \/ ReadOffPreference(d)
  PROVE  PresenceInv'
<1> DEFINE l == line[d]
<1> USE DEF accountStore, accountBounds, accountHistory
<1> PICK a : l.account = a
  OBVIOUS
<1> DEFINE u == users[a]
<1>1. /\ l # Nobody /\ l \in LineRecord /\ a \in Account /\ u \in UserRecord /\ u # Nobody /\ l.at # "open"
      /\ Known(a)
  BY DEF ReadPreference, SetPresence, ReadUser, WriteStatus, CheckConnected, SetOffline, ReadOffPreference,
         InPhase, AccountTypes, AccountShape, LineOK, Known, LineRecord
<1>2. UNCHANGED <<jobs, jumbled>>
  BY DEF ReadPreference, SetPresence, ReadUser, WriteStatus, CheckConnected, SetOffline, ReadOffPreference
<1>3. \A e \in Device \ {d} : line'[e] = line[e]
  BY DEF ReadPreference, SetPresence, ReadUser, WriteStatus, CheckConnected, SetOffline, ReadOffPreference,
         AccountTypes, AccountShape
<1>4. OtherLines(d, a)' <=> OtherLines(d, a)
  BY <1>1, <1>3 DEF OtherLines, LineOf
<1>5. CASE ReadPreference(d)
  <2> DEFINE new == [l EXCEPT !.at = "presence", !.auto = u.preference = "auto",
                              !.status = IF u.preference = "auto" THEN "online" ELSE u.preference]
  <2>1. line'[d] = new /\ UNCHANGED <<users, presence>>
    BY <1>5 DEF ReadPreference, AccountTypes, AccountShape
  <2>2. /\ new.account = a /\ new.at = "presence" /\ new.status = Shown(u.preference)
        /\ new \in LineRecord
    BY <1>1 DEF LineRecord, UserRecord, Phase, Shows, Shown
  <2>3. new.auto = (u.preference = "auto")
    BY <1>1 DEF LineRecord
  <2>4. AtWork(d, a)' /\ Unsettled(d, a)'
    BY <1>1, <2>1, <2>2, <2>3 DEF AtWork, Unsettled, LineOf
  <2>5. line'[d].account = a /\ UNCHANGED <<users, presence>>
    BY <2>1, <2>2
  <2>6. QED
    BY <1>1, <1>2, <1>3, <2>4, <2>5, BusyStep
<1>6. CASE SetPresence(d)
  <2> DEFINE new == [l EXCEPT !.at = IF l.auto THEN "read" ELSE "open"]
  <2>1. line'[d] = new /\ UNCHANGED users /\ l.at = "presence"
        /\ presence'[a] = l.status /\ \A b \in Account \ {a} : presence'[b] = presence[b]
    BY <1>1, <1>6 DEF SetPresence, InPhase, AccountTypes, AccountShape
  <2>2. /\ new.account = a /\ new.status = l.status /\ new \in LineRecord
        /\ l.auto => new.at = "read"
        /\ ~l.auto => new.at = "open"
    BY <1>1 DEF LineRecord, Phase
  <2>3. ASSUME AtWork(d, a)
        PROVE  /\ Unsettled(d, a)' => AtWork(d, a)'
               /\ ~Unsettled(d, a)' => LineOf(d, a)' /\ Here(a)'
    <3>1. (l.auto <=> u.preference = "auto") /\ l.status = Shown(u.preference)
      BY <2>1, <2>3 DEF AtWork
    <3>2. ShownHere(a)'
      BY <2>1, <3>1 DEF ShownHere, Shown
    <3>3. CASE l.auto
      BY <1>1, <2>1, <2>2, <3>1, <3>2, <3>3 DEF AtWork, Unsettled, LineOf, Shown
    <3>4. CASE ~l.auto
      BY <1>1, <2>1, <2>2, <3>1, <3>2, <3>4 DEF Unsettled, LineOf, Here, StatusHere
    <3>5. QED
      BY <3>3, <3>4
  <2>4. line'[d].account = a /\ UNCHANGED users /\ \A b \in Account \ {a} : presence'[b] = presence[b]
    BY <2>1, <2>2
  <2>5. QED
    BY <1>1, <1>2, <1>3, <2>3, <2>4, BusyStep
<1>7. CASE ReadUser(d)
  <2> DEFINE new == [l EXCEPT !.held = u, !.at = IF l.at = "read" THEN "status" ELSE "offStatus"]
  <2>1. line'[d] = new /\ UNCHANGED <<users, presence>> /\ l.at \in {"read", "offRead"}
    BY <1>1, <1>7 DEF ReadUser, AccountTypes, AccountShape
  <2>2. /\ new.account = a /\ new.status = l.status /\ new.held = u /\ new \in LineRecord
        /\ new.at = IF l.at = "read" THEN "status" ELSE "offStatus"
    BY <1>1 DEF LineRecord, Phase
  <2>3. Unsettled(d, a)' /\ (AtWork(d, a) => AtWork(d, a)')
    BY <1>1, <1>4, <2>1, <2>2 DEF AtWork, Unsettled, LineOf, ShownHere, Shown
  <2>4. /\ line'[d] # Nobody => line'[d].account = a
        /\ users'[a] # Nobody /\ \A b \in Account \ {a} : users'[b] = users[b] /\ presence'[b] = presence[b]
    BY <1>1, <2>1, <2>2
  <2>5. QED
    BY <1>1, <1>2, <1>3, <2>3, <2>4, BusyStep
<1>8. CASE WriteStatus(d)
  <2> DEFINE record == [l.held EXCEPT !.status = l.status]
             new == IF l.at = "status" THEN [l EXCEPT !.at = "open", !.held = Nobody] ELSE Nobody
  <2>1. l.at \in {"status", "offStatus"} /\ line'[d] = new /\ UNCHANGED presence /\ PutUser(a, l.held, record)
    BY <1>1, <1>8 DEF WriteStatus, AccountTypes, AccountShape
  <2>2. l.held \in UserRecord
    BY <1>1, <2>1 DEF AccountTypes, LineOK, LineRecord
  <2>3. record \in UserRecord /\ record.preference = l.held.preference /\ record.status = l.status
    BY <1>1, <2>2 DEF UserRecord, LineRecord, Shows
  <2>4. /\ users'[a] = record /\ record # Nobody
        /\ \A b \in Account \ {a} : users'[b] = users[b]
    BY <1>1, <2>1, <2>3, PutType
  <2>5. /\ l.at = "status" => new \in LineRecord /\ new.account = a /\ new.at = "open"
        /\ l.at = "offStatus" => new = Nobody
    BY <1>1 DEF LineRecord, Phase
  <2>6. ASSUME AtWork(d, a)
        PROVE  /\ ~Unsettled(d, a)'
               /\ IF OtherLines(d, a) \/ LineOf(d, a)' THEN Here(a)' ELSE Away(a)'
    <3>1. CASE l.at = "status"
      <4>1. ShownHere(a) /\ u.preference = "auto" /\ l.status = "online" /\ l.held = u
        BY <2>6, <3>1 DEF AtWork
      <4>2. LineOf(d, a)' /\ ~Unsettled(d, a)'
        BY <2>1, <2>5, <3>1 DEF LineOf, Unsettled
      <4>3. Here(a)'
        BY <2>1, <2>3, <2>4, <4>1 DEF Here, ShownHere, StatusHere, Shown
      <4>4. QED
        BY <4>2, <4>3
    <3>2. CASE l.at = "offStatus"
      <4>1. ~OtherLines(d, a) /\ presence[a] = "offline" /\ l.status = "offline" /\ l.held = u
        BY <2>6, <3>2 DEF AtWork
      <4>2. ~LineOf(d, a)' /\ ~Unsettled(d, a)'
        BY <2>1, <2>5, <3>2 DEF LineOf, Unsettled
      <4>3. Away(a)'
        BY <2>1, <2>3, <2>4, <4>1 DEF Away
      <4>4. QED
        BY <4>1, <4>2, <4>3
    <3>3. QED
      BY <2>1, <3>1, <3>2
  <2>7. /\ line'[d] # Nobody => line'[d].account = a
        /\ users'[a] # Nobody /\ \A b \in Account \ {a} : users'[b] = users[b] /\ presence'[b] = presence[b]
    BY <2>1, <2>4, <2>5
  <2>8. QED
    BY <1>1, <1>2, <1>3, <2>6, <2>7, BusyStep
<1>9. CASE CheckConnected(d)
  <2> DEFINE new == IF Connected(a, d) = {} THEN [l EXCEPT !.at = "offline", !.status = "offline"] ELSE Nobody
  <2>1. line'[d] = new /\ UNCHANGED <<users, presence>> /\ l.at = "closed"
    BY <1>1, <1>9 DEF CheckConnected, InPhase, AccountTypes, AccountShape
  <2>2. ASSUME Connected(a, d) = {}
        PROVE  new.account = a /\ new.at = "offline" /\ new.status = "offline" /\ new \in LineRecord
    BY <1>1, <2>2 DEF LineRecord, Phase, Shows
  <2>3. ASSUME a \notin jumbled PROVE OtherLines(d, a) <=> Connected(a, d) # {}
    <3>1. \A e \in Device \ {d} : LineOf(e, a) => line[e].at = "open"
      BY <1>1, <2>1, <2>3, OthersOpen DEF Unsettled, LineOf
    <3>2. QED
      BY <3>1 DEF OtherLines, Connected, Registered
  <2>4. ASSUME a \notin jumbled, AtWork(d, a)
        PROVE  /\ Unsettled(d, a)' => AtWork(d, a)'
               /\ ~Unsettled(d, a)' => IF OtherLines(d, a) \/ LineOf(d, a)' THEN Here(a)' ELSE Away(a)'
    <3>1. CASE Connected(a, d) = {}
      BY <1>1, <1>4, <2>1, <2>2, <2>3, <2>4, <3>1 DEF Unsettled, LineOf, AtWork
    <3>2. CASE Connected(a, d) # {}
      <4>1. Here(a)' /\ OtherLines(d, a) /\ ~Unsettled(d, a)'
        BY <2>1, <2>3, <2>4, <3>2 DEF AtWork, Here, ShownHere, StatusHere, Shown, Unsettled, LineOf
      <4>2. QED
        BY <4>1
    <3>3. QED
      BY <3>1, <3>2
  <2>5. /\ line'[d] # Nobody => line'[d].account = a
        /\ users'[a] # Nobody /\ \A b \in Account \ {a} : users'[b] = users[b] /\ presence'[b] = presence[b]
    BY <1>1, <2>1, <2>2
  <2>6. QED
    BY <1>1, <1>2, <1>3, <2>4, <2>5, BusyStep
<1>10. CASE SetOffline(d)
  <2> DEFINE new == [l EXCEPT !.at = "offPreference"]
  <2>1. line'[d] = new /\ UNCHANGED users /\ l.at = "offline"
        /\ presence'[a] = "offline" /\ \A b \in Account \ {a} : presence'[b] = presence[b]
    BY <1>1, <1>10 DEF SetOffline, InPhase, AccountTypes, AccountShape
  <2>2. new.account = a /\ new.status = l.status /\ new.at = "offPreference" /\ new \in LineRecord
    BY <1>1 DEF LineRecord, Phase
  <2>3. Unsettled(d, a)' /\ (AtWork(d, a) => AtWork(d, a)')
    BY <1>1, <1>4, <2>1, <2>2 DEF AtWork, Unsettled, LineOf
  <2>4. /\ line'[d] # Nobody => line'[d].account = a
        /\ users'[a] # Nobody /\ \A b \in Account \ {a} : users'[b] = users[b] /\ presence'[b] = presence[b]
    BY <1>1, <2>1, <2>2
  <2>5. QED
    BY <1>1, <1>2, <1>3, <2>3, <2>4, BusyStep
<1>11. CASE ReadOffPreference(d)
  <2> DEFINE new == IF u.preference = "auto" THEN [l EXCEPT !.at = "offRead"] ELSE Nobody
  <2>1. line'[d] = new /\ UNCHANGED <<users, presence>> /\ l.at = "offPreference"
    BY <1>1, <1>11 DEF ReadOffPreference, InPhase, AccountTypes, AccountShape
  <2>2. ASSUME u.preference = "auto"
        PROVE  new.account = a /\ new.at = "offRead" /\ new.status = l.status /\ new \in LineRecord
    BY <1>1, <2>2 DEF LineRecord, Phase
  <2>3. ASSUME AtWork(d, a)
        PROVE  /\ Unsettled(d, a)' => AtWork(d, a)'
               /\ ~Unsettled(d, a)' => IF OtherLines(d, a) \/ LineOf(d, a)' THEN Here(a)' ELSE Away(a)'
    <3>1. ~OtherLines(d, a) /\ presence[a] = "offline" /\ l.status = "offline"
      BY <2>1, <2>3 DEF AtWork
    <3>2. CASE u.preference = "auto"
      BY <1>1, <1>4, <2>1, <2>2, <3>1, <3>2 DEF Unsettled, LineOf, AtWork
    <3>3. CASE u.preference # "auto"
      <4>1. Away(a)' /\ ~LineOf(d, a)'
        BY <2>1, <3>1, <3>3 DEF Away, LineOf
      <4>2. QED
        BY <3>1, <4>1 DEF Unsettled
    <3>4. QED
      BY <3>2, <3>3
  <2>4. /\ line'[d] # Nobody => line'[d].account = a
        /\ users'[a] # Nobody /\ \A b \in Account \ {a} : users'[b] = users[b] /\ presence'[b] = presence[b]
    BY <1>1, <2>1, <2>2
  <2>5. QED
    BY <1>1, <1>2, <1>3, <2>3, <2>4, BusyStep
<1>12. QED
  BY <1>5, <1>6, <1>7, <1>8, <1>9, <1>10, <1>11
\* A connection opens, answers a ping or closes.
LEMMA PresenceOpen ==
  ASSUME AccountTypes, PresenceInv, NEW d \in Device, Open(d) \/ Ping(d) \/ Close(d)
  PROVE  PresenceInv'
<1> USE DEF accountStore, accountBounds, accountHistory
<1>1. CASE Open(d)
  <2> PICK a : a = sessions[token[d]]
    OBVIOUS
  <2> DEFINE new == [account |-> a, at |-> "preference", status |-> "online", auto |-> TRUE, held |-> Nobody]
  <2>1. a \in Account /\ Known(a) /\ line[d] = Nobody
    BY <1>1 DEF Open, Valid, AccountTypes, AccountShape, SessionsKnown, Known
  <2>2. line' = [line EXCEPT ![d] = new] /\ jumbled' = Mixed(a, d, TRUE) /\ UNCHANGED <<users, presence, jobs>>
    BY <1>1 DEF Open
  <2>3. line'[d] = new /\ \A e \in Device \ {d} : line'[e] = line[e]
    BY <2>2 DEF AccountTypes, AccountShape
  <2>4. line'[d].account = a /\ line'[d].at = "preference"
    BY <2>3
  <2>0. line'[d] # Nobody
    <3>1. new \in LineRecord
      BY <2>1 DEF LineRecord, Phase, Shows
    <3>2. QED
      BY <2>3, <3>1
  <2>5. ASSUME a \notin jumbled' PROVE Settled(a)'
    <3>1. Alone(a, d)
      BY <2>2, <2>5 DEF Mixed
    <3>2. AtWork(d, a)'
      BY <2>4 DEF AtWork
    <3>3. LineOf(d, a)' => Unsettled(d, a)'
      BY <2>4 DEF LineOf, Unsettled
    <3>4. /\ \A e \in Device \ {d} : line'[e] = line[e] /\ (LineOf(e, a) => line[e].at = "open")
          /\ \A j \in Slot : ~About0(j, a)'
      BY <2>2, <2>3, <3>1 DEF Alone, About0
    <3>5. LineOf(d, a)'
      BY <2>0, <2>4 DEF LineOf
    <3>6. QED
      BY <2>1, <3>2, <3>3, <3>4, <3>5, LineSettles
  <2>6. jumbled \ {a} \subseteq jumbled' /\ jumbled' \subseteq jumbled \cup {a}
    BY <2>2 DEF Mixed
  <2>7. QED
    BY <2>1, <2>2, <2>3, <2>4, <2>5, <2>6, LineStepSettles DEF Known
<1>2. CASE Ping(d)
  <2> PICK a : a = line[d].account
    OBVIOUS
  <2> DEFINE u == users[a]
  <2>1. line[d] # Nobody /\ line[d].at = "open" /\ a \in Account /\ Known(a) /\ u # Nobody
    BY <1>2 DEF Ping, InPhase, AccountTypes, LineOK, Known
  <2>2. /\ presence[a] # "online" /\ UNCHANGED <<users, jobs, line>>
        /\ presence'[a] = "online" /\ \A b \in Account \ {a} : presence'[b] = presence[b]
        /\ jumbled' = IF u.preference = "auto" THEN jumbled ELSE jumbled \cup {a}
    BY <1>2, <2>1 DEF Ping, AccountTypes, AccountShape
  <2>3. ASSUME a \notin jumbled' PROVE Settled(a)'
    <3>1. Settled(a) /\ u.preference = "auto"
      BY <2>1, <2>2, <2>3 DEF PresenceInv
    <3>2. LineOf(d, a) /\ ~Unsettled(d, a)
      BY <2>1 DEF LineOf, Unsettled
    <3>3. ~ShownHere(a)
      BY <2>2, <3>1 DEF ShownHere, Shown
    <3>4. PICK e \in Device : Unsettled(e, a)
      BY <3>1, <3>2, <3>3 DEF Settled, Here
    <3>5. /\ \A f \in Device \ {e} : LineOf(f, a) => line[f].at = "open"
          /\ \A j \in Slot : About0(j, a) => jobs[j].call = "login"
          /\ AtWork(e, a)
      BY <2>1, <2>2, <2>3, <3>4, OthersOpen
    <3>6. OtherLines(e, a)
      BY <3>2, <3>4 DEF OtherLines
    <3>7. line[e].at \notin {"read", "status", "closed", "offline", "offPreference", "offRead", "offStatus"}
      BY <3>3, <3>5, <3>6 DEF AtWork, Here
    <3>8. AtWork(e, a)'
      BY <2>2, <3>5, <3>7 DEF AtWork
    <3>9. Unsettled(e, a)'
      BY <2>2, <3>4 DEF Unsettled, LineOf
    <3>10. QED
      BY <2>1, <2>2, <3>4, <3>5, <3>8, <3>9, LineSettles DEF About0
  <2>4. jumbled \ {a} \subseteq jumbled' /\ jumbled' \subseteq jumbled \cup {a}
    BY <2>2
  <2>5. QED
    BY <2>1, <2>2, <2>3, <2>4, LineStepSettles
<1>3. CASE Close(d)
  <2> DEFINE l == line[d]
  <2> PICK a : a = l.account
    OBVIOUS
  <2> DEFINE new == [l EXCEPT !.at = "closed"]
  <2>1. l # Nobody /\ l.at = "open" /\ a \in Account /\ Known(a) /\ users[a] # Nobody /\ l \in LineRecord
    BY <1>3 DEF Close, InPhase, AccountTypes, AccountShape, LineOK, Known
  <2>2. line' = [line EXCEPT ![d] = new] /\ jumbled' = Mixed(a, d, Connected(a, d) = {})
        /\ UNCHANGED <<users, presence, jobs>>
    BY <1>3 DEF Close
  <2>3. line'[d] = new /\ \A e \in Device \ {d} : line'[e] = line[e]
    BY <2>2 DEF AccountTypes, AccountShape
  <2>4. line'[d].account = a /\ line'[d].at = "closed" /\ line'[d] # Nobody
    BY <2>1, <2>3 DEF LineRecord, Phase
  <2>5. ASSUME a \notin jumbled' PROVE Settled(a)'
    <3>1. Alone(a, d)
      BY <2>2, <2>5 DEF Mixed
    <3>2. \A e \in Device \ {d} : LineOf(e, a) => line[e].at = "open"
      BY <3>1 DEF Alone
    <3>3. OtherLines(d, a) <=> Connected(a, d) # {}
      BY <3>2 DEF OtherLines, Connected, Registered
    <3>4. ASSUME OtherLines(d, a) PROVE Here(a)
      <4>1. a \notin jumbled
        BY <2>2, <2>5, <3>1, <3>3, <3>4 DEF Mixed
      <4>2. \A e \in Device : ~Unsettled(e, a)
        BY <2>1, <3>2 DEF Unsettled
      <4>3. LineOf(d, a)
        BY <2>1 DEF LineOf
      <4>4. QED
        BY <2>1, <4>1, <4>2, <4>3 DEF PresenceInv, Settled
    <3>5. OtherLines(d, a)' <=> OtherLines(d, a)
      BY <2>3 DEF OtherLines, LineOf
    <3>6. AtWork(d, a)'
      BY <2>2, <2>4, <3>4, <3>5 DEF AtWork, Here, ShownHere, StatusHere, Shown
    <3>7. Unsettled(d, a)'
      BY <2>4 DEF LineOf, Unsettled
    <3>8. QED
      BY <2>1, <2>2, <2>3, <3>1, <3>2, <3>6, <3>7, LineSettles DEF Alone, About0
  <2>6. jumbled \ {a} \subseteq jumbled' /\ jumbled' \subseteq jumbled \cup {a}
    BY <2>2 DEF Mixed
  <2>7. QED
    BY <2>1, <2>2, <2>3, <2>4, <2>5, <2>6, LineStepSettles DEF Known
<1>4. QED
  BY <1>1, <1>2, <1>3

-----------------------------------------------------------------------------
\* A step that leaves connections alone, and every user about whom there is no call but
\* logins.
LEMMA CallSettles ==
  ASSUME AccountTypes, PresenceInv, UNCHANGED line,
         jumbled \subseteq jumbled', \A a \in jumbled' \ jumbled : users[a] # Nobody,
         \A a \in Account : users[a] # Nobody => users'[a] # Nobody,
         \A a \in Account : users[a] = Nobody => presence'[a] = presence[a],
         \A a \in Account : users[a] # Nobody /\ a \notin jumbled' =>
           /\ \A j \in Slot : About0(j, a)' => jobs'[j].call = "login"
           /\ (\A j \in Slot : About0(j, a) => jobs[j].call = "login") =>
                users'[a] = users[a] /\ presence'[a] = presence[a],
         \A a \in Account : users[a] = Nobody /\ users'[a] # Nobody =>
           /\ users'[a].status = "offline"
           /\ \A j \in Slot : ~About0(j, a)'
  PROVE  PresenceInv'
<1>1. ASSUME NEW a \in Account, users'[a] = Nobody PROVE presence'[a] = Nobody /\ a \notin jumbled'
  BY <1>1 DEF PresenceInv
<1>2. ASSUME NEW a \in Account \ jumbled', users'[a] # Nobody PROVE Settled(a)'
  <2>1. CASE users[a] # Nobody
    <3>1. Settled(a)
      BY <1>2, <2>1 DEF PresenceInv
    <3>2. users'[a] = users[a] /\ presence'[a] = presence[a]
      BY <1>2, <2>1, <3>1 DEF Settled
    <3>3. QED
      BY <1>2, <2>1, <3>1, <3>2, SettledKept
  <2>2. CASE users[a] = Nobody
    <3>1. presence'[a] = Nobody /\ \A d \in Device : ~LineOf(d, a)'
      BY <2>2 DEF PresenceInv, LineOf, AccountTypes, LineOK, Known
    <3>2. QED
      BY <1>2, <2>2, <3>1 DEF Settled, Away, Unsettled
  <2>3. QED
    BY <2>1, <2>2
<1>3. QED
  BY <1>1, <1>2 DEF PresenceInv

LEMMA PresenceCalls ==
  ASSUME AccountTypes, PresenceInv, AccountsCall
  PROVE  PresenceInv'
<1> USE DEF accountStore, accountBounds, accountHistory
<1> PICK j \in Slot, d \in Device :
      \/ CallLogout(d, j) \/ CallDelete(d, j)
      \/ \E n \in Name : CallRegister(d, j, n) \/ CallLogin(d, j, n) \/ CallRename(d, j, n)
      \/ \E p \in {"auto", "dnd"} : CallPrefer(d, j, p)
  BY DEF AccountsCall
<1>0. \A a \in Account : users[a] # Nobody /\ a \notin jumbled =>
        \A k \in Slot : About0(k, a) => jobs[k].call = "login"
  BY DEF PresenceInv, Settled
<1>1. ASSUME NEW call \in {"register", "login", "logout", "delete", "rename", "prefer"},
             NEW a \in Account \cup {Nobody}, NEW n \in Name \cup {Nobody, "auto", "dnd"},
             NEW at \in {"names", "find", "leave", "clear", "get"},
             Hire(j, NewCall(d, call, a, n, at)), UNCHANGED <<users, presence, line>>,
             a # Nobody => Known(a) /\ jumbled' = jumbled \cup {a},
             a = Nobody => jumbled' = jumbled
      PROVE  PresenceInv'
  <2>1. token[d] \in Token \cup {Nobody} /\ at \in Stage
    BY DEF AccountTypes, AccountShape, Stage
  <2>2. /\ \A k \in Slot \ {j} : jobs'[k] = jobs[k]
        /\ jobs'[j] = NewCall(d, call, a, n, at)
    <3>1. Hire(j, NewCall(d, call, a, n, at))
      BY <1>1
    <3>2. QED
      BY <2>1, <3>1, HireType
  <2>3. jobs'[j].account = a
    BY <2>2 DEF NewCall
  <2>4. ASSUME NEW b \in Account, users[b] # Nobody, b \notin jumbled', NEW k \in Slot, About0(k, b)'
        PROVE  jobs'[k].call = "login"
    <3>1. k # j /\ b \notin jumbled
      BY <1>1, <2>3, <2>4 DEF About0
    <3>2. About0(k, b) /\ jobs'[k] = jobs[k]
      BY <2>2, <2>4, <3>1 DEF About0
    <3>3. QED
      BY <1>0, <2>4, <3>1, <3>2
  <2>5. QED
    BY <1>1, <2>4, CallSettles DEF Known
<1>2. ASSUME NEW n \in Name, CallRegister(d, j, n) \/ CallLogin(d, j, n) PROVE PresenceInv'
  BY <1>1, <1>2 DEF CallRegister, CallLogin
<1>3. ASSUME NEW call \in {"logout", "delete", "rename", "prefer"}, NEW n \in Name \cup {Nobody, "auto", "dnd"},
             NEW at \in {"leave", "clear", "get"}, Authorized(d, j, call, n, at)
      PROVE  PresenceInv'
  <2>1. UNCHANGED <<users, presence, line>> /\ token[d] \in Token
    BY <1>3 DEF Authorized, AccountTypes, AccountShape
  <2>2. CASE Valid(token[d])
    <3> DEFINE a == sessions[token[d]]
    <3>1. a \in Account /\ Known(a) /\ Hire(j, NewCall(d, call, a, n, at)) /\ jumbled' = jumbled \cup {a}
      BY <1>3, <2>1, <2>2 DEF Authorized, Valid, AccountTypes, AccountShape, SessionsKnown, Known
    <3>2. QED
      BY <1>1, <2>1, <3>1
  <2>3. CASE ~Valid(token[d])
    <3>1. UNCHANGED <<jobs, jumbled>>
      BY <1>3, <2>3 DEF Authorized
    <3>2. QED
      BY <1>0, <2>1, <3>1, CallSettles DEF About0
  <2>4. QED
    BY <2>2, <2>3
<1>4. CASE CallLogout(d, j) \/ CallDelete(d, j)
  BY <1>3, <1>4 DEF CallLogout, CallDelete
<1>5. ASSUME NEW n \in Name, CallRename(d, j, n) PROVE PresenceInv'
  BY <1>3, <1>5 DEF CallRename
<1>6. ASSUME NEW p \in {"auto", "dnd"}, CallPrefer(d, j, p) PROVE PresenceInv'
  BY <1>3, <1>6 DEF CallPrefer
<1>7. QED
  BY <1>2, <1>4, <1>5, <1>6
LEMMA AboutKnown ==
  ASSUME AccountTypes, NEW a \in Account, NEW j \in Slot, About0(j, a)
  PROVE  users[a] # Nobody
<1>1. JobOK(j) /\ jobs[j] # Nobody /\ jobs[j].account = a /\ a # Nobody
  BY DEF AccountTypes, About0
<1>2. QED
  BY <1>1 DEF JobOK, Known

LEMMA CallGoesOn ==
  ASSUME AccountTypes, PresenceInv, UNCHANGED <<line, jumbled>>, NEW j \in Slot, jobs[j] # Nobody, NEW a,
         a = jobs[j].account,
         \A b \in Account \ {a} : users'[b] = users[b] /\ presence'[b] = presence[b],
         \/ UNCHANGED <<users, presence>>
         \/ Known(a) /\ jobs[j].call # "login" /\ users'[a] # Nobody,
         \A k \in Slot \ {j} : jobs'[k] = jobs[k],
         \/ jobs'[j] = Nobody
         \/ jobs'[j].call = jobs[j].call /\ (jobs[j].call = "login" \/ jobs'[j].account = jobs[j].account)
  PROVE  PresenceInv'
<1>1. ASSUME NEW b \in Account, users[b] # Nobody, b \notin jumbled PROVE \A k \in Slot : About0(k, b) => jobs[k].call = "login"
  BY <1>1 DEF PresenceInv, Settled
<1>2. ASSUME NEW b \in Account, users[b] # Nobody, b \notin jumbled', NEW k \in Slot, About0(k, b)'
      PROVE  jobs'[k].call = "login"
  <2>1. CASE k = j
    BY <1>1, <1>2, <2>1 DEF About0
  <2>2. CASE k # j
    BY <1>1, <1>2, <2>2 DEF About0
  <2>3. QED
    BY <2>1, <2>2
<1>3. ASSUME NEW b \in Account, \A k \in Slot : About0(k, b) => jobs[k].call = "login"
      PROVE  users'[b] = users[b] /\ presence'[b] = presence[b]
  BY <1>3 DEF About0
<1>4. \A b \in Account : users[b] # Nobody => users'[b] # Nobody
  OBVIOUS
<1>5. \A b \in Account : users[b] = Nobody => presence'[b] = presence[b] /\ users'[b] = Nobody
  BY DEF Known
<1>6. QED
  BY <1>2, <1>3, <1>4, <1>5, CallSettles

LEMMA PresenceWork ==
  ASSUME AccountTypes, PresenceInv, NEW j \in Slot,
         \/ CheckNames(j) \/ CreateUser(j) \/ Authenticate(j) \/ Remember(j) \/ Save(j)
         \/ Leave(j) \/ ClearPresence(j) \/ GetUser(j) \/ Anonymize(j) \/ Forget(j)
         \/ EraseSaved(j) \/ ShowPreference(j) \/ UpdateUser(j) \/ Answer(j)
  PROVE  PresenceInv'
<1> DEFINE job == jobs[j]
<1> USE DEF accountStore, accountBounds, accountHistory
<1> PICK a : a = job.account
  OBVIOUS
<1>1. job \in JobRecord /\ JobOK(j) /\ job # Nobody
  BY DEF AccountTypes, AccountShape, CheckNames, CreateUser, Authenticate, Remember, Save, Leave,
         ClearPresence, GetUser, Anonymize, Forget, EraseSaved, ShowPreference, UpdateUser, Answer, Step
<1>2. UNCHANGED <<line, jumbled>>
  BY DEF CheckNames, CreateUser, Authenticate, Remember, Save, Leave,
         ClearPresence, GetUser, Anonymize, Forget, EraseSaved, ShowPreference, UpdateUser, Answer
<1>3. ASSUME NEW new \in JobRecord, jobs' = [jobs EXCEPT ![j] = new], new.call = job.call,
             job.call = "login" \/ new.account = job.account, UNCHANGED <<users, presence>>
      PROVE  PresenceInv'
  <2>1. jobs'[j] = new /\ \A k \in Slot \ {j} : jobs'[k] = jobs[k]
    BY <1>3, JobType
  <2>2. QED
    BY <1>1, <1>2, <1>3, <2>1, CallGoesOn
<1>4. ASSUME NEW at \in Stage, NextAt(j, at),
             \A b \in Account \ {a} : users'[b] = users[b] /\ presence'[b] = presence[b],
             \/ UNCHANGED <<users, presence>>
             \/ Known(a) /\ job.call # "login" /\ users'[a] # Nobody
      PROVE  PresenceInv'
  BY <1>1, <1>2, <1>4, Moves, CallGoesOn
<1>5. ASSUME Over(j),
             \A b \in Account \ {a} : users'[b] = users[b] /\ presence'[b] = presence[b],
             \/ UNCHANGED <<users, presence>>
             \/ Known(a) /\ job.call # "login" /\ users'[a] # Nobody
      PROVE  PresenceInv'
  BY <1>1, <1>2, <1>5, CallEnds, CallGoesOn
<1>6. CASE CheckNames(j)
  <2>1. UNCHANGED <<users, presence>> /\ \/ Over(j) \/ NextAt(j, "create") \/ NextAt(j, "put")
    BY <1>6 DEF CheckNames
  <2>2. QED
    BY <1>4, <1>5, <2>1 DEF Stage
<1>7. CASE CreateUser(j)
  <2>1. PICK b \in Account : users[b] = Nobody /\ users' = [users EXCEPT ![b] = User0(job.name)]
    BY <1>7 DEF CreateUser, IsLeast
  <2>2. User0(job.name) \in UserRecord /\ User0(job.name).status = "offline"
    BY <1>1, <1>7 DEF CreateUser, Step, JobOK, User0, UserRecord, Shows
  <2>3. users'[b] = User0(job.name) /\ \A c \in Account \ {b} : users'[c] = users[c]
    BY <2>1 DEF AccountTypes, AccountShape
  <2>4. jobs'[j] = Nobody /\ (\A k \in Slot \ {j} : jobs'[k] = jobs[k]) /\ UNCHANGED presence
    BY <1>7, CallEnds DEF CreateUser
  <2>5. \A k \in Slot : About0(k, b)' => About0(k, b)
    BY <2>4 DEF About0
  <2>6. \A k \in Slot : ~About0(k, b)
    BY <2>1, AboutKnown
  <2>7. ASSUME NEW c \in Account, users[c] # Nobody, c \notin jumbled', NEW k \in Slot, About0(k, c)'
        PROVE  jobs'[k].call = "login"
    BY <1>2, <2>4, <2>7 DEF About0, PresenceInv, Settled
  <2>8. \A c \in Account : users[c] # Nobody => users'[c] = users[c]
    BY <2>1, <2>3
  <2>9. \A c \in Account : users[c] = Nobody /\ users'[c] # Nobody => c = b
    BY <2>3
  <2>10. users'[b].status = "offline" /\ \A k \in Slot : ~About0(k, b)'
    BY <2>2, <2>3, <2>5, <2>6
  <2>11. \A c \in Account : presence'[c] = presence[c]
    BY <2>4
  <2>12. QED
    BY <1>2, <2>7, <2>8, <2>9, <2>10, <2>11, CallSettles
<1>8. CASE Authenticate(j)
  <2>1. CASE Over(j)
    BY <1>5, <1>8, <2>1 DEF Authenticate
  <2>2. ASSUME NEW b \in Account, jobs' = [jobs EXCEPT ![j] = [@ EXCEPT !.account = b, !.at = "remember"]]
        PROVE  PresenceInv'
    <3>1. [job EXCEPT !.account = b, !.at = "remember"] \in JobRecord
          /\ [job EXCEPT !.account = b, !.at = "remember"].call = job.call
      BY <1>1 DEF JobRecord, Stage
    <3>2. job.call = "login"
      BY <1>1, <1>8 DEF Authenticate, Step, JobOK
    <3>3. QED
      BY <1>3, <1>8, <2>2, <3>1, <3>2 DEF Authenticate
  <2>3. QED
    BY <1>8, <2>1, <2>2 DEF Authenticate
<1>9. CASE Remember(j)
  <2>1. issued' \in Token
    BY <1>9 DEF Remember, AccountTypes, AccountShape, Token
  <2>2. /\ [job EXCEPT !.token = issued', !.at = "save"] \in JobRecord
        /\ [job EXCEPT !.token = issued', !.at = "save"].call = job.call
        /\ [job EXCEPT !.token = issued', !.at = "save"].account = job.account
    BY <1>1, <2>1 DEF JobRecord, Stage
  <2>3. QED
    BY <1>3, <1>9, <2>2 DEF Remember
<1>10. CASE GetUser(j)
  <2>1. PICK at \in {"anonymize", "names", "show"} :
          jobs' = [jobs EXCEPT ![j] = [@ EXCEPT !.held = users[job.account], !.at = at]]
    BY <1>1, <1>10 DEF GetUser, Step, JobOK
  <2>2. users[job.account] \in UserRecord
    BY <1>1, <1>10 DEF GetUser, Step, JobOK, Known, AccountTypes, AccountShape
  <2>3. /\ [job EXCEPT !.held = users[job.account], !.at = at] \in JobRecord
        /\ [job EXCEPT !.held = users[job.account], !.at = at].call = job.call
        /\ [job EXCEPT !.held = users[job.account], !.at = at].account = job.account
    BY <1>1, <2>2 DEF JobRecord, Stage
  <2>4. QED
    BY <1>3, <1>10, <2>1, <2>3 DEF GetUser
<1>11. CASE Save(j) \/ Forget(j) \/ EraseSaved(j)
  <2>1. PICK at \in {"answer", "erase"} : NextAt(j, at)
    BY <1>11 DEF Save, Forget, EraseSaved
  <2>2. at \in Stage /\ UNCHANGED <<users, presence>>
    BY <1>11 DEF Save, Forget, EraseSaved, Stage
  <2>3. QED
    BY <1>4, <2>1, <2>2
<1>12. CASE Leave(j) \/ ClearPresence(j) \/ ShowPreference(j)
  <2>1. PICK at \in {"forget", "get", "put"} : NextAt(j, at)
    BY <1>12 DEF Leave, ClearPresence, ShowPreference
  <2>2. Known(a) /\ job.call # "login"
    BY <1>1, <1>12 DEF Leave, ClearPresence, ShowPreference, Step, JobOK
  <2>3. at \in Stage /\ UNCHANGED users /\ \A b \in Account \ {a} : presence'[b] = presence[b]
    BY <1>12 DEF Leave, ClearPresence, ShowPreference, Stage, AccountTypes, AccountShape
  <2>4. QED
    BY <1>4, <2>1, <2>2, <2>3 DEF Known
<1>13. CASE Anonymize(j)
  <2> DEFINE new == [job.held EXCEPT !.name = DeletedName, !.password = FALSE, !.status = "deleted"]
  <2>1. Known(a) /\ job.held \in UserRecord /\ job.call # "login"
    BY <1>1, <1>13 DEF Anonymize, Step, JobOK, JobRecord
  <2>2. new \in UserRecord
    BY <2>1 DEF UserRecord
  <2>3. /\ PutUser(a, job.held, new) /\ NextAt(j, "forget") /\ "forget" \in Stage
        /\ UNCHANGED presence
    BY <1>13 DEF Anonymize, Stage
  <2>4. users'[a] # Nobody /\ \A b \in Account \ {a} : users'[b] = users[b]
    BY <2>1, <2>2, <2>3, PutType
  <2>5. QED
    BY <1>4, <2>1, <2>3, <2>4
<1>14. CASE UpdateUser(j)
  <2> DEFINE new == IF job.call = "rename" THEN [job.held EXCEPT !.name = job.name]
                    ELSE [job.held EXCEPT !.preference = job.name, !.status = Shown(job.name)]
  <2>1. /\ job.at = "put" /\ Known(a) /\ job.held # Nobody
        /\ \/ job.call = "rename" /\ job.name \in Name
           \/ job.call = "prefer" /\ job.name \in {"auto", "dnd"}
    BY <1>1, <1>14 DEF UpdateUser, Step, JobOK
  <2>2. job.held \in UserRecord
    BY <1>1, <2>1 DEF JobRecord
  <2>3. new \in UserRecord
    BY <2>1, <2>2 DEF UserRecord, Shown, Shows
  <2>4. PutUser(a, job.held, new) /\ Over(j) /\ UNCHANGED presence
    BY <1>14 DEF UpdateUser
  <2>5. users'[a] # Nobody /\ \A b \in Account \ {a} : users'[b] = users[b]
    BY <2>1, <2>3, <2>4, PutType
  <2>6. QED
    BY <1>5, <2>1, <2>4, <2>5
<1>15. CASE Answer(j)
  BY <1>5, <1>15 DEF Answer
<1>16. QED
  BY <1>6, <1>7, <1>8, <1>9, <1>10, <1>11, <1>12, <1>13, <1>14, <1>15

LEMMA PresenceOther ==
  ASSUME AccountTypes, PresenceInv,
         (\E t \in Token : Expire(t)) \/ SweepExpired \/ Restart \/ UNCHANGED accountVars
  PROVE  PresenceInv'
<1> USE DEF accountStore, accountBounds, accountHistory, accountVars
<1>1. CASE Restart
  <2>1. /\ UNCHANGED <<users, presence>> /\ line' = [d \in Device |-> Nobody] /\ jobs' = [j \in Slot |-> Nobody]
        /\ jumbled' = jumbled \cup {a \in Account : (\E d \in Device : LineOf(d, a))
                                                  \/ (\E j \in Slot : About0(j, a))}
    BY <1>1 DEF Restart
  <2>2. ASSUME NEW a \in Account \ jumbled', users[a] # Nobody PROVE Settled(a)'
    <3>1. Settled(a) /\ \A d \in Device : ~LineOf(d, a)
      BY <2>1, <2>2 DEF PresenceInv
    <3>2. Away(a)
      BY <3>1 DEF Settled, Unsettled
    <3>3. QED
      BY <2>1, <3>2 DEF Settled, Away, About0, LineOf, Unsettled
  <2>3. \A a \in Account : users[a] = Nobody => a \notin jumbled'
    BY <2>1, AboutKnown DEF PresenceInv, LineOf, AccountTypes, LineOK, Known
  <2>4. QED
    BY <2>1, <2>2, <2>3 DEF PresenceInv
<1>2. CASE ~Restart
  <2>1. UNCHANGED <<users, presence, line, jobs, jumbled>>
    BY <1>2 DEF Expire, SweepExpired
  <2>2. ASSUME NEW a \in Account \ jumbled, users[a] # Nobody PROVE Settled(a)'
    <3>1. Settled(a)
      BY <2>2 DEF PresenceInv
    <3>2. \A j \in Slot : About0(j, a)' => jobs'[j].call = "login"
      BY <2>1, <3>1 DEF Settled, About0
    <3>3. QED
      BY <2>1, <3>1, <3>2, SettledKept
  <2>3. QED
    BY <2>1, <2>2 DEF PresenceInv
<1>3. QED
  BY <1>1, <1>2

LEMMA PresenceStep ==
  ASSUME AccountTypes, PresenceInv, AccountsStep
  PROVE  PresenceInv'
<1>1. CASE \E j \in Slot :
       \/ CheckNames(j) \/ CreateUser(j) \/ Authenticate(j) \/ Remember(j) \/ Save(j)
       \/ Leave(j) \/ ClearPresence(j) \/ GetUser(j) \/ Anonymize(j) \/ Forget(j)
       \/ EraseSaved(j) \/ ShowPreference(j) \/ UpdateUser(j) \/ Answer(j)
  BY <1>1, PresenceWork
<1>2. CASE \E d \in Device :
       \/ Open(d) \/ ReadPreference(d) \/ SetPresence(d) \/ ReadUser(d) \/ WriteStatus(d)
       \/ Ping(d) \/ Close(d) \/ CheckConnected(d) \/ SetOffline(d) \/ ReadOffPreference(d)
  BY <1>2, PresenceBusy, PresenceOpen
<1>3. QED
  BY <1>1, <1>2, PresenceCalls, PresenceOther DEF AccountsStep, AccountsWork

LEMMA PresenceInit == AccountsInit => PresenceInv
<1> SUFFICES ASSUME AccountsInit PROVE PresenceInv
  OBVIOUS
<1>1. /\ presence = [a \in Account |-> Nobody] /\ line = [d \in Device |-> Nobody]
      /\ jobs = [j \in Slot |-> Nobody] /\ jumbled = {}
  BY DEF AccountsInit
<1>2. \A a \in Account : users[a] # Nobody => users[a].status = "offline"
  BY DEF AccountsInit, User0
<1>3. QED
  BY <1>1, <1>2 DEF PresenceInv, Settled, Away, Unsettled, LineOf, About0

\* A user whose connections and calls do not overlap is shown as he prefers while he is
\* connected and offline when he is not, of any number of users and devices.
THEOREM PresenceCorrect == ServerSpec => []PresenceIsTrue
<1>1. ServerInit => AccountTypes /\ PresenceInv
  BY ServerAccounts, AccountTypesInit, PresenceInit
<1>2. AccountTypes /\ PresenceInv /\ [ServerNext]_serverVars => (AccountTypes /\ PresenceInv)'
  BY ServerAccounts, AccountTypesStep, PresenceStep
<1>3. AccountTypes /\ PresenceInv => PresenceIsTrue
  BY PresenceHolds
<1>4. QED
  BY <1>1, <1>2, <1>3, PTL DEF ServerSpec

-----------------------------------------------------------------------------
(* Friends *)

\* What the call of u about v has left to write is about the two.
WriteOf(u, v) == [record : {"rel", "inbox"}, key : {<<u, v>>, <<v, u>>}, type : Type]

CallOK(u) == calls[u] # None => calls[u].to \in Others(u) /\ calls[u].todo \in Seq(WriteOf(u, calls[u].to))

FriendShape ==
  /\ rel \in [Pair -> Type] /\ inbox \subseteq Pair /\ barred \subseteq Pair
  /\ calls \in [User -> CallRecord \cup {None}]
  /\ \A u \in User : CallOK(u)

\* What the two records and the two inboxes of a and b hold.
Stands(a, b, mine, theirs, iAsk, iAmAsked) ==
  /\ rel[<<a, b>>] = mine /\ rel[<<b, a>>] = theirs
  /\ <<b, a>> \in inbox <=> iAsk
  /\ <<a, b>> \in inbox <=> iAmAsked

\* A call that reads finds the two in order.
Reading(a, b) ==
  LET call == calls[a] IN
    /\ InOrder({a, b})
    /\ \/ call.at = "blocked" /\ call.action = "request"
       \/ call.at = "mine" /\ call.action = "request" /\ rel[<<b, a>>] # "blocked"
       \/ call.at = "mine" /\ call.action = "unblock"
       \/ call.at = "theirs" /\ call.action = "request" /\ rel[<<a, b>>] = "none" /\ rel[<<b, a>>] # "blocked"
       \/ call.at = "pending" /\ call.action \in {"request", "accept"}

\* One that writes has left what it takes to bring them in order.
Asks(a, b, todo) ==
  \/ todo = Writes("request", a, b) /\ Stands(a, b, "none", "none", FALSE, FALSE)
  \/ todo = <<InInbox(b, a)>> /\ Stands(a, b, "requested", "none", FALSE, FALSE)

Accepts(a, b, todo) ==
  \/ todo = Writes("accept", a, b) /\ Stands(a, b, "none", "requested", FALSE, TRUE)
  \/ todo = <<Rel(a, b, "friend"), OffInbox(a, b)>> /\ Stands(a, b, "none", "friend", FALSE, TRUE)
  \/ todo = <<OffInbox(a, b)>> /\ Stands(a, b, "friend", "friend", FALSE, TRUE)

Declines(a, b, todo) ==
  \/ todo = Writes("decline", a, b) /\ Stands(a, b, "none", "requested", FALSE, TRUE)
  \/ todo = <<OffInbox(a, b)>> /\ Stands(a, b, "none", "none", FALSE, TRUE)

Cancels(a, b, todo) ==
  \/ todo = Writes("cancel", a, b) /\ Stands(a, b, "requested", "none", TRUE, FALSE)
  \/ todo = <<OffInbox(b, a)>> /\ Stands(a, b, "none", "none", TRUE, FALSE)

Removes(a, b, todo) ==
  \/ todo = Writes("remove", a, b) /\ Stands(a, b, "friend", "friend", FALSE, FALSE)
  \/ todo = <<Rel(b, a, "none")>> /\ Stands(a, b, "none", "friend", FALSE, FALSE)

Blocks(a, b, todo) ==
  /\ rel[<<a, b>>] # "blocked"
  /\ \/ todo = Writes("block", a, b) /\ InOrder({a, b})
     \/ /\ todo = <<OffInbox(a, b), OffInbox(b, a), Rel(a, b, "blocked")>>
        /\ rel[<<b, a>>] = "none"
     \/ /\ todo = <<OffInbox(b, a), Rel(a, b, "blocked")>>
        /\ rel[<<b, a>>] = "none" /\ <<a, b>> \notin inbox
     \/ /\ todo = <<Rel(a, b, "blocked")>>
        /\ rel[<<b, a>>] = "none" /\ <<a, b>> \notin inbox /\ <<b, a>> \notin inbox

Unblocks(a, b, todo) ==
  todo = Writes("unblock", a, b) /\ Stands(a, b, "blocked", "none", FALSE, FALSE)

Writing(a, b) ==
  LET do == calls[a].action  todo == calls[a].todo IN
    \/ do = "request" /\ Asks(a, b, todo)
    \/ do \in {"request", "accept"} /\ Accepts(a, b, todo)
    \/ do = "decline" /\ Declines(a, b, todo)
    \/ do = "cancel" /\ Cancels(a, b, todo)
    \/ do = "remove" /\ Removes(a, b, todo)
    \/ do = "block" /\ Blocks(a, b, todo)
    \/ do = "unblock" /\ Unblocks(a, b, todo)
    \/ todo = <<>> /\ InOrder({a, b}) /\ (do = "block" => rel[<<a, b>>] = "blocked")

AtCall(a, b) == IF calls[a].at = "writing" THEN Writing(a, b) ELSE Reading(a, b)

\* Of two about whom no calls overlapped: one call at most is about them.
Clean(a, b) ==
  /\ Rests({a, b}) => InOrder({a, b})
  /\ About(a, b) => ~About(b, a) /\ AtCall(a, b)

BarInv ==
  \A p \in barred :
    /\ {p[1], p[2]} \notin blemished /\ rel[p] = "blocked"
    /\ About(p[1], p[2]) => calls[p[1]].action # "unblock"
    /\ About(p[2], p[1]) => calls[p[2]].action # "block"

FriendInv ==
  /\ \A a \in User : \A b \in Others(a) : {a, b} \in blemished \/ Clean(a, b)
  /\ BarInv

USE CallAssumption

LEMMA Tails ==
  ASSUME NEW a, NEW b, NEW c, NEW d
  PROVE  /\ Head(<<a>>) = a /\ Tail(<<a>>) = <<>>
         /\ Head(<<a, b>>) = a /\ Tail(<<a, b>>) = <<b>>
         /\ Head(<<a, b, c>>) = a /\ Tail(<<a, b, c>>) = <<b, c>>
         /\ Head(<<a, b, c, d>>) = a /\ Tail(<<a, b, c, d>>) = <<b, c, d>>
         /\ <<a>> # <<>> /\ <<a, b>> # <<>> /\ <<a, b, c>> # <<>> /\ <<a, b, c, d>> # <<>>
  OBVIOUS

LEMMA HeadTail ==
  ASSUME NEW S, NEW s \in Seq(S), s # <<>>
  PROVE  Head(s) \in S /\ Tail(s) \in Seq(S)
  OBVIOUS

LEMMA SeqWiden ==
  ASSUME NEW S, NEW T, S \subseteq T, NEW s \in Seq(S)
  PROVE  s \in Seq(T)
<1>1. Len(s) \in Nat /\ s = [i \in 1 .. Len(s) |-> s[i]] /\ \A i \in 1 .. Len(s) : s[i] \in T
  OBVIOUS
<1>2. QED
  BY <1>1

LEMMA PairOrder ==
  ASSUME NEW a, NEW b, a # b
  PROVE  /\ InOrder({a, b}) <=> Agree(a, b) /\ Agree(b, a)
         /\ Rests({a, b}) <=> ~About(a, b) /\ ~About(b, a)
  BY DEF InOrder, Rests

LEMMA FriendsHold == FriendShape /\ FriendInv => RelationshipsHold
<1> SUFFICES ASSUME FriendInv PROVE FriendsAgree /\ BlocksStand
  BY DEF RelationshipsHold
<1>1. BlocksStand
  BY DEF FriendInv, BarInv, BlocksStand
<1>2. ASSUME NEW u \in User, NEW v \in Others(u), Rests({u, v}), {u, v} \notin blemished
      PROVE  Agree(u, v)
  BY <1>2, PairOrder DEF FriendInv, Clean, Others
<1>3. QED
  BY <1>1, <1>2 DEF FriendsAgree

LEMMA FriendInit == FriendsInit => FriendShape /\ FriendInv
<1> SUFFICES ASSUME FriendsInit PROVE FriendShape /\ FriendInv
  OBVIOUS
<1>1. FriendShape
  BY DEF FriendsInit, FriendShape, CallOK, Type
<1>2. ASSUME NEW a \in User, NEW b \in Others(a) PROVE Clean(a, b)
  <2>1. <<a, b>> \in Pair /\ <<b, a>> \in Pair
    BY DEF Others, Pair
  <2>2. Agree(a, b) /\ Agree(b, a) /\ ~About(a, b)
    BY <2>1 DEF Agree, About, FriendsInit
  <2>3. QED
    BY <2>2, PairOrder DEF Clean, Others
<1>3. QED
  BY <1>1, <1>2 DEF FriendInv, BarInv, FriendsInit
\* The call of u makes its next write.
LEMMA Written ==
  ASSUME FriendShape, NEW u \in User, Write(u)
  PROVE  /\ FriendShape' /\ UNCHANGED <<blemished, barred>>
         /\ About(u, calls[u].to) /\ calls[u].at = "writing"
         /\ \A v \in User \ {u} : calls'[v] = calls[v]
         /\ calls'[u] # None /\ calls'[u].todo = Tail(calls[u].todo) /\ calls'[u].at = "writing"
         /\ calls'[u].to = calls[u].to /\ calls'[u].action = calls[u].action
         /\ LET w == Head(calls[u].todo) IN
              /\ w \in WriteOf(u, calls[u].to)
              /\ w.record = "rel" => UNCHANGED inbox /\ rel' = [rel EXCEPT ![w.key] = w.type]
              /\ w.record # "rel" =>
                   /\ UNCHANGED rel
                   /\ inbox' = IF w.type = "none" THEN inbox \ {w.key} ELSE inbox \cup {w.key}
<1> DEFINE c == calls[u]
           w == Head(c.todo)
           new == [c EXCEPT !.at = "writing", !.todo = Tail(c.todo)]
<1>1. c # None /\ c \in CallRecord /\ c.at = "writing" /\ c.todo # <<>> /\ c.to \in Others(u)
      /\ c.todo \in Seq(WriteOf(u, c.to))
  BY DEF Write, At, FriendShape, CallOK
<1>2. w \in WriteOf(u, c.to) /\ Tail(c.todo) \in Seq(WriteOf(u, c.to))
  BY <1>1, HeadTail
<1>3. WriteOf(u, c.to) \subseteq Write0
  BY <1>1 DEF WriteOf, Write0, Pair, Others
<1>4. Tail(c.todo) \in Seq(Write0)
  <2> DEFINE S == WriteOf(u, c.to)  s == Tail(c.todo)
  <2>1. S \subseteq Write0 /\ s \in Seq(S)
    BY <1>2, <1>3
  <2> HIDE DEF S, s
  <2>2. s \in Seq(Write0)
    BY <2>1, SeqWiden
  <2>3. QED
    BY <2>2 DEF s
<1>5. /\ new \in CallRecord /\ new.todo = Tail(c.todo) /\ new.at = "writing" /\ new.to = c.to
      /\ new.action = c.action
  BY <1>1, <1>4 DEF CallRecord
<1>6. calls' = [calls EXCEPT ![u] = new] /\ UNCHANGED <<blemished, barred>>
  BY DEF Write, Goes
<1>7. calls'[u] = new /\ \A v \in User \ {u} : calls'[v] = calls[v]
  BY <1>6 DEF FriendShape
<1>8. calls' \in [User -> CallRecord \cup {None}]
  BY <1>5, <1>6 DEF FriendShape
<1>9. \A v \in User : CallOK(v)'
  BY <1>1, <1>2, <1>5, <1>7 DEF CallOK, FriendShape
<1>10. w.key \in Pair /\ w.type \in Type
  BY <1>1, <1>2 DEF WriteOf, Pair, Others
<1>11. CASE w.record = "rel"
  <2>1. UNCHANGED inbox /\ rel' = [rel EXCEPT ![w.key] = w.type]
    BY <1>11 DEF Write
  <2>2. rel' \in [Pair -> Type]
    BY <1>10, <2>1 DEF FriendShape
  <2>3. FriendShape'
    BY <1>6, <1>8, <1>9, <2>1, <2>2 DEF FriendShape
  <2>4. QED
    BY <1>1, <1>2, <1>5, <1>6, <1>7, <1>11, <2>1, <2>3 DEF About
<1>12. CASE w.record # "rel"
  <2>1. UNCHANGED rel /\ inbox' = IF w.type = "none" THEN inbox \ {w.key} ELSE inbox \cup {w.key}
    BY <1>12 DEF Write
  <2>2. inbox' \subseteq Pair
    BY <1>10, <2>1 DEF FriendShape
  <2>3. FriendShape'
    BY <1>6, <1>8, <1>9, <2>1, <2>2 DEF FriendShape
  <2>4. QED
    BY <1>1, <1>2, <1>5, <1>6, <1>7, <1>12, <2>1, <2>3 DEF About
<1>13. QED
  BY <1>11, <1>12
\* Two whose records and calls about each other stay as they are.
LEMMA CleanKept ==
  ASSUME NEW a \in User, NEW b \in Others(a), Clean(a, b),
         rel'[<<a, b>>] = rel[<<a, b>>], rel'[<<b, a>>] = rel[<<b, a>>],
         <<a, b>> \in inbox' <=> <<a, b>> \in inbox, <<b, a>> \in inbox' <=> <<b, a>> \in inbox,
         calls'[a] = calls[a] \/ (~About(a, b) /\ ~About(a, b)'),
         calls'[b] = calls[b] \/ (~About(b, a) /\ ~About(b, a)')
  PROVE  Clean(a, b)'
<1>1. a # b
  BY DEF Others
<1>2. (Agree(a, b) <=> Agree(a, b)') /\ (Agree(b, a) <=> Agree(b, a)')
  BY DEF Agree
<1>3. (About(a, b) <=> About(a, b)') /\ (About(b, a) <=> About(b, a)')
  BY DEF About
<1>4. (InOrder({a, b}) <=> InOrder({a, b})') /\ (Rests({a, b}) <=> Rests({a, b})')
  BY <1>1, <1>2, <1>3 DEF InOrder, Rests
<1>5. ASSUME About(a, b), calls'[a] = calls[a] PROVE AtCall(a, b)'
  <2>1. CASE calls[a].at # "writing"
    <3>1. Reading(a, b)
      BY <1>5, <2>1 DEF Clean, AtCall
    <3>2. Reading(a, b)'
      BY <1>4, <1>5, <3>1 DEF Reading
    <3>3. QED
      BY <1>5, <2>1, <3>2 DEF AtCall
  <2>2. CASE calls[a].at = "writing"
    <3>1. Writing(a, b)
      BY <1>5, <2>2 DEF Clean, AtCall
    <3>2. Writing(a, b)'
      BY <1>4, <1>5, <3>1 DEF Writing, Asks, Accepts, Declines, Cancels, Removes, Blocks, Unblocks, Stands
    <3>3. QED
      BY <1>5, <2>2, <3>2 DEF AtCall
  <2>3. QED
    BY <2>1, <2>2
<1>6. QED
  BY <1>3, <1>4, <1>5 DEF Clean
LEMMA WriteRel ==
  ASSUME FriendShape, NEW u \in User, Write(u), NEW a, NEW b, NEW type, Head(calls[u].todo) = Rel(a, b, type),
         <<a, b>> \in Pair
  PROVE  UNCHANGED inbox /\ rel'[<<a, b>>] = type /\ \A p \in Pair \ {<<a, b>>} : rel'[p] = rel[p]
<1>1. UNCHANGED inbox /\ rel' = [rel EXCEPT ![<<a, b>>] = type]
  BY Written DEF Rel
<1>2. QED
  BY <1>1 DEF FriendShape

LEMMA WriteOn ==
  ASSUME FriendShape, NEW u \in User, Write(u), NEW a, NEW b, Head(calls[u].todo) = InInbox(a, b)
  PROVE  UNCHANGED rel /\ inbox' = inbox \cup {<<a, b>>}
  BY Written DEF InInbox

LEMMA WriteOff ==
  ASSUME FriendShape, NEW u \in User, Write(u), NEW a, NEW b, Head(calls[u].todo) = OffInbox(a, b)
  PROVE  UNCHANGED rel /\ inbox' = inbox \ {<<a, b>>}
  BY Written DEF OffInbox

\* Each write brings a call on to the next it has left.
LEMMA WriteGoesOn ==
  ASSUME FriendShape, NEW u \in User, NEW v \in Others(u), Write(u), calls[u].to = v, Writing(u, v)
  PROVE  Writing(u, v)'
<1> DEFINE todo == calls[u].todo  do == calls[u].action
<1>1. u # v /\ <<u, v>> \in Pair /\ <<v, u>> \in Pair /\ <<u, v>> # <<v, u>>
  BY DEF Others, Pair
<1>2. calls'[u].todo = Tail(todo) /\ calls'[u].action = do
  BY Written
<1>3. todo # <<>>
  BY DEF Write, At
<1>4. CASE do = "request" /\ Asks(u, v, todo)
  <2>1. CASE todo = Writes("request", u, v) /\ Stands(u, v, "none", "none", FALSE, FALSE)
    <3>1. Head(todo) = Rel(u, v, "requested") /\ Tail(todo) = <<InInbox(v, u)>>
      BY <2>1, Tails DEF Writes
    <3>2. Stands(u, v, "requested", "none", FALSE, FALSE)'
      BY <1>1, <2>1, <3>1, WriteRel DEF Stands
    <3>3. QED
      BY <1>2, <1>4, <3>1, <3>2 DEF Writing, Asks
  <2>2. CASE todo = <<InInbox(v, u)>> /\ Stands(u, v, "requested", "none", FALSE, FALSE)
    <3>1. Head(todo) = InInbox(v, u) /\ Tail(todo) = <<>>
      BY <2>2, Tails
    <3>2. Stands(u, v, "requested", "none", TRUE, FALSE)'
      BY <1>1, <2>2, <3>1, WriteOn DEF Stands
    <3>3. InOrder({u, v})'
      BY <1>1, <3>2, PairOrder DEF Agree, InOrder, Stands
    <3>4. QED
      BY <1>2, <1>4, <3>1, <3>3 DEF Writing
  <2>3. QED
    BY <1>4, <2>1, <2>2 DEF Asks
<1>5. CASE do \in {"request", "accept"} /\ Accepts(u, v, todo)
  <2>1. CASE todo = Writes("accept", u, v) /\ Stands(u, v, "none", "requested", FALSE, TRUE)
    <3>1. Head(todo) = Rel(v, u, "friend") /\ Tail(todo) = <<Rel(u, v, "friend"), OffInbox(u, v)>>
      BY <2>1, Tails DEF Writes
    <3>2. Stands(u, v, "none", "friend", FALSE, TRUE)'
      BY <1>1, <2>1, <3>1, WriteRel DEF Stands
    <3>3. QED
      BY <1>2, <1>5, <3>1, <3>2 DEF Writing, Accepts
  <2>2. CASE todo = <<Rel(u, v, "friend"), OffInbox(u, v)>> /\ Stands(u, v, "none", "friend", FALSE, TRUE)
    <3>1. Head(todo) = Rel(u, v, "friend") /\ Tail(todo) = <<OffInbox(u, v)>>
      BY <2>2, Tails
    <3>2. Stands(u, v, "friend", "friend", FALSE, TRUE)'
      BY <1>1, <2>2, <3>1, WriteRel DEF Stands
    <3>3. QED
      BY <1>2, <1>5, <3>1, <3>2 DEF Writing, Accepts
  <2>3. CASE todo = <<OffInbox(u, v)>> /\ Stands(u, v, "friend", "friend", FALSE, TRUE)
    <3>1. Head(todo) = OffInbox(u, v) /\ Tail(todo) = <<>>
      BY <2>3, Tails
    <3>2. Stands(u, v, "friend", "friend", FALSE, FALSE)'
      BY <1>1, <2>3, <3>1, WriteOff DEF Stands
    <3>3. InOrder({u, v})'
      BY <1>1, <3>2, PairOrder DEF Agree, InOrder, Stands
    <3>4. QED
      BY <1>2, <1>5, <3>1, <3>3 DEF Writing
  <2>4. QED
    BY <1>5, <2>1, <2>2, <2>3 DEF Accepts
<1>6. CASE do = "decline" /\ Declines(u, v, todo)
  <2>1. CASE todo = Writes("decline", u, v) /\ Stands(u, v, "none", "requested", FALSE, TRUE)
    <3>1. Head(todo) = Rel(v, u, "none") /\ Tail(todo) = <<OffInbox(u, v)>>
      BY <2>1, Tails DEF Writes
    <3>2. Stands(u, v, "none", "none", FALSE, TRUE)'
      BY <1>1, <2>1, <3>1, WriteRel DEF Stands
    <3>3. QED
      BY <1>2, <1>6, <3>1, <3>2 DEF Writing, Declines
  <2>2. CASE todo = <<OffInbox(u, v)>> /\ Stands(u, v, "none", "none", FALSE, TRUE)
    <3>1. Head(todo) = OffInbox(u, v) /\ Tail(todo) = <<>>
      BY <2>2, Tails
    <3>2. Stands(u, v, "none", "none", FALSE, FALSE)'
      BY <1>1, <2>2, <3>1, WriteOff DEF Stands
    <3>3. InOrder({u, v})'
      BY <1>1, <3>2, PairOrder DEF Agree, InOrder, Stands
    <3>4. QED
      BY <1>2, <1>6, <3>1, <3>3 DEF Writing
  <2>3. QED
    BY <1>6, <2>1, <2>2 DEF Declines
<1>7. CASE do = "cancel" /\ Cancels(u, v, todo)
  <2>1. CASE todo = Writes("cancel", u, v) /\ Stands(u, v, "requested", "none", TRUE, FALSE)
    <3>1. Head(todo) = Rel(u, v, "none") /\ Tail(todo) = <<OffInbox(v, u)>>
      BY <2>1, Tails DEF Writes
    <3>2. Stands(u, v, "none", "none", TRUE, FALSE)'
      BY <1>1, <2>1, <3>1, WriteRel DEF Stands
    <3>3. QED
      BY <1>2, <1>7, <3>1, <3>2 DEF Writing, Cancels
  <2>2. CASE todo = <<OffInbox(v, u)>> /\ Stands(u, v, "none", "none", TRUE, FALSE)
    <3>1. Head(todo) = OffInbox(v, u) /\ Tail(todo) = <<>>
      BY <2>2, Tails
    <3>2. Stands(u, v, "none", "none", FALSE, FALSE)'
      BY <1>1, <2>2, <3>1, WriteOff DEF Stands
    <3>3. InOrder({u, v})'
      BY <1>1, <3>2, PairOrder DEF Agree, InOrder, Stands
    <3>4. QED
      BY <1>2, <1>7, <3>1, <3>3 DEF Writing
  <2>3. QED
    BY <1>7, <2>1, <2>2 DEF Cancels
<1>8. CASE do = "remove" /\ Removes(u, v, todo)
  <2>1. CASE todo = Writes("remove", u, v) /\ Stands(u, v, "friend", "friend", FALSE, FALSE)
    <3>1. Head(todo) = Rel(u, v, "none") /\ Tail(todo) = <<Rel(v, u, "none")>>
      BY <2>1, Tails DEF Writes
    <3>2. Stands(u, v, "none", "friend", FALSE, FALSE)'
      BY <1>1, <2>1, <3>1, WriteRel DEF Stands
    <3>3. QED
      BY <1>2, <1>8, <3>1, <3>2 DEF Writing, Removes
  <2>2. CASE todo = <<Rel(v, u, "none")>> /\ Stands(u, v, "none", "friend", FALSE, FALSE)
    <3>1. Head(todo) = Rel(v, u, "none") /\ Tail(todo) = <<>>
      BY <2>2, Tails
    <3>2. Stands(u, v, "none", "none", FALSE, FALSE)'
      BY <1>1, <2>2, <3>1, WriteRel DEF Stands
    <3>3. InOrder({u, v})'
      BY <1>1, <3>2, PairOrder DEF Agree, InOrder, Stands
    <3>4. QED
      BY <1>2, <1>8, <3>1, <3>3 DEF Writing
  <2>3. QED
    BY <1>8, <2>1, <2>2 DEF Removes
<1>9. CASE do = "block" /\ Blocks(u, v, todo)
  <2>1. CASE todo = Writes("block", u, v) /\ InOrder({u, v})
    <3>1. /\ Head(todo) = Rel(v, u, "none")
          /\ Tail(todo) = <<OffInbox(u, v), OffInbox(v, u), Rel(u, v, "blocked")>>
      BY <2>1, Tails DEF Writes
    <3>2. rel'[<<v, u>>] = "none" /\ rel'[<<u, v>>] # "blocked"
      BY <1>1, <1>9, <3>1, WriteRel DEF Blocks
    <3>3. QED
      BY <1>2, <1>9, <3>1, <3>2 DEF Writing, Blocks
  <2>2. CASE /\ todo = <<OffInbox(u, v), OffInbox(v, u), Rel(u, v, "blocked")>>
             /\ rel[<<v, u>>] = "none"
    <3>1. Head(todo) = OffInbox(u, v) /\ Tail(todo) = <<OffInbox(v, u), Rel(u, v, "blocked")>>
      BY <2>2, Tails
    <3>2. rel'[<<v, u>>] = "none" /\ rel'[<<u, v>>] # "blocked" /\ <<u, v>> \notin inbox'
      BY <1>9, <2>2, <3>1, WriteOff DEF Blocks
    <3>3. QED
      BY <1>2, <1>9, <3>1, <3>2 DEF Writing, Blocks
  <2>3. CASE /\ todo = <<OffInbox(v, u), Rel(u, v, "blocked")>>
             /\ rel[<<v, u>>] = "none" /\ <<u, v>> \notin inbox
    <3>1. Head(todo) = OffInbox(v, u) /\ Tail(todo) = <<Rel(u, v, "blocked")>>
      BY <2>3, Tails
    <3>2. /\ rel'[<<v, u>>] = "none" /\ rel'[<<u, v>>] # "blocked"
          /\ <<u, v>> \notin inbox' /\ <<v, u>> \notin inbox'
      BY <1>9, <2>3, <3>1, WriteOff DEF Blocks
    <3>3. QED
      BY <1>2, <1>9, <3>1, <3>2 DEF Writing, Blocks
  <2>4. CASE /\ todo = <<Rel(u, v, "blocked")>>
             /\ rel[<<v, u>>] = "none" /\ <<u, v>> \notin inbox /\ <<v, u>> \notin inbox
    <3>1. Head(todo) = Rel(u, v, "blocked") /\ Tail(todo) = <<>>
      BY <2>4, Tails
    <3>2. Stands(u, v, "blocked", "none", FALSE, FALSE)'
      BY <1>1, <2>4, <3>1, WriteRel DEF Stands
    <3>3. InOrder({u, v})' /\ rel'[<<u, v>>] = "blocked"
      BY <1>1, <3>2, PairOrder DEF Agree, InOrder, Stands
    <3>4. QED
      BY <1>2, <3>1, <3>3 DEF Writing
  <2>5. QED
    BY <1>9, <2>1, <2>2, <2>3, <2>4 DEF Blocks
<1>10. CASE do = "unblock" /\ Unblocks(u, v, todo)
  <2>1. Head(todo) = Rel(u, v, "none") /\ Tail(todo) = <<>>
    BY <1>10, Tails DEF Unblocks, Writes
  <2>2. Stands(u, v, "none", "none", FALSE, FALSE)'
    BY <1>1, <1>10, <2>1, WriteRel DEF Stands, Unblocks
  <2>3. InOrder({u, v})'
    BY <1>1, <2>2, PairOrder DEF Agree, InOrder, Stands
  <2>4. QED
    BY <1>2, <1>10, <2>1, <2>3 DEF Writing
<1>11. QED
  BY <1>3, <1>4, <1>5, <1>6, <1>7, <1>8, <1>9, <1>10 DEF Writing
\* A call takes no block away but its own, with "unblock", or the other's, with "block".
LEMMA WriteKeepsBlock ==
  ASSUME FriendShape, NEW u \in User, NEW v \in Others(u), Write(u), calls[u].to = v, Writing(u, v),
         NEW p \in {<<u, v>>, <<v, u>>}, rel[p] = "blocked",
         p = <<u, v>> => calls[u].action # "unblock", p = <<v, u>> => calls[u].action # "block"
  PROVE  rel'[p] = "blocked"
<1> DEFINE todo == calls[u].todo  do == calls[u].action
           w == Head(todo)
<1>1. u # v /\ <<u, v>> \in Pair /\ <<v, u>> \in Pair /\ <<u, v>> # <<v, u>> /\ todo # <<>>
  BY DEF Others, Pair, Write, At
<1>2. ASSUME w.record = "rel", w.key = p PROVE w.type = "blocked"
  <2>1. CASE Asks(u, v, todo)
    BY <1>1, <1>2, <2>1, Tails DEF Asks, Writes, Stands, Rel, InInbox, OffInbox
  <2>2. CASE Accepts(u, v, todo)
    BY <1>1, <1>2, <2>2, Tails DEF Accepts, Writes, Stands, Rel, InInbox, OffInbox
  <2>3. CASE Declines(u, v, todo)
    BY <1>1, <1>2, <2>3, Tails DEF Declines, Writes, Stands, Rel, InInbox, OffInbox
  <2>4. CASE Cancels(u, v, todo)
    BY <1>1, <1>2, <2>4, Tails DEF Cancels, Writes, Stands, Rel, InInbox, OffInbox
  <2>5. CASE Removes(u, v, todo)
    BY <1>1, <1>2, <2>5, Tails DEF Removes, Writes, Stands, Rel, InInbox, OffInbox
  <2>6. CASE do = "block" /\ Blocks(u, v, todo)
    BY <1>1, <1>2, <2>6, Tails DEF Blocks, Writes, Rel, InInbox, OffInbox
  <2>7. CASE do = "unblock" /\ Unblocks(u, v, todo)
    BY <1>1, <1>2, <2>7, Tails DEF Unblocks, Writes, Stands, Rel, InInbox, OffInbox
  <2>8. QED
    BY <1>1, <2>1, <2>2, <2>3, <2>4, <2>5, <2>6, <2>7 DEF Writing
<1>3. CASE w.record = "rel"
  <2>1. rel' = [rel EXCEPT ![w.key] = w.type]
    BY <1>3, Written
  <2>2. QED
    BY <1>1, <1>2, <1>3, <2>1 DEF FriendShape
<1>4. CASE w.record # "rel"
  BY <1>4, Written
<1>5. QED
  BY <1>3, <1>4

LEMMA FriendWrite ==
  ASSUME FriendShape, FriendInv, NEW u \in User, Write(u)
  PROVE  FriendShape' /\ FriendInv'
<1> PICK v : v = calls[u].to
  OBVIOUS
<1>1. /\ FriendShape' /\ UNCHANGED <<blemished, barred>>
      /\ About(u, v) /\ About(u, v)' /\ calls[u].at = "writing" /\ calls'[u].at = "writing"
      /\ calls'[u].action = calls[u].action
      /\ \A a \in User \ {u} : calls'[a] = calls[a]
  BY Written DEF About
<1>2. v \in Others(u) /\ u \in Others(v) /\ u # v
  BY <1>1 DEF FriendShape, CallOK, About, Others
<1>3. \A p \in Pair \ {<<u, v>>, <<v, u>>} : rel'[p] = rel[p] /\ (p \in inbox' <=> p \in inbox)
  <2> DEFINE w == Head(calls[u].todo)
  <2>1. w.key \in {<<u, v>>, <<v, u>>} /\ w.type \in Type
    BY Written DEF WriteOf
  <2>2. CASE w.record = "rel"
    <3>1. UNCHANGED inbox /\ rel' = [rel EXCEPT ![w.key] = w.type]
      BY <2>2, Written
    <3>2. QED
      BY <2>1, <3>1 DEF FriendShape
  <2>3. CASE w.record # "rel"
    <3>1. UNCHANGED rel /\ inbox' = IF w.type = "none" THEN inbox \ {w.key} ELSE inbox \cup {w.key}
      BY <2>3, Written
    <3>2. QED
      BY <2>1, <3>1
  <2>4. QED
    BY <2>2, <2>3
<1>4. ASSUME {u, v} \notin blemished
      PROVE  ~About(v, u) /\ Writing(u, v)
  BY <1>1, <1>2, <1>4 DEF FriendInv, Clean, AtCall
<1>5. ASSUME NEW a \in User, NEW b \in Others(a), {a, b} \notin blemished
      PROVE  Clean(a, b)'
  <2>0. Clean(a, b) /\ a # b
    BY <1>5 DEF FriendInv, Others
  <2>1. CASE a = u /\ b = v
    <3>1. ~About(v, u)' /\ Writing(u, v)'
      BY <1>1, <1>2, <1>4, <1>5, <2>1, WriteGoesOn DEF About, Others
    <3>2. QED
      BY <1>1, <1>2, <2>1, <3>1, PairOrder DEF Clean, AtCall, Rests
  <2>2. CASE a = v /\ b = u
    <3>1. {u, v} \notin blemished
      BY <1>5, <2>2
    <3>2. ~About(v, u)'
      BY <1>1, <1>2, <1>4, <3>1 DEF About, Others
    <3>3. ~Rests({a, b})'
      BY <1>1, <1>2, <2>2 DEF Rests
    <3>4. QED
      BY <2>2, <3>2, <3>3 DEF Clean
  <2>3. CASE {a, b} # {u, v}
    <3>1. <<a, b>> \in Pair \ {<<u, v>>, <<v, u>>} /\ <<b, a>> \in Pair \ {<<u, v>>, <<v, u>>}
      BY <2>3 DEF Pair, Others
    <3>2. calls'[a] = calls[a] \/ (~About(a, b) /\ ~About(a, b)')
      BY <1>1, <2>3 DEF About, Others
    <3>3. calls'[b] = calls[b] \/ (~About(b, a) /\ ~About(b, a)')
      BY <1>1, <2>3 DEF About, Others
    <3>4. QED
      BY <1>3, <2>0, <3>1, <3>2, <3>3, CleanKept
  <2>4. QED
    BY <2>1, <2>2, <2>3
<1>6. ASSUME NEW p \in barred
      PROVE  /\ rel'[p] = "blocked"
             /\ About(p[1], p[2])' => calls'[p[1]].action # "unblock"
             /\ About(p[2], p[1])' => calls'[p[2]].action # "block"
  <2>1. /\ p \in Pair /\ {p[1], p[2]} \notin blemished /\ rel[p] = "blocked"
        /\ About(p[1], p[2]) => calls[p[1]].action # "unblock"
        /\ About(p[2], p[1]) => calls[p[2]].action # "block"
    BY <1>6 DEF FriendInv, BarInv, FriendShape
  <2>2. PICK a \in User, b \in User : p = <<a, b>> /\ a # b
    BY <2>1 DEF Pair
  <2>3. About(a, b)' => About(a, b) /\ calls'[a].action = calls[a].action
    BY <1>1, <2>2 DEF About
  <2>4. About(b, a)' => About(b, a) /\ calls'[b].action = calls[b].action
    BY <1>1, <2>2 DEF About
  <2>5. CASE p \notin {<<u, v>>, <<v, u>>}
    BY <1>3, <2>1, <2>2, <2>3, <2>4, <2>5
  <2>6. CASE p \in {<<u, v>>, <<v, u>>}
    <3>1. {u, v} \notin blemished
      BY <2>1, <2>6
    <3>2. /\ p = <<u, v>> => calls[u].action # "unblock"
          /\ p = <<v, u>> => calls[u].action # "block"
      BY <1>1, <2>1
    <3>3. rel'[p] = "blocked"
      <4>1. CASE p = <<u, v>>
        BY <1>2, <1>4, <2>1, <3>1, <3>2, <4>1, WriteKeepsBlock
      <4>2. CASE p = <<v, u>>
        BY <1>2, <1>4, <2>1, <3>1, <3>2, <4>2, WriteKeepsBlock
      <4>3. QED
        BY <2>6, <4>1, <4>2
    <3>4. QED
      BY <2>1, <2>2, <2>3, <2>4, <3>3
  <2>7. QED
    BY <2>5, <2>6
<1>7. BarInv'
  BY <1>1, <1>6 DEF BarInv, FriendInv
<1>8. QED
  BY <1>1, <1>5, <1>7 DEF FriendInv
LEMMA WritesType ==
  ASSUME NEW u \in User, NEW v \in Others(u), NEW action \in Action
  PROVE  Writes(action, u, v) \in Seq(WriteOf(u, v)) /\ <<>> \in Seq(WriteOf(u, v))
<1>1. /\ \A t \in Type : Rel(u, v, t) \in WriteOf(u, v) /\ Rel(v, u, t) \in WriteOf(u, v)
      /\ InInbox(u, v) \in WriteOf(u, v) /\ InInbox(v, u) \in WriteOf(u, v)
      /\ OffInbox(u, v) \in WriteOf(u, v) /\ OffInbox(v, u) \in WriteOf(u, v)
  BY DEF Rel, InInbox, OffInbox, WriteOf, Type
<1> DEFINE S == WriteOf(u, v)
<1>2. \A a, b, c, d \in S : <<a>> \in Seq(S) /\ <<a, b>> \in Seq(S) /\ <<a, b, c>> \in Seq(S)
                           /\ <<a, b, c, d>> \in Seq(S)
  OBVIOUS
<1>3. {"requested", "friend", "none", "blocked"} \subseteq Type
  BY DEF Type
<1>4. QED
  BY <1>1, <1>2, <1>3 DEF Writes, Action

\* A call of u goes on without a write.
LEMMA GoesKeeps ==
  ASSUME FriendShape, FriendInv, NEW u \in User, calls[u] # None, UNCHANGED <<rel, inbox>>,
         NEW at \in {"blocked", "mine", "theirs", "pending", "writing"},
         NEW todo \in Seq(WriteOf(u, calls[u].to)), Goes(u, at, todo),
         {u, calls[u].to} \notin blemished /\ AtCall(u, calls[u].to) => AtCall(u, calls[u].to)'
  PROVE  FriendShape' /\ FriendInv'
<1> PICK v : v = calls[u].to
  OBVIOUS
<1> DEFINE new == [calls[u] EXCEPT !.at = at, !.todo = todo]
<1>1. v \in Others(u) /\ u \in Others(v) /\ u # v /\ calls[u] \in CallRecord /\ v \in User
  BY DEF FriendShape, CallOK, Others
<1>2. todo \in Seq(Write0)
  <2> DEFINE S == WriteOf(u, v)
  <2>1. S \subseteq Write0 /\ todo \in Seq(S)
    BY <1>1 DEF WriteOf, Write0, Pair, Others
  <2> HIDE DEF S
  <2>2. QED
    BY <2>1, SeqWiden
<1>3. new \in CallRecord /\ new # None /\ new.to = v /\ new.todo = todo /\ new.action = calls[u].action
  BY <1>1, <1>2 DEF CallRecord
<1>4. calls' = [calls EXCEPT ![u] = new] /\ UNCHANGED <<blemished, barred>>
  BY DEF Goes
<1>5. calls'[u] = new /\ \A a \in User \ {u} : calls'[a] = calls[a]
  BY <1>4 DEF FriendShape
<1>6. FriendShape'
  <2>1. calls' \in [User -> CallRecord \cup {None}]
    BY <1>3, <1>4 DEF FriendShape
  <2>2. \A a \in User : CallOK(a)'
    BY <1>1, <1>3, <1>5 DEF CallOK, FriendShape
  <2>3. QED
    BY <1>4, <2>1, <2>2 DEF FriendShape
<1>7. \A a, b \in User : About(a, b)' <=> About(a, b)
  BY <1>3, <1>5 DEF About
<1>8. ASSUME NEW a \in User, NEW b \in Others(a), {a, b} \notin blemished
      PROVE  Clean(a, b)'
  <2>1. Clean(a, b) /\ b \in User /\ a # b
    BY <1>8 DEF FriendInv, Others
  <2>2. CASE a = u /\ b = v
    <3>1. About(u, v) /\ {u, v} \notin blemished
      BY <1>8, <2>2 DEF About
    <3>2. ~About(v, u) /\ AtCall(u, v)
      BY <2>1, <2>2, <3>1 DEF Clean
    <3>3. AtCall(u, v)'
      BY <1>3, <1>5, <3>1, <3>2
    <3>4. ~Rests({a, b})'
      BY <1>1, <1>7, <2>2, <3>1 DEF Rests
    <3>5. QED
      BY <1>1, <1>7, <2>2, <3>2, <3>3, <3>4 DEF Clean
  <2>3. CASE a = v /\ b = u
    <3>1. About(u, v) /\ ~About(v, u)
      BY <1>1, <1>8, <2>3 DEF FriendInv, Clean, About
    <3>2. ~Rests({a, b})'
      BY <1>1, <1>7, <2>3, <3>1 DEF Rests
    <3>3. QED
      BY <1>1, <1>7, <2>3, <3>1, <3>2 DEF Clean
  <2>4. CASE {a, b} # {u, v}
    <3>1. calls'[a] = calls[a] \/ (~About(a, b) /\ ~About(a, b)')
      BY <1>3, <1>5, <2>4 DEF About
    <3>2. calls'[b] = calls[b] \/ (~About(b, a) /\ ~About(b, a)')
      <4>1. CASE b # u
        BY <1>5, <2>1, <4>1
      <4>2. CASE b = u /\ a # v
        BY <1>3, <1>5, <4>2 DEF About
      <4>3. QED
        BY <2>4, <4>1, <4>2
    <3>3. QED
      BY <2>1, <3>1, <3>2, CleanKept
  <2>5. QED
    BY <2>2, <2>3, <2>4
<1>9. \A a \in User : calls[a] # None => calls'[a].action = calls[a].action
  BY <1>3, <1>5
<1>10. BarInv'
  <2>1. ASSUME NEW p \in barred
        PROVE  /\ {p[1], p[2]} \notin blemished /\ rel[p] = "blocked"
               /\ About(p[1], p[2])' => calls'[p[1]].action # "unblock"
               /\ About(p[2], p[1])' => calls'[p[2]].action # "block"
    <3>1. p[1] \in User /\ p[2] \in User
      BY <2>1 DEF FriendShape, Pair
    <3>2. /\ {p[1], p[2]} \notin blemished /\ rel[p] = "blocked"
          /\ About(p[1], p[2]) => calls[p[1]].action # "unblock"
          /\ About(p[2], p[1]) => calls[p[2]].action # "block"
      BY <2>1 DEF FriendInv, BarInv
    <3>3. /\ About(p[1], p[2])' => About(p[1], p[2]) /\ calls[p[1]] # None
          /\ About(p[2], p[1])' => About(p[2], p[1]) /\ calls[p[2]] # None
      BY <1>7, <3>1 DEF About
    <3>4. QED
      BY <1>9, <3>1, <3>2, <3>3
  <2>2. QED
    BY <1>4, <2>1 DEF BarInv
<1>11. QED
  BY <1>4, <1>6, <1>8, <1>10 DEF FriendInv

\* A call of u ends.
LEMMA EndsKeeps ==
  ASSUME FriendShape, FriendInv, NEW u \in User, calls[u] # None, UNCHANGED <<rel, inbox>>, Ends(u),
         {u, calls[u].to} \notin blemished /\ AtCall(u, calls[u].to) => InOrder({u, calls[u].to}),
         \/ UNCHANGED barred
         \/ /\ barred' = barred \cup {<<u, calls[u].to>>} /\ {u, calls[u].to} \notin blemished
            /\ rel[<<u, calls[u].to>>] = "blocked"
  PROVE  FriendShape' /\ FriendInv'
<1> PICK v : v = calls[u].to
  OBVIOUS
<1>1. v \in Others(u) /\ u \in Others(v) /\ u # v /\ v \in User /\ <<u, v>> \in Pair
  BY DEF FriendShape, CallOK, Others, Pair
<1>2. calls'[u] = None /\ (\A a \in User \ {u} : calls'[a] = calls[a])
      /\ calls' \in [User -> CallRecord \cup {None}]
  BY DEF Ends, FriendShape
<1>3. FriendShape'
  <2>1. \A a \in User : CallOK(a)'
    BY <1>2 DEF CallOK, FriendShape
  <2>2. barred' \subseteq Pair
    BY <1>1 DEF FriendShape
  <2>3. QED
    BY <1>2, <2>1, <2>2 DEF FriendShape
<1>4. /\ blemished' \subseteq blemished /\ (\A p \in blemished : p # {u, v} => p \in blemished')
      /\ {u, v} \in blemished /\ {u, v} \notin blemished' => ~About(v, u) /\ InOrder({u, v})
  BY DEF Ends
<1>5. \A a, b \in User : About(a, b)' <=> a # u /\ About(a, b)
  BY <1>2 DEF About
<1>6. ASSUME NEW a \in User, NEW b \in Others(a), {a, b} \notin blemished'
      PROVE  Clean(a, b)'
  <2>1. a # b /\ b \in User
    BY DEF Others
  <2>2. CASE {a, b} = {u, v}
    <3>1. ~About(v, u) /\ InOrder({u, v})
      <4>1. CASE {u, v} \in blemished
        BY <1>4, <1>6, <2>2, <4>1
      <4>2. CASE {u, v} \notin blemished
        BY <1>1, <4>2 DEF FriendInv, Clean, About
      <4>3. QED
        BY <4>1, <4>2
    <3>2. InOrder({a, b})'
      BY <1>1, <2>1, <2>2, <3>1 DEF InOrder, Agree
    <3>3. ~About(a, b)' /\ ~About(b, a)'
      BY <1>1, <1>5, <2>1, <2>2, <3>1
    <3>4. QED
      BY <3>2, <3>3 DEF Clean
  <2>3. CASE {a, b} # {u, v}
    <3>1. calls'[a] = calls[a] \/ (~About(a, b) /\ ~About(a, b)')
      BY <1>2, <2>3 DEF About
    <3>2. calls'[b] = calls[b] \/ (~About(b, a) /\ ~About(b, a)')
      BY <1>2, <2>1, <2>3 DEF About
    <3>3. Clean(a, b)
      BY <1>4, <1>6, <2>3 DEF FriendInv
    <3>4. QED
      BY <3>1, <3>2, <3>3, CleanKept
  <2>4. QED
    BY <2>2, <2>3
<1>7. ASSUME NEW p \in barred'
      PROVE  /\ {p[1], p[2]} \notin blemished' /\ rel[p] = "blocked"
             /\ About(p[1], p[2])' => calls'[p[1]].action # "unblock"
             /\ About(p[2], p[1])' => calls'[p[2]].action # "block"
  <2>1. p[1] \in User /\ p[2] \in User
    BY <1>3 DEF FriendShape, Pair
  <2>2. CASE p \in barred
    BY <1>2, <1>4, <1>5, <2>1, <2>2 DEF FriendInv, BarInv
  <2>3. CASE p \notin barred
    <3>1. p = <<u, v>> /\ {u, v} \notin blemished /\ rel[<<u, v>>] = "blocked"
      BY <2>3
    <3>2. ~About(v, u)
      BY <1>1, <3>1 DEF FriendInv, Clean, About
    <3>3. QED
      BY <1>4, <1>5, <2>1, <3>1, <3>2
  <2>4. QED
    BY <2>2, <2>3
<1>8. BarInv'
  BY <1>7 DEF BarInv
<1>9. QED
  BY <1>3, <1>6, <1>8 DEF FriendInv
LEMMA FriendChecks ==
  ASSUME FriendShape, FriendInv, NEW u \in User,
         CheckBlocked(u) \/ CheckMine(u) \/ CheckTheirs(u) \/ CheckPending(u)
  PROVE  FriendShape' /\ FriendInv'
<1> PICK v : v = calls[u].to
  OBVIOUS
<1> DEFINE do == calls[u].action
<1>1. /\ calls[u] # None /\ calls[u].at # "writing" /\ UNCHANGED <<rel, inbox>>
  BY DEF CheckBlocked, CheckMine, CheckTheirs, CheckPending, At, Check, store
<1>2. v \in Others(u) /\ u # v
  BY <1>1 DEF FriendShape, CallOK, Others
<1>3. (InOrder({u, v})' <=> InOrder({u, v})) /\ rel' = rel
  BY <1>1 DEF InOrder, Agree
<1>4. /\ {"request", "accept", "unblock"} \subseteq Action
      /\ \A action \in Action : Writes(action, u, v) \in Seq(WriteOf(u, v)) /\ <<>> \in Seq(WriteOf(u, v))
  BY <1>2, WritesType DEF Action
<1>5. ASSUME AtCall(u, v) PROVE Reading(u, v) /\ InOrder({u, v})
  BY <1>1, <1>5 DEF AtCall, Reading
<1>6. CASE Ends(u) /\ UNCHANGED barred
  BY <1>1, <1>5, <1>6, EndsKeeps
<1>7. ASSUME NEW at \in {"mine", "theirs", "pending"}, Goes(u, at, <<>>),
             Reading(u, v) => \/ at = "mine" /\ do = "request" /\ rel[<<v, u>>] # "blocked"
                              \/ /\ at = "theirs" /\ do = "request"
                                 /\ rel[<<u, v>>] = "none" /\ rel[<<v, u>>] # "blocked"
                              \/ at = "pending" /\ do \in {"request", "accept"}
      PROVE  FriendShape' /\ FriendInv'
  <2>1. calls'[u].at = at /\ calls'[u].action = do /\ calls'[u].to = v
    BY <1>1, <1>7 DEF Goes, FriendShape, CallRecord
  <2>2. ASSUME AtCall(u, v) PROVE AtCall(u, v)'
    <3>1. Reading(u, v) /\ InOrder({u, v}) /\ InOrder({u, v})'
      BY <1>3, <1>5, <2>2
    <3>2. Reading(u, v)' /\ at # "writing"
      BY <1>3, <1>7, <2>1, <3>1 DEF Reading
    <3>3. QED
      BY <2>1, <3>1, <3>2 DEF AtCall
  <2>3. PICK todo : todo = <<>>
    OBVIOUS
  <2>4. /\ todo \in Seq(WriteOf(u, calls[u].to)) /\ Goes(u, at, todo)
        /\ at \in {"blocked", "mine", "theirs", "pending", "writing"}
    BY <1>4, <1>7, <2>3
  <2>5. {u, calls[u].to} \notin blemished /\ AtCall(u, calls[u].to) => AtCall(u, calls[u].to)'
    BY <2>1, <2>2
  <2>6. QED
    BY <1>1, <2>4, <2>5, GoesKeeps
<1>8. ASSUME NEW action \in {"request", "accept", "unblock"}, Goes(u, "writing", Writes(action, u, v)),
             Reading(u, v) =>
               \/ action = "request" /\ do = "request" /\ Stands(u, v, "none", "none", FALSE, FALSE)
               \/ action = "accept" /\ do \in {"request", "accept"} /\ Stands(u, v, "none", "requested", FALSE, TRUE)
               \/ action = "unblock" /\ do = "unblock" /\ Stands(u, v, "blocked", "none", FALSE, FALSE)
      PROVE  FriendShape' /\ FriendInv'
  <2>1. /\ calls'[u].at = "writing" /\ calls'[u].action = do /\ calls'[u].to = v
        /\ calls'[u].todo = Writes(action, u, v)
    BY <1>1, <1>8 DEF Goes, FriendShape, CallRecord
  <2>2. ASSUME AtCall(u, v) PROVE AtCall(u, v)'
    <3>1. Reading(u, v)
      BY <1>5, <2>2
    <3>2. \/ do = "request" /\ Asks(u, v, Writes(action, u, v))'
          \/ do \in {"request", "accept"} /\ Accepts(u, v, Writes(action, u, v))'
          \/ do = "unblock" /\ Unblocks(u, v, Writes(action, u, v))'
      BY <1>1, <1>8, <3>1 DEF Asks, Accepts, Unblocks, Stands
    <3>3. QED
      BY <2>1, <3>2 DEF AtCall, Writing
  <2>3. QED
    BY <1>1, <1>4, <1>8, <2>1, <2>2, GoesKeeps
<1>9. CASE CheckBlocked(u)
  <2>1. \/ Ends(u) /\ UNCHANGED barred
        \/ Goes(u, "mine", <<>>) /\ rel[<<v, u>>] # "blocked"
    BY <1>9 DEF CheckBlocked, Check
  <2>2. Reading(u, v) => do = "request"
    BY <1>9 DEF CheckBlocked, At, Reading
  <2>3. QED
    BY <1>6, <1>7, <2>1, <2>2
<1>10. CASE CheckMine(u)
  <2>1. \/ Ends(u) /\ UNCHANGED barred
        \/ do = "unblock" /\ Goes(u, "writing", Writes("unblock", u, v)) /\ rel[<<u, v>>] = "blocked"
        \/ do # "unblock" /\ Goes(u, "theirs", <<>>) /\ rel[<<u, v>>] = "none"
    BY <1>10 DEF CheckMine, Check
  <2>2. Reading(u, v) => (do = "request" /\ rel[<<v, u>>] # "blocked") \/ do = "unblock"
    BY <1>10 DEF CheckMine, At, Reading
  <2>3. Reading(u, v) /\ rel[<<u, v>>] = "blocked" => Stands(u, v, "blocked", "none", FALSE, FALSE)
    BY <1>2, PairOrder DEF Reading, Agree, Stands
  <2>4. QED
    BY <1>6, <1>7, <1>8, <2>1, <2>2, <2>3
<1>11. CASE CheckTheirs(u)
  <2>1. \/ rel[<<v, u>>] = "requested" /\ Goes(u, "pending", <<>>)
        \/ rel[<<v, u>>] # "requested" /\ Goes(u, "writing", Writes("request", u, v))
    BY <1>11 DEF CheckTheirs, Check
  <2>2. Reading(u, v) => do = "request" /\ rel[<<u, v>>] = "none" /\ rel[<<v, u>>] # "blocked"
    BY <1>11 DEF CheckTheirs, At, Reading
  <2>3. Reading(u, v) /\ rel[<<v, u>>] # "requested" => Stands(u, v, "none", "none", FALSE, FALSE)
    <3>1. rel[<<v, u>>] \in Type
      BY <1>2 DEF FriendShape, Pair, Others
    <3>2. QED
      BY <1>2, <2>2, <3>1, PairOrder DEF Reading, Agree, Stands, Type
  <2>4. QED
    BY <1>7, <1>8, <2>1, <2>2, <2>3
<1>12. CASE CheckPending(u)
  <2>1. \/ Ends(u) /\ UNCHANGED barred
        \/ rel[<<v, u>>] = "requested" /\ Goes(u, "writing", Writes("accept", u, v))
    BY <1>12 DEF CheckPending, Check
  <2>2. Reading(u, v) => do \in {"request", "accept"}
    BY <1>12 DEF CheckPending, At, Reading
  <2>3. Reading(u, v) /\ rel[<<v, u>>] = "requested" => Stands(u, v, "none", "requested", FALSE, TRUE)
    BY <1>2, PairOrder DEF Reading, Agree, Stands
  <2>4. QED
    BY <1>6, <1>8, <2>1, <2>2, <2>3
<1>13. QED
  BY <1>9, <1>10, <1>11, <1>12

LEMMA FriendFinish ==
  ASSUME FriendShape, FriendInv, NEW u \in User, NEW full, NEW answered, Finish(u, full, answered)
  PROVE  FriendShape' /\ FriendInv'
<1> PICK v : v = calls[u].to
  OBVIOUS
<1>1. /\ calls[u] # None /\ calls[u].at = "writing" /\ calls[u].todo = <<>> /\ UNCHANGED <<rel, inbox>> /\ Ends(u)
      /\ \/ UNCHANGED barred
         \/ /\ barred' = barred \cup {<<u, v>>} /\ {u, v} \notin blemished /\ calls[u].action = "block"
  BY DEF Finish, At, store
<1>2. v \in Others(u) /\ About(u, v)
  BY <1>1 DEF FriendShape, CallOK, About
<1>3. ASSUME AtCall(u, v)
      PROVE  InOrder({u, v}) /\ (calls[u].action = "block" => rel[<<u, v>>] = "blocked")
  <2>1. Writing(u, v)
    BY <1>1, <1>3 DEF AtCall
  <2>2. ~Asks(u, v, <<>>) /\ ~Accepts(u, v, <<>>) /\ ~Declines(u, v, <<>>)
    BY Tails DEF Asks, Accepts, Declines, Writes
  <2>3. ~Cancels(u, v, <<>>) /\ ~Removes(u, v, <<>>) /\ ~Unblocks(u, v, <<>>)
    BY Tails DEF Cancels, Removes, Unblocks, Writes
  <2>4. ~Blocks(u, v, <<>>)
    BY Tails DEF Blocks, Writes
  <2>5. QED
    BY <1>1, <2>1, <2>2, <2>3, <2>4 DEF Writing
<1>4. {u, v} \notin blemished => AtCall(u, v)
  BY <1>2 DEF FriendInv, Clean
<1>5. QED
  BY <1>1, <1>3, <1>4, EndsKeeps
LEMMA FriendClick ==
  ASSUME FriendShape, FriendInv, NEW u \in User, NEW v \in Others(u), NEW action \in Action,
         Click(u, v, action)
  PROVE  FriendShape' /\ FriendInv'
<1> PICK at, todo : at = Entry(action) /\ todo = IF at = "writing" THEN Writes(action, u, v) ELSE <<>>
  OBVIOUS
<1> DEFINE new == [action |-> action, to |-> v, at |-> at, todo |-> todo]
<1>0. /\ action \in {"request", "accept", "unblock"} => at \in {"blocked", "pending", "mine"}
      /\ action = "request" => at = "blocked"
      /\ action = "accept" => at = "pending"
      /\ action = "unblock" => at = "mine"
      /\ action \in {"decline", "cancel", "remove", "block"} => at = "writing" /\ todo = Writes(action, u, v)
      /\ at \in {"blocked", "mine", "theirs", "pending", "writing"}
  BY DEF Entry, Action
<1>1. u # v /\ v \in User /\ u \in Others(v) /\ calls[u] = None /\ UNCHANGED <<rel, inbox>>
  BY DEF Click, Others, store
<1>2. todo \in Seq(WriteOf(u, v)) /\ todo \in Seq(Write0)
  <2>1. todo \in Seq(WriteOf(u, v))
    BY WritesType
  <2>2. WriteOf(u, v) \subseteq Write0
    BY <1>1 DEF WriteOf, Write0, Pair
  <2> DEFINE S == WriteOf(u, v)
  <2>3. S \subseteq Write0 /\ todo \in Seq(S)
    BY <2>1, <2>2
  <2> HIDE DEF S
  <2>4. todo \in Seq(Write0)
    BY <2>3, SeqWiden
  <2>5. QED
    BY <2>1, <2>4
<1>3. at \in {"blocked", "mine", "theirs", "pending", "writing"} /\ v \in User /\ todo \in Seq(Write0)
  BY <1>0, <1>1, <1>2
<1>4. new \in CallRecord /\ new # None /\ new.to = v /\ new.at = at /\ new.todo = todo /\ new.action = action
  <2> DEFINE S == Seq(Write0)
  <2>1. todo \in S
    BY <1>3
  <2> HIDE DEF S
  <2>2. new \in [action : Action, to : User, at : {"blocked", "mine", "theirs", "pending", "writing"}, todo : S]
    BY <1>3, <2>1
  <2>3. QED
    BY <2>2 DEF CallRecord, S
<1>5. calls' = [calls EXCEPT ![u] = new]
  BY DEF Click
<1>6. calls'[u] = new /\ \A a \in User \ {u} : calls'[a] = calls[a]
  BY <1>5 DEF FriendShape
<1>7. /\ blemished' = IF About(v, u) \/ Outdated(u, v) THEN blemished \cup {{u, v}} ELSE blemished
      /\ barred' = {p \in barred : /\ {p[1], p[2]} \notin blemished'
                                   /\ p # <<u, v>> \/ action # "unblock"
                                   /\ p # <<v, u>> \/ action # "block"}
      /\ action \in Offered(u, v)
  BY DEF Click
<1>8. FriendShape'
  <2>1. calls' \in [User -> CallRecord \cup {None}]
    BY <1>4, <1>5 DEF FriendShape
  <2>2. \A a \in User : CallOK(a)'
    BY <1>1, <1>2, <1>4, <1>6 DEF CallOK, FriendShape
  <2>3. QED
    BY <1>1, <1>7, <2>1, <2>2 DEF FriendShape
<1>9. /\ \A a, b \in User : a # u => (About(a, b)' <=> About(a, b))
      /\ \A b \in User : ~About(u, b) /\ (About(u, b)' <=> b = v)
  BY <1>1, <1>4, <1>6 DEF About
<1>10. ASSUME {u, v} \notin blemished'
       PROVE  ~About(v, u) /\ InOrder({u, v}) /\ AtCall(u, v)'
  <2>1. {u, v} \notin blemished /\ ~About(v, u) /\ ~Outdated(u, v)
    BY <1>7, <1>10
  <2>2. InOrder({u, v}) /\ Agree(u, v) /\ Agree(v, u)
    BY <1>1, <1>9, <2>1, PairOrder DEF FriendInv, Clean
  <2>3. InOrder({u, v})'
    BY <1>1, <2>2 DEF InOrder, Agree
  <2>4. /\ rel[<<u, v>>] \in Type /\ rel[<<v, u>>] \in Type
        /\ Seen(u, v) = <<rel[<<u, v>>], <<u, v>> \in inbox>>
    BY <1>1, <2>1 DEF FriendShape, Pair, Outdated
  <2>5. calls'[u].action = action /\ calls'[u].at = at /\ calls'[u].todo = todo
    BY <1>4, <1>6
  <2>6. CASE action \in {"request", "accept", "unblock"}
    BY <1>0, <2>1, <2>2, <2>3, <2>5, <2>6 DEF AtCall, Reading
  <2>7. CASE action = "decline"
    <3>0. Seen(u, v)[2]
      BY <1>7, <2>7 DEF Offered
    <3>1. <<u, v>> \in inbox
      <4> DEFINE waits == <<u, v>> \in inbox
      <4>1. Seen(u, v) = <<rel[<<u, v>>], waits>>
        BY <2>4
      <4>2. <<rel[<<u, v>>], waits>>[2] = waits
        OBVIOUS
      <4> HIDE DEF waits
      <4>3. Seen(u, v)[2] = waits
        BY <4>1, <4>2, Zenon
      <4>4. QED
        BY <3>0, <4>3, Zenon DEF waits
    <3>2. Stands(u, v, "none", "requested", FALSE, TRUE)'
      BY <1>1, <2>2, <2>4, <3>1 DEF Agree, Stands, Type
    <3>3. QED
      BY <1>0, <2>1, <2>2, <2>5, <2>7, <3>2 DEF AtCall, Writing, Declines
  <2>8. CASE action = "cancel"
    <3>1. rel[<<u, v>>] = "requested"
      BY <1>7, <2>4, <2>8 DEF Offered
    <3>2. Stands(u, v, "requested", "none", TRUE, FALSE)'
      BY <1>1, <2>2, <2>4, <3>1 DEF Agree, Stands, Type
    <3>3. QED
      BY <1>0, <2>1, <2>2, <2>5, <2>8, <3>2 DEF AtCall, Writing, Cancels
  <2>9. CASE action = "remove"
    <3>1. rel[<<u, v>>] = "friend"
      BY <1>7, <2>4, <2>9 DEF Offered
    <3>2. Stands(u, v, "friend", "friend", FALSE, FALSE)'
      BY <1>1, <2>2, <2>4, <3>1 DEF Agree, Stands, Type
    <3>3. QED
      BY <1>0, <2>1, <2>2, <2>5, <2>9, <3>2 DEF AtCall, Writing, Removes
  <2>10. CASE action = "block"
    <3>1. rel'[<<u, v>>] # "blocked"
      BY <1>1, <1>7, <2>4, <2>10 DEF Offered
    <3>2. QED
      BY <1>0, <2>1, <2>2, <2>3, <2>5, <2>10, <3>1 DEF AtCall, Writing, Blocks
  <2>11. QED
    BY <2>1, <2>2, <2>6, <2>7, <2>8, <2>9, <2>10 DEF Action
<1>11. ASSUME NEW a \in User, NEW b \in Others(a), {a, b} \notin blemished'
       PROVE  Clean(a, b)'
  <2>1. a # b /\ b \in User /\ {a, b} \notin blemished
    BY <1>7, <1>11 DEF Others
  <2>2. CASE a = u /\ b = v
    <3>1. ~About(v, u)' /\ About(u, v)' /\ AtCall(u, v)'
      BY <1>1, <1>9, <1>10, <1>11, <2>2
    <3>2. ~Rests({a, b})'
      BY <1>1, <2>2, <3>1 DEF Rests
    <3>3. QED
      BY <2>2, <3>1, <3>2 DEF Clean
  <2>3. CASE a = v /\ b = u
    <3>1. {u, v} \notin blemished'
      BY <1>11, <2>3
    <3>2. ~About(v, u)' /\ About(u, v)'
      BY <1>1, <1>9, <1>10, <3>1
    <3>3. ~Rests({a, b})'
      BY <1>1, <2>3, <3>2 DEF Rests
    <3>4. QED
      BY <2>3, <3>2, <3>3 DEF Clean
  <2>4. CASE {a, b} # {u, v}
    <3>1. Clean(a, b)
      BY <2>1 DEF FriendInv
    <3>2. calls'[a] = calls[a] \/ (~About(a, b) /\ ~About(a, b)')
      BY <1>6, <1>9, <2>1, <2>4
    <3>3. calls'[b] = calls[b] \/ (~About(b, a) /\ ~About(b, a)')
      BY <1>6, <1>9, <2>1, <2>4
    <3>4. QED
      BY <1>1, <3>1, <3>2, <3>3, CleanKept
  <2>5. QED
    BY <2>2, <2>3, <2>4
<1>12. ASSUME NEW p \in barred'
       PROVE  /\ {p[1], p[2]} \notin blemished' /\ rel'[p] = "blocked"
              /\ About(p[1], p[2])' => calls'[p[1]].action # "unblock"
              /\ About(p[2], p[1])' => calls'[p[2]].action # "block"
  <2>1. /\ p \in barred /\ {p[1], p[2]} \notin blemished'
        /\ p # <<u, v>> \/ action # "unblock"
        /\ p # <<v, u>> \/ action # "block"
    BY <1>7, <1>12
  <2>2. PICK a \in User, b \in User : p = <<a, b>> /\ a # b
    BY <2>1 DEF FriendShape, Pair
  <2>3. /\ rel[p] = "blocked"
        /\ About(a, b) => calls[a].action # "unblock"
        /\ About(b, a) => calls[b].action # "block"
    BY <2>1, <2>2 DEF FriendInv, BarInv
  <2>4. ASSUME About(a, b)' PROVE calls'[a].action # "unblock"
    BY <1>6, <1>9, <2>1, <2>2, <2>3, <2>4
  <2>5. ASSUME About(b, a)' PROVE calls'[b].action # "block"
    BY <1>6, <1>9, <2>1, <2>2, <2>3, <2>5
  <2>6. QED
    BY <1>1, <2>1, <2>2, <2>3, <2>4, <2>5
<1>13. BarInv'
  BY <1>12 DEF BarInv
<1>14. QED
  BY <1>8, <1>11, <1>13 DEF FriendInv
\* What leaves relationships and calls alone.
LEMMA FriendsStay ==
  ASSUME FriendShape, FriendInv, UNCHANGED <<rel, inbox, calls, blemished, barred>>
  PROVE  FriendShape' /\ FriendInv'
<1>1. FriendShape'
  BY DEF FriendShape, CallOK
<1>2. \A a \in User : \A b \in Others(a) : Clean(a, b) => Clean(a, b)'
  BY CleanKept
<1>3. BarInv'
  BY DEF FriendInv, BarInv, About
<1>4. QED
  BY <1>1, <1>2, <1>3 DEF FriendInv

LEMMA FriendBreak ==
  ASSUME FriendShape, FriendInv, BreakCalls
  PROVE  FriendShape' /\ FriendInv'
<1> DEFINE broken == {{u, calls[u].to} : u \in {v \in User : calls[v] # None}}
<1>1. /\ calls' = [u \in User |-> None] /\ UNCHANGED <<rel, inbox, barred>>
      /\ blemished' = blemished \cup {p \in broken : ~InOrder(p)}
  BY DEF BreakCalls, store
<1>2. FriendShape'
  BY <1>1 DEF FriendShape, CallOK
<1>3. \A a, b \in User : ~About(a, b)'
  BY <1>1 DEF About
<1>4. ASSUME NEW a \in User, NEW b \in Others(a), {a, b} \notin blemished'
      PROVE  Clean(a, b)'
  <2>1. a # b /\ b \in User /\ a \in Others(b) /\ {a, b} \notin blemished
    BY <1>1, <1>4 DEF Others
  <2>2. InOrder({a, b})
    <3>1. CASE About(a, b)
      <4>1. {a, b} \in broken
        BY <3>1 DEF About
      <4>2. QED
        BY <1>1, <1>4, <4>1
    <3>2. CASE About(b, a)
      <4>1. {a, b} \in broken
        BY <2>1, <3>2 DEF About
      <4>2. QED
        BY <1>1, <1>4, <4>1
    <3>3. CASE ~About(a, b) /\ ~About(b, a)
      BY <2>1, <3>3, PairOrder DEF FriendInv, Clean
    <3>4. QED
      BY <3>1, <3>2, <3>3
  <2>3. rel' = rel /\ inbox' = inbox
    BY <1>1
  <2>4. InOrder({a, b})'
    BY <2>2, <2>3 DEF InOrder, Agree
  <2>5. QED
    BY <1>3, <2>1, <2>4 DEF Clean
<1>5. ASSUME NEW p \in barred
      PROVE  {p[1], p[2]} \notin blemished'
  <2>1. PICK a \in User, b \in User : p = <<a, b>> /\ a # b
    BY <1>5 DEF FriendShape, Pair
  <2>2. /\ {a, b} \notin blemished /\ rel[<<a, b>>] = "blocked"
        /\ About(a, b) => calls[a].action # "unblock"
        /\ About(b, a) => calls[b].action # "block"
    BY <1>5, <2>1 DEF FriendInv, BarInv
  <2>3. Clean(a, b) /\ Clean(b, a) /\ {b, a} = {a, b}
    BY <2>1, <2>2 DEF FriendInv, Others
  <2>4. ASSUME About(a, b) PROVE InOrder({a, b})
    <3>1. CASE calls[a].at # "writing"
      BY <2>3, <2>4, <3>1 DEF Clean, AtCall, Reading
    <3>2. CASE calls[a].at = "writing"
      <4>1. Writing(a, b)
        BY <2>3, <2>4, <3>2 DEF Clean, AtCall
      <4>2. QED
        BY <2>2, <2>3, <2>4, <4>1
          DEF Writing, Asks, Accepts, Declines, Cancels, Removes, Blocks, Unblocks, Stands
    <3>3. QED
      BY <3>1, <3>2
  <2>5. ASSUME About(b, a) PROVE InOrder({a, b})
    <3>1. CASE calls[b].at # "writing"
      BY <2>3, <2>5, <3>1 DEF Clean, AtCall, Reading
    <3>2. CASE calls[b].at = "writing"
      <4>1. Writing(b, a)
        BY <2>3, <2>5, <3>2 DEF Clean, AtCall
      <4>2. QED
        BY <2>2, <2>3, <2>5, <4>1
          DEF Writing, Asks, Accepts, Declines, Cancels, Removes, Unblocks, Stands
    <3>3. QED
      BY <3>1, <3>2
  <2>6. {a, b} \notin broken \/ InOrder({a, b})
    BY <2>1, <2>4, <2>5 DEF About
  <2>7. QED
    BY <1>1, <2>1, <2>2, <2>6
<1>6. BarInv'
  BY <1>1, <1>3, <1>5 DEF FriendInv, BarInv, FriendShape, Pair
<1>7. QED
  BY <1>2, <1>4, <1>6 DEF FriendInv

LEMMA FriendStep ==
  ASSUME FriendShape, FriendInv, FriendsCall \/ FriendsWork \/ BreakCalls \/ UNCHANGED friendVars
  PROVE  FriendShape' /\ FriendInv'
<1>1. CASE FriendsCall
  BY <1>1, FriendClick DEF FriendsCall
<1>2. CASE FriendsWork
  <2> PICK u \in User :
        \/ CheckBlocked(u) \/ CheckMine(u) \/ CheckTheirs(u) \/ CheckPending(u)
        \/ Write(u)
        \/ \E full \in SUBSET online, answered \in BOOLEAN : Finish(u, full, answered)
        \/ /\ u \in Client
           /\ \/ HandleUpdate(u) \/ Connect(u) \/ Disconnect(u) \/ Reload(u)
              \/ \E l \in List : \E i \in DOMAIN asked[u][l] : ReadList(u, l, i) \/ Arrive(u, l, i) \/ FetchFails(u, l, i)
    BY <1>2 DEF FriendsWork
  <2>1. CASE CheckBlocked(u) \/ CheckMine(u) \/ CheckTheirs(u) \/ CheckPending(u)
    BY <2>1, FriendChecks
  <2>2. CASE Write(u)
    BY <2>2, FriendWrite
  <2>3. CASE \E full \in SUBSET online, answered \in BOOLEAN : Finish(u, full, answered)
    BY <2>3, FriendFinish
  <2>4. CASE HandleUpdate(u) \/ Connect(u) \/ Disconnect(u) \/ Reload(u)
    BY <2>4, FriendsStay DEF HandleUpdate, Connect, Disconnect, Reload, store, history
  <2>5. ASSUME NEW l \in List, NEW i, ReadList(u, l, i) \/ Arrive(u, l, i) \/ FetchFails(u, l, i)
        PROVE  FriendShape' /\ FriendInv'
    BY <2>5, FriendsStay DEF ReadList, Arrive, FetchFails, store, history
  <2>6. QED
    BY <2>1, <2>2, <2>3, <2>4, <2>5
<1>3. CASE UNCHANGED friendVars
  BY <1>3, FriendsStay DEF friendVars, store, history
<1>4. QED
  BY <1>1, <1>2, <1>3, FriendBreak

\* Two users agree on what they are to each other and a block stands, whatever calls and
\* crashes there are, unless two calls about them met or one was made from an old list.
THEOREM RelationshipsCorrect == ServerSpec => []RelationshipsHold
<1>1. ServerInit => FriendShape /\ FriendInv
  BY FriendInit DEF ServerInit
<1>2. FriendShape /\ FriendInv /\ [ServerNext]_serverVars => (FriendShape /\ FriendInv)'
  BY FriendStep DEF ServerNext, Crash, serverVars
<1>3. FriendShape /\ FriendInv => RelationshipsHold
  BY FriendsHold
<1>4. QED
  BY <1>1, <1>2, <1>3, PTL DEF ServerSpec

-----------------------------------------------------------------------------
(* The lists of clients *)

Content == (UNION {[Others(u) -> Type] : u \in User}) \cup SUBSET User
Fetch  == [read : BOOLEAN, late : BOOLEAN, list : Content]

ClientShape ==
  /\ told \in [Client -> Nat] /\ shown \in [Client -> [List -> Content]]
  /\ asked \in [Client -> [List -> Seq(Fetch)]]

\* The call of a has written, or is to write, what u will be told of or asks for again.
Announces(a, u) ==
  /\ At(a, "writing")
  /\ u = a \/ (u = calls[a].to /\ calls[a].action # "unblock")

News(u) == told[u] > 0 \/ \E a \in User : Announces(a, u)

\* An unblock writes what the caller alone is shown.
UnblockOK(a) ==
  calls[a] # None /\ calls[a].action = "unblock" =>
    /\ calls[a].at \in {"mine", "writing"}
    /\ \A i \in DOMAIN calls[a].todo : calls[a].todo[i] = Rel(a, calls[a].to, "none")

\* Where no news are due, what was asked for last is what there is.
LatestTrue(u, l) ==
  LET s == asked[u][l] IN
    IF s = <<>> THEN shown[u][l] = ListOf(u, l) \/ <<u, l>> \in crossed
                ELSE s[Len(s)].late \/ ~s[Len(s)].read \/ s[Len(s)].list = ListOf(u, l)

ListInv ==
  /\ ClientShape
  /\ \A a \in User : UnblockOK(a)
  /\ \A u \in Client, l \in List : News(u) \/ LatestTrue(u, l)

LEMMA ListsHold == ListInv => FriendListsAreTrue
<1> SUFFICES ASSUME ListInv, NEW u \in Client, NEW l \in List,
                    calls = [v \in User |-> None], told[u] = 0, asked[u][l] = <<>>
             PROVE  shown[u][l] = ListOf(u, l) \/ <<u, l>> \in crossed
  BY DEF FriendListsAreTrue
<1>1. ~News(u)
  BY DEF News, Announces, At
<1>2. QED
  BY <1>1 DEF ListInv, LatestTrue

\* Facts about the sequences of requests.
LEMMA Appended ==
  ASSUME NEW s \in Seq(Fetch), NEW r \in Fetch
  PROVE  Append(s, r) \in Seq(Fetch) /\ Append(s, r) # <<>> /\ Append(s, r)[Len(Append(s, r))] = r
  OBVIOUS

LEMMA LateOnes ==
  ASSUME NEW s \in Seq(Fetch)
  PROVE  /\ Late(s) \in Seq(Fetch) /\ Len(Late(s)) = Len(s) /\ (s = <<>> <=> Late(s) = <<>>)
         /\ \A i \in 1 .. Len(s) : Late(s)[i].late
<1>1. \A i \in 1 .. Len(s) : s[i] \in Fetch
  OBVIOUS
<1>2. \A r \in Fetch : [r EXCEPT !.late = TRUE] \in Fetch /\ [r EXCEPT !.late = TRUE].late = TRUE
  BY DEF Fetch
<1>3. \A i \in 1 .. Len(s) : Late(s)[i] \in Fetch /\ Late(s)[i].late = TRUE
  BY <1>1, <1>2 DEF Late
<1>4. Late(s) = [i \in 1 .. Len(s) |-> Late(s)[i]]
  BY DEF Late
<1> DEFINE t == Late(s)
<1>5. Len(s) \in Nat /\ t = [i \in 1 .. Len(s) |-> t[i]] /\ \A i \in 1 .. Len(s) : t[i] \in Fetch
  BY <1>3, <1>4
<1> HIDE DEF t
<1>6. t \in Seq(Fetch) /\ Len(t) = Len(s)
  BY <1>5
<1>7. s = <<>> <=> t = <<>>
  BY <1>6
<1>8. QED
  BY <1>3, <1>6, <1>7 DEF t

\* All elements of a finite set, each once.
LEMMA SetToSeqFacts ==
  ASSUME NEW S, IsFiniteSet(S)
  PROVE  /\ SetToSeq(S) \in Seq(S) /\ Len(SetToSeq(S)) = Cardinality(S) /\ Cardinality(S) \in Nat
         /\ \A x \in S : \E i \in 1 .. Len(SetToSeq(S)) : SetToSeq(S)[i] = x
<1> DEFINE n == Cardinality(S)  q == SetToSeq(S)
<1>1. n \in Nat /\ ExistsBijection(1 .. n, S)
  BY FS_CardinalityType
<1>2. \E f \in [1 .. n -> S] : IsInjective(f)
  BY <1>1 DEF ExistsBijection, Bijection, Injection
<1>3. q \in [1 .. n -> S] /\ IsInjective(q)
  BY <1>2 DEF SetToSeq
<1>4. IsFiniteSet(1 .. n) /\ Cardinality(1 .. n) = n
  BY <1>1, FS_Interval
<1>5. q \in Surjection(1 .. n, S)
  BY <1>3, <1>4, FS_Injection DEF Injection
<1>6. \A x \in S : \E i \in 1 .. n : q[i] = x
  BY <1>5 DEF Surjection
<1> HIDE DEF n, q
<1>7. q \in Seq(S) /\ Len(q) = n
  BY <1>1, <1>3
<1>8. QED
  BY <1>1, <1>6, <1>7 DEF n, q

LEMMA AnswersAre ==
  ASSUME NEW s \in Seq(Fetch)
  PROVE  Answers(s) \in Seq(Fetch)
<1> DEFINE S == {i \in DOMAIN s : s[i].read}
<1>1. S \subseteq 1 .. Len(s) /\ Len(s) \in Nat /\ \A i \in 1 .. Len(s) : s[i] \in Fetch
  OBVIOUS
<1>2. IsFiniteSet(S)
  BY <1>1, FS_Interval, FS_Subset
<1> DEFINE q == SetToSeq(S)
<1>3. q \in Seq(S)
  BY <1>2, SetToSeqFacts
<1>4. Answers(s) = [n \in DOMAIN q |-> s[q[n]]]
  BY DEF Answers
<1> HIDE DEF S, q
<1>5. DOMAIN q = 1 .. Len(q) /\ Len(q) \in Nat /\ \A n \in 1 .. Len(q) : q[n] \in S
  BY <1>3
<1>6. \A n \in 1 .. Len(q) : s[q[n]] \in Fetch
  BY <1>1, <1>5
<1>7. QED
  BY <1>4, <1>5, <1>6

LEMMA LastOfJoin ==
  ASSUME NEW S, NEW c \in Seq(S), NEW b \in Seq(S)
  PROVE  /\ c \o b \in Seq(S) /\ Len(c \o b) = Len(c) + Len(b)
         /\ Len(b) > 0 => (c \o b)[Len(c \o b)] = b[Len(b)]
         /\ Len(b) = 0 /\ Len(c) > 0 => (c \o b)[Len(c \o b)] = c[Len(c)]
<1>1. c \o b \in Seq(S) /\ Len(c \o b) = Len(c) + Len(b) /\ Len(c) \in Nat /\ Len(b) \in Nat
  OBVIOUS
<1>2. ASSUME Len(b) > 0 PROVE (c \o b)[Len(c) + Len(b)] = b[Len(b)]
  BY <1>1, <1>2
<1>3. ASSUME Len(b) = 0, Len(c) > 0 PROVE (c \o b)[Len(c)] = c[Len(c)]
  BY <1>1, <1>3
<1>4. Len(b) = 0 => Len(c \o b) = Len(c)
  BY <1>1
<1>5. QED
  BY <1>1, <1>2, <1>3, <1>4

\* What arrives has been asked for: where it was asked for last, what is left is late.
LEMMA Arrival ==
  ASSUME NEW s \in Seq(Fetch), NEW i \in 1 .. Len(s)
  PROVE  LET t == Late(SubSeq(s, 1, i - 1)) \o SubSeq(s, i + 1, Len(s)) IN
           /\ t \in Seq(Fetch) /\ Len(t) = Len(s) - 1
           /\ i # Len(s) => t[Len(t)] = s[Len(s)]
           /\ i = Len(s) /\ Len(t) > 0 => t[Len(t)].late
<1> DEFINE a == SubSeq(s, 1, i - 1)  b == SubSeq(s, i + 1, Len(s))  c == Late(a)
<1>1. /\ Len(s) \in Nat /\ i \in Nat /\ 1 <= i /\ i <= Len(s)
      /\ a \in Seq(Fetch) /\ Len(a) = i - 1
  OBVIOUS
<1>2. b \in Seq(Fetch) /\ Len(b) = Len(s) - i
  BY <1>1
<1>3. i # Len(s) => b[Len(b)] = s[Len(s)]
  <2>1. \A k \in 1 .. Len(s) - i : b[k] = s[i + k]
    BY <1>1
  <2>2. i # Len(s) => Len(s) - i \in 1 .. Len(s) - i /\ i + (Len(s) - i) = Len(s)
    BY <1>1
  <2> HIDE DEF b
  <2>3. QED
    BY <1>2, <2>1, <2>2
<1>4. c \in Seq(Fetch) /\ Len(c) = i - 1 /\ (i - 1 > 0 => c[i - 1].late)
  <2> HIDE DEF a
  <2>1. c \in Seq(Fetch) /\ Len(c) = Len(a) /\ \A k \in 1 .. Len(a) : c[k].late
    BY <1>1, LateOnes
  <2> HIDE DEF c
  <2>2. i - 1 > 0 => i - 1 \in 1 .. Len(a)
    BY <1>1
  <2>3. QED
    BY <1>1, <2>1, <2>2
<1> HIDE DEF a, b, c
<1>5. /\ c \o b \in Seq(Fetch) /\ Len(c \o b) = Len(c) + Len(b)
      /\ Len(b) > 0 => (c \o b)[Len(c \o b)] = b[Len(b)]
      /\ Len(b) = 0 /\ Len(c) > 0 => (c \o b)[Len(c \o b)] = c[Len(c)]
  <2>1. b \in Seq(Fetch) /\ c \in Seq(Fetch)
    BY <1>2, <1>4
  <2>2. QED
    BY <2>1, LastOfJoin
<1>6. Len(c \o b) = Len(s) - 1
  BY <1>1, <1>2, <1>4, <1>5
<1>7. i # Len(s) => (c \o b)[Len(c \o b)] = s[Len(s)]
  BY <1>1, <1>2, <1>3, <1>5
<1>8. i = Len(s) /\ Len(c \o b) > 0 => (c \o b)[Len(c \o b)].late
  BY <1>1, <1>2, <1>4, <1>5, <1>6
<1>9. QED
  BY <1>5, <1>6, <1>7, <1>8 DEF a, b, c

\* Lists are what they were where their records are.
LEMMA SameList ==
  ASSUME NEW u, NEW l \in List,
         \A v \in Others(u) : /\ rel'[<<u, v>>] = rel[<<u, v>>]
                              /\ <<u, v>> \in inbox' <=> <<u, v>> \in inbox
  PROVE  ListOf(u, l)' = ListOf(u, l)
  BY DEF ListOf

LEMMA ListContent ==
  ASSUME FriendShape, NEW u \in User, NEW l \in List
  PROVE  ListOf(u, l) \in Content /\ Unloaded(u, l) \in Content /\ Request(u, l) \in Fetch
<1>1. \A v \in Others(u) : <<u, v>> \in Pair
  BY DEF Others, Pair
<1>2. [v \in Others(u) |-> rel[<<u, v>>]] \in [Others(u) -> Type]
  BY <1>1 DEF FriendShape
<1>3. [v \in Others(u) |-> "none"] \in [Others(u) -> Type]
  BY DEF Type
<1>4. {v \in Others(u) : <<u, v>> \in inbox} \in SUBSET User /\ {} \in SUBSET User
  BY DEF Others
<1>5. [Others(u) -> Type] \subseteq Content /\ SUBSET User \subseteq Content
  BY DEF Content
<1>6. ListOf(u, l) \in Content /\ Unloaded(u, l) \in Content
  BY <1>2, <1>3, <1>4, <1>5 DEF ListOf, Unloaded, List
<1>7. QED
  BY <1>6 DEF Request, Fetch

\* A list that is asked for, or whose client has missed something, need not be true.
LEMMA AskedIsFine ==
  ASSUME NEW u \in Client, NEW l \in List,
         \/ \E s \in Seq(Fetch) : s # <<>> /\ asked'[u][l] = s /\ (s[Len(s)].late \/ ~s[Len(s)].read)
         \/ asked'[u][l] = <<>> /\ <<u, l>> \in crossed'
  PROVE  LatestTrue(u, l)'
  BY DEF LatestTrue

LEMMA LatestKept ==
  ASSUME NEW u \in Client, NEW l \in List, LatestTrue(u, l),
         asked'[u][l] = asked[u][l], shown'[u][l] = shown[u][l], ListOf(u, l)' = ListOf(u, l),
         <<u, l>> \in crossed => <<u, l>> \in crossed'
  PROVE  LatestTrue(u, l)'
  BY DEF LatestTrue
\* A step that leaves what clients have alone, and what a client is shown where no news are due.
LEMMA ListsKept ==
  ASSUME ListInv, UNCHANGED <<told, shown, asked>>, crossed \subseteq crossed',
         \A a \in User : UnblockOK(a)',
         \A u \in Client : News(u)' \/ (~News(u) /\ \A l \in List : ListOf(u, l)' = ListOf(u, l))
  PROVE  ListInv'
<1>1. ClientShape'
  BY DEF ListInv, ClientShape
<1>2. ASSUME NEW u \in Client, NEW l \in List, ~News(u)' PROVE LatestTrue(u, l)'
  BY <1>2, LatestKept DEF ListInv
<1>3. QED
  BY <1>1, <1>2 DEF ListInv

LEMMA ListChecks ==
  ASSUME FriendShape, ListInv, NEW u \in User,
         CheckBlocked(u) \/ CheckMine(u) \/ CheckTheirs(u) \/ CheckPending(u)
  PROVE  ListInv'
<1> PICK v : v = calls[u].to
  OBVIOUS
<1>1. /\ calls[u] # None /\ calls[u].at # "writing" /\ calls[u] \in CallRecord
      /\ UNCHANGED <<rel, inbox, told, shown, asked, crossed>>
  BY DEF CheckBlocked, CheckMine, CheckTheirs, CheckPending, At, Check, store, client, FriendShape
<1>2. /\ \A a \in User \ {u} : calls'[a] = calls[a]
      /\ \/ calls'[u] = None
         \/ /\ calls'[u].action = calls[u].action /\ calls'[u].to = v
            /\ calls[u].action = "unblock" =>
                 calls'[u].at = "writing" /\ calls'[u].todo = <<Rel(u, v, "none")>>
  <2>1. CASE Ends(u)
    BY <2>1 DEF Ends, FriendShape
  <2>2. ASSUME NEW at, NEW todo, Goes(u, at, todo),
               calls[u].action = "unblock" => at = "writing" /\ todo = <<Rel(u, v, "none")>>
        PROVE  <1>2!2 /\ \A a \in User \ {u} : calls'[a] = calls[a]
    <3> DEFINE new == [calls[u] EXCEPT !.at = at, !.todo = todo]
    <3>1. new.action = calls[u].action /\ new.to = v /\ new.at = at /\ new.todo = todo
      BY <1>1 DEF CallRecord
    <3>2. calls'[u] = new /\ \A a \in User \ {u} : calls'[a] = calls[a]
      BY <2>2 DEF Goes, FriendShape
    <3>3. QED
      BY <2>2, <3>1, <3>2
  <2>3. calls[u].action = "unblock" => calls[u].at = "mine"
    BY <1>1 DEF ListInv, UnblockOK
  <2>4. CASE CheckBlocked(u)
    BY <2>1, <2>2, <2>3, <2>4 DEF CheckBlocked, Check, At
  <2>5. CASE CheckMine(u)
    BY <2>1, <2>2, <2>3, <2>5 DEF CheckMine, Check, At, Writes
  <2>6. CASE CheckTheirs(u)
    BY <2>1, <2>2, <2>3, <2>6 DEF CheckTheirs, Check, At
  <2>7. CASE CheckPending(u)
    BY <2>1, <2>2, <2>3, <2>7 DEF CheckPending, Check, At
  <2>8. QED
    BY <2>4, <2>5, <2>6, <2>7
<1>3. \A a \in User : UnblockOK(a)'
  <2>1. ASSUME NEW i \in DOMAIN <<Rel(u, v, "none")>> PROVE <<Rel(u, v, "none")>>[i] = Rel(u, v, "none")
    OBVIOUS
  <2>2. UnblockOK(u)'
    BY <1>2, <2>1 DEF UnblockOK
  <2>3. \A a \in User \ {u} : UnblockOK(a)'
    BY <1>2 DEF ListInv, UnblockOK
  <2>4. QED
    BY <2>2, <2>3
<1>4. \A w \in Client : News(w) => News(w)'
  <2>1. ASSUME NEW w \in Client, NEW a \in User, Announces(a, w) PROVE Announces(a, w)'
    BY <1>1, <1>2, <2>1 DEF Announces, At
  <2>2. QED
    BY <1>1, <2>1 DEF News
<1>5. \A w \in Client, l \in List : ListOf(w, l)' = ListOf(w, l)
  BY <1>1, SameList
<1>6. QED
  BY <1>1, <1>3, <1>4, <1>5, ListsKept

LEMMA ListWrite ==
  ASSUME FriendShape, ListInv, NEW u \in User, Write(u)
  PROVE  ListInv'
<1> PICK v, w : v = calls[u].to /\ w = Head(calls[u].todo)
  OBVIOUS
<1>1. /\ v \in Others(u) /\ calls[u].at = "writing" /\ calls[u] # None /\ calls[u].todo \in Seq(WriteOf(u, v))
      /\ calls[u].todo # <<>>
  BY DEF Write, At, FriendShape, CallOK
<1>2. /\ \A a \in User \ {u} : calls'[a] = calls[a]
      /\ calls'[u] # None /\ calls'[u].todo = Tail(calls[u].todo) /\ calls'[u].at = "writing"
      /\ calls'[u].to = v /\ calls'[u].action = calls[u].action
      /\ w \in WriteOf(u, v)
      /\ w.record = "rel" => UNCHANGED inbox /\ rel' = [rel EXCEPT ![w.key] = w.type]
      /\ w.record # "rel" =>
           /\ UNCHANGED rel
           /\ inbox' = IF w.type = "none" THEN inbox \ {w.key} ELSE inbox \cup {w.key}
  BY Written
<1>3. UNCHANGED <<told, shown, asked, crossed>>
  BY DEF Write, client
<1>4. \A a \in User : UnblockOK(a)'
  <2>1. ASSUME calls[u].action = "unblock" PROVE UnblockOK(u)'
    <3>1. \A i \in DOMAIN calls[u].todo : calls[u].todo[i] = Rel(u, v, "none")
      BY <1>1, <2>1 DEF ListInv, UnblockOK
    <3> DEFINE s == calls[u].todo  W == WriteOf(u, v)
    <3> HIDE DEF s, W
    <3>2. s \in Seq(W) /\ s # <<>>
      BY <1>1 DEF s, W
    <3>3. \A i \in DOMAIN Tail(s) : i + 1 \in DOMAIN s /\ Tail(s)[i] = s[i + 1]
      BY <3>2
    <3>4. QED
      BY <1>2, <3>1, <3>3 DEF UnblockOK, s
  <2>2. UnblockOK(u)'
    BY <1>2, <2>1 DEF UnblockOK
  <2>3. \A a \in User \ {u} : UnblockOK(a)'
    BY <1>2 DEF ListInv, UnblockOK
  <2>4. QED
    BY <2>2, <2>3
<1>5. ASSUME NEW c \in Client, ~News(c)'
      PROVE  ~News(c) /\ \A l \in List : ListOf(c, l)' = ListOf(c, l)
  <2>1. ~News(c) /\ ~Announces(u, c)
    <3>1. \A a \in User : Announces(a, c) => Announces(a, c)'
      BY <1>1, <1>2 DEF Announces, At
    <3>2. QED
      BY <1>3, <1>5, <3>1 DEF News
  <2>2. c # u /\ (c = v => calls[u].action = "unblock")
    BY <1>1, <2>1 DEF Announces, At
  <2>3. ASSUME c = v PROVE w = Rel(u, v, "none")
    <3>1. 1 \in DOMAIN calls[u].todo /\ w = calls[u].todo[1]
      BY <1>1
    <3>2. QED
      BY <1>1, <2>2, <2>3, <3>1 DEF ListInv, UnblockOK
  <2>4. ASSUME NEW x \in Others(c)
        PROVE  /\ rel'[<<c, x>>] = rel[<<c, x>>]
               /\ <<c, x>> \in inbox' <=> <<c, x>> \in inbox
    <3>1. w.key \in {<<u, v>>, <<v, u>>} /\ (c = v => w.record = "rel" /\ w.key = <<u, v>>)
      BY <1>2, <2>3 DEF WriteOf, Rel
    <3>2. w.record = "rel" => w.key # <<c, x>>
      BY <2>2, <3>1
    <3>3. w.record # "rel" => w.key # <<c, x>>
      BY <2>2, <3>1
    <3>4. <<c, x>> \in Pair
      BY FriendsAssumption DEF Pair, Others
    <3>5. rel'[<<c, x>>] = rel[<<c, x>>]
      <4>1. CASE w.record = "rel"
        BY <1>2, <3>2, <3>4, <4>1 DEF FriendShape
      <4>2. CASE w.record # "rel"
        BY <1>2, <4>2
      <4>3. QED
        BY <4>1, <4>2
    <3>6. <<c, x>> \in inbox' <=> <<c, x>> \in inbox
      BY <1>2, <3>3
    <3>7. QED
      BY <3>5, <3>6
  <2>5. QED
    BY <2>1, <2>4, SameList
<1>6. QED
  BY <1>3, <1>4, <1>5, ListsKept
LEMMA ListClick ==
  ASSUME FriendShape, ListInv, NEW u \in User, NEW v \in Others(u), NEW action \in Action, Click(u, v, action)
  PROVE  ListInv'
<1>1. calls[u] = None /\ UNCHANGED <<rel, inbox, told, shown, asked, crossed>>
  BY DEF Click, store, client
<1>2. /\ \A a \in User \ {u} : calls'[a] = calls[a]
      /\ calls'[u].action = action
      /\ action = "unblock" => calls'[u].at = "mine" /\ calls'[u].todo = <<>>
  <2>1. action = "unblock" => Entry(action) = "mine"
    BY DEF Entry
  <2>2. QED
    BY <2>1 DEF Click, FriendShape
<1>3. \A a \in User : UnblockOK(a)'
  <2>1. UnblockOK(u)'
    BY <1>2 DEF UnblockOK
  <2>2. \A a \in User \ {u} : UnblockOK(a)'
    BY <1>2 DEF ListInv, UnblockOK
  <2>3. QED
    BY <2>1, <2>2
<1>4. \A w \in Client : News(w) => News(w)'
  <2>1. ASSUME NEW w \in Client, NEW a \in User, Announces(a, w) PROVE Announces(a, w)'
    BY <1>1, <1>2, <2>1 DEF Announces, At
  <2>2. QED
    BY <1>1, <2>1 DEF News
<1>5. \A w \in Client, l \in List : ListOf(w, l)' = ListOf(w, l)
  BY <1>1, SameList
<1>6. QED
  BY <1>1, <1>3, <1>4, <1>5, ListsKept

\* u asks for its lists.
LEMMA AsksAgain ==
  ASSUME FriendShape, NEW before \in [Client -> [List -> Seq(Fetch)]], NEW u \in User, Ask(u, before)
  PROVE  /\ asked' \in [Client -> [List -> Seq(Fetch)]]
         /\ \A c \in Client : c # u => asked'[c] = before[c]
         /\ u \in Client => \A l \in List : LatestTrue(u, l)'
<1>1. CASE u \notin Client
  BY <1>1 DEF Ask
<1>2. CASE u \in Client
  <2> DEFINE new == [l \in List |-> Append(before[u][l], Request(u, l))]
  <2>1. asked' = [before EXCEPT ![u] = new]
    BY <1>2 DEF Ask
  <2>2. ASSUME NEW l \in List
        PROVE  /\ new[l] \in Seq(Fetch) /\ new[l] # <<>>
               /\ ~new[l][Len(new[l])].read
    <3>1. Request(u, l) \in Fetch /\ ~Request(u, l).read
      BY ListContent DEF Request
    <3>2. before[u][l] \in Seq(Fetch)
      BY <1>2
    <3>3. QED
      BY <3>1, <3>2, Appended
  <2>3. new \in [List -> Seq(Fetch)]
    BY <2>2
  <2>4. asked' \in [Client -> [List -> Seq(Fetch)]] /\ asked'[u] = new
    BY <1>2, <2>1, <2>3
  <2>5. \A l \in List : LatestTrue(u, l)'
    BY <1>2, <2>2, <2>4, AskedIsFine
  <2>6. QED
    BY <2>1, <2>4, <2>5
<1>3. QED
  BY <1>1, <1>2
LEMMA ListFinish ==
  ASSUME FriendShape, ListInv, NEW u \in User, NEW full, NEW answered \in BOOLEAN, Finish(u, full, answered)
  PROVE  ListInv'
<1> PICK v : v = calls[u].to
  OBVIOUS
<1> DEFINE heard   == Told(u) \cap (online \ full)
           missing == ((Told(u) \cup (IF answered THEN {} ELSE {u})) \cap Client) \ heard
           before  == [c \in Client |-> IF c \in missing THEN [l \in List |-> Late(asked[c][l])] ELSE asked[c]]
<1>1. /\ calls[u] # None /\ calls[u].at = "writing" /\ calls[u] \in CallRecord /\ v \in Others(u)
      /\ UNCHANGED <<rel, inbox, shown>> /\ (answered \/ u \in Client)
      /\ IF answered THEN Ask(u, before) ELSE asked' = before
      /\ told' = [c \in Client |-> IF c \in heard THEN told[c] + 1 ELSE told[c]]
      /\ crossed' = crossed \cup (missing \X List)
  BY DEF Finish, At, store, FriendShape, CallOK
<1>2. calls'[u] = None /\ \A a \in User \ {u} : calls'[a] = calls[a]
  BY DEF Finish, Ends, FriendShape
<1>3. \A c \in Client, l \in List : asked[c][l] \in Seq(Fetch)
  BY DEF ListInv, ClientShape
<1>4. before \in [Client -> [List -> Seq(Fetch)]]
  <2>1. ASSUME NEW c \in Client PROVE before[c] \in [List -> Seq(Fetch)]
    <3>1. [l \in List |-> Late(asked[c][l])] \in [List -> Seq(Fetch)]
      BY <1>3, LateOnes
    <3>2. asked[c] \in [List -> Seq(Fetch)]
      BY DEF ListInv, ClientShape
    <3>3. QED
      BY <3>1, <3>2
  <2>2. QED
    BY <2>1
<1> HIDE DEF before
<1>5. /\ asked' \in [Client -> [List -> Seq(Fetch)]]
      /\ \A c \in Client : c # u \/ ~answered => asked'[c] = before[c]
      /\ u \in Client /\ answered => \A l \in List : LatestTrue(u, l)'
  <2>1. CASE answered
    BY <1>1, <1>4, <2>1, AsksAgain
  <2>2. CASE ~answered
    BY <1>1, <1>4, <2>2
  <2>3. QED
    BY <2>1, <2>2
<1> USE DEF before
<1>6. told' \in [Client -> Nat]
  BY <1>1 DEF ListInv, ClientShape
<1>7. \A a \in User : UnblockOK(a)'
  BY <1>2 DEF ListInv, UnblockOK
<1>8. ASSUME NEW c \in Client, NEW l \in List, c # u \/ ~answered, ~News(c)'
      PROVE  LatestTrue(c, l)'
  <2>1. CASE c \in missing
    <3>1. asked'[c][l] = Late(asked[c][l]) /\ <<c, l>> \in crossed'
      BY <1>1, <1>5, <1>8, <2>1
    <3>2. /\ Late(asked[c][l]) \in Seq(Fetch)
          /\ \A i \in 1 .. Len(Late(asked[c][l])) : Late(asked[c][l])[i].late
      BY <1>3, LateOnes
    <3> DEFINE s == Late(asked[c][l])
    <3> HIDE DEF s
    <3>3. s = <<>> \/ s[Len(s)].late
      <4>1. s # <<>> => Len(s) \in 1 .. Len(s)
        BY <3>2 DEF s
      <4>2. QED
        BY <3>2, <4>1 DEF s
    <3>4. QED
      BY <3>1, <3>2, <3>3, AskedIsFine DEF s
  <2>2. CASE c \notin missing
    <3>1. told'[c] = told[c] /\ told[c] = 0 /\ c \notin Told(u) /\ c # u
      <4>1. told'[c] \in Nat /\ ~(told'[c] > 0)
        BY <1>6, <1>8 DEF News
      <4>2. told[c] \in Nat
        BY DEF ListInv, ClientShape
      <4>3. told'[c] = IF c \in heard THEN told[c] + 1 ELSE told[c]
        BY <1>1
      <4>4. c \notin heard /\ told'[c] = told[c] /\ told[c] = 0
        <5> HIDE DEF heard
        <5>1. QED
          BY <4>1, <4>2, <4>3
      <4>5. c \notin Told(u) /\ (~answered => c # u)
        BY <2>2, <4>4
      <4>6. QED
        BY <1>8, <4>4, <4>5
    <3>2. ~Announces(u, c)
      BY <1>1, <1>8, <3>1 DEF Announces, At, Told, CallRecord, Action
    <3>3. \A a \in User : Announces(a, c) => Announces(a, c)'
      BY <1>2, <3>2 DEF Announces, At
    <3>4. ~News(c)
      BY <1>8, <3>1, <3>3 DEF News
    <3>5. ListOf(c, l)' = ListOf(c, l)
      BY <1>1, SameList
    <3>6. asked'[c] = asked[c]
      BY <1>5, <1>8, <2>2
    <3>7. QED
      BY <1>1, <3>4, <3>5, <3>6, LatestKept DEF ListInv
  <2>3. QED
    BY <2>1, <2>2
<1>9. ClientShape'
  BY <1>1, <1>5, <1>6 DEF ListInv, ClientShape
<1>10. ASSUME NEW c \in Client, NEW l \in List, ~News(c)'
       PROVE  LatestTrue(c, l)'
  <2>1. CASE c # u \/ ~answered
    BY <1>8, <1>10, <2>1
  <2>2. CASE c = u /\ answered
    BY <1>5, <2>2
  <2>3. QED
    BY <2>1, <2>2
<1>11. QED
  BY <1>7, <1>9, <1>10 DEF ListInv

\* What a client of its own does: nothing changes on the server.
LEMMA OwnStep ==
  ASSUME FriendShape, ListInv, ClientShape', UNCHANGED <<rel, inbox, calls>>, NEW u \in Client,
         \A c \in Client : c # u => told'[c] = told[c] /\ asked'[c] = asked[c] /\ shown'[c] = shown[c],
         \A c \in Client, l \in List : c # u /\ <<c, l>> \in crossed => <<c, l>> \in crossed',
         \A l \in List : News(u)' \/ LatestTrue(u, l)'
  PROVE  ListInv'
<1>1. \A a \in User : UnblockOK(a)'
  BY DEF ListInv, UnblockOK
<1>2. ASSUME NEW c \in Client, NEW l \in List, c # u, ~News(c)' PROVE LatestTrue(c, l)'
  <2>1. ~News(c)
    BY <1>2 DEF News, Announces, At
  <2>2. ListOf(c, l)' = ListOf(c, l)
    BY SameList
  <2>3. QED
    BY <1>2, <2>1, <2>2, LatestKept DEF ListInv
<1>3. QED
  BY <1>1, <1>2 DEF ListInv

LEMMA ListUpdate ==
  ASSUME FriendShape, ListInv, NEW u \in Client, HandleUpdate(u)
  PROVE  ListInv'
<1>1. /\ told[u] > 0 /\ told' = [told EXCEPT ![u] = @ - 1] /\ Ask(u, asked)
      /\ UNCHANGED <<rel, inbox, calls, shown, crossed>>
  BY DEF HandleUpdate, store, history
<1>2. told' \in [Client -> Nat] /\ \A c \in Client : c # u => told'[c] = told[c]
  BY <1>1 DEF ListInv, ClientShape
<1>3. u \in User
  BY FriendsAssumption
<1>4. /\ asked' \in [Client -> [List -> Seq(Fetch)]]
      /\ \A c \in Client : c # u => asked'[c] = asked[c]
      /\ \A l \in List : LatestTrue(u, l)'
  BY <1>1, <1>3, AsksAgain DEF ListInv, ClientShape
<1>5. ClientShape'
  BY <1>1, <1>2, <1>4 DEF ListInv, ClientShape
<1>6. QED
  BY <1>1, <1>2, <1>4, <1>5, OwnStep

LEMMA ListRead ==
  ASSUME FriendShape, ListInv, NEW u \in Client, NEW l \in List, NEW i \in DOMAIN asked[u][l], ReadList(u, l, i)
  PROVE  ListInv'
<1> DEFINE s   == asked[u][l]
           new == [s[i] EXCEPT !.read = TRUE, !.list = ListOf(u, l)]
           t   == [s EXCEPT ![i] = new]
<1>1. UNCHANGED <<rel, inbox, calls, shown, told, crossed>> /\ asked' = [asked EXCEPT ![u][l] = t]
  BY DEF ReadList, store, history
<1>2. s \in Seq(Fetch) /\ i \in 1 .. Len(s) /\ s[i] \in Fetch
  BY DEF ListInv, ClientShape
<1>3. new \in Fetch /\ new.list = ListOf(u, l)
  BY <1>2, ListContent, FriendsAssumption DEF Fetch
<1> HIDE DEF s, new
<1>4. t \in Seq(Fetch) /\ Len(t) = Len(s) /\ t[i] = new /\ \A j \in 1 .. Len(s) : j # i => t[j] = s[j]
  BY <1>2, <1>3
<1>5. /\ asked' \in [Client -> [List -> Seq(Fetch)]] /\ asked'[u][l] = t
      /\ \A k \in List : k # l => asked'[u][k] = asked[u][k]
      /\ \A c \in Client : c # u => asked'[c] = asked[c]
  <2> HIDE DEF t
  <2>1. QED
    BY <1>1, <1>4 DEF ListInv, ClientShape
<1>6. ClientShape'
  BY <1>1, <1>5 DEF ListInv, ClientShape
<1>7. \A k \in List : ListOf(u, k)' = ListOf(u, k)
  BY <1>1, SameList
<1>8. News(u)' <=> News(u)
  BY <1>1 DEF News, Announces, At
<1>9. ASSUME ~News(u) PROVE LatestTrue(u, l)'
  <2>1. s # <<>> /\ t # <<>> /\ Len(s) \in 1 .. Len(s)
    BY <1>2, <1>4
  <2>2. s[Len(s)].late \/ ~s[Len(s)].read \/ s[Len(s)].list = ListOf(u, l)
    BY <1>9, <2>1 DEF ListInv, LatestTrue, s
  <2>3. t[Len(t)].late \/ ~t[Len(t)].read \/ t[Len(t)].list = ListOf(u, l)
    <3>1. CASE i = Len(s)
      BY <1>3, <1>4, <3>1
    <3>2. CASE i # Len(s)
      BY <1>4, <2>1, <2>2, <3>2
    <3>3. QED
      BY <3>1, <3>2
  <2> HIDE DEF t
  <2>4. QED
    BY <1>5, <1>7, <2>1, <2>3 DEF LatestTrue
<1>10. ASSUME NEW k \in List, k # l, ~News(u) PROVE LatestTrue(u, k)'
  BY <1>1, <1>5, <1>7, <1>10, LatestKept DEF ListInv
<1>11. QED
  BY <1>1, <1>5, <1>6, <1>8, <1>9, <1>10, OwnStep
LEMMA ListArrive ==
  ASSUME FriendShape, ListInv, NEW u \in Client, NEW l \in List, NEW i \in DOMAIN asked[u][l], Arrive(u, l, i)
  PROVE  ListInv'
<1> DEFINE s == asked[u][l]
           t == Late(SubSeq(s, 1, i - 1)) \o SubSeq(s, i + 1, Len(s))
<1>1. /\ UNCHANGED <<rel, inbox, calls, told>> /\ s[i].read
      /\ shown' = [shown EXCEPT ![u][l] = s[i].list] /\ asked' = [asked EXCEPT ![u][l] = t]
      /\ crossed' = IF s[i].late THEN crossed \cup {<<u, l>>} ELSE crossed \ {<<u, l>>}
  BY DEF Arrive, store
<1>2. s \in Seq(Fetch) /\ i \in 1 .. Len(s) /\ s[i] \in Fetch /\ Len(s) \in Nat
  BY DEF ListInv, ClientShape
<1>3. /\ t \in Seq(Fetch) /\ Len(t) = Len(s) - 1
      /\ i # Len(s) => t[Len(t)] = s[Len(s)]
      /\ i = Len(s) /\ Len(t) > 0 => t[Len(t)].late
  BY <1>2, Arrival
<1> HIDE DEF s, t
<1>4. s[i].list \in Content
  BY <1>2 DEF Fetch
<1>5. /\ asked' \in [Client -> [List -> Seq(Fetch)]] /\ asked'[u][l] = t
      /\ \A k \in List : k # l => asked'[u][k] = asked[u][k]
      /\ \A c \in Client : c # u => asked'[c] = asked[c]
  BY <1>1, <1>3 DEF ListInv, ClientShape
<1>6. /\ shown' \in [Client -> [List -> Content]] /\ shown'[u][l] = s[i].list
      /\ \A k \in List : k # l => shown'[u][k] = shown[u][k]
      /\ \A c \in Client : c # u => shown'[c] = shown[c]
  BY <1>1, <1>4 DEF ListInv, ClientShape
<1>7. ClientShape'
  BY <1>1, <1>5, <1>6 DEF ListInv, ClientShape
<1>8. \A k \in List : ListOf(u, k)' = ListOf(u, k)
  BY <1>1, SameList
<1>9. News(u)' <=> News(u)
  BY <1>1 DEF News, Announces, At
<1>10. ASSUME ~News(u) PROVE LatestTrue(u, l)'
  <2>1. s # <<>> /\ (t = <<>> <=> Len(t) = 0) /\ (t # <<>> => Len(t) > 0)
    BY <1>2, <1>3
  <2>2. s[Len(s)].late \/ ~s[Len(s)].read \/ s[Len(s)].list = ListOf(u, l)
    BY <1>10, <2>1 DEF ListInv, LatestTrue, s
  <2>3. CASE t = <<>>
    <3>1. i = Len(s)
      <4>1. Len(t) = 0
        BY <2>1, <2>3
      <4>2. Len(s) = 1
        BY <1>2, <1>3, <4>1
      <4>3. QED
        BY <1>2, <4>2
    <3>2. s[i].late \/ shown'[u][l] = ListOf(u, l)'
      BY <1>1, <1>6, <1>8, <2>2, <3>1
    <3>3. shown'[u][l] = ListOf(u, l)' \/ <<u, l>> \in crossed'
      BY <1>1, <3>2
    <3>4. QED
      BY <1>5, <2>3, <3>3 DEF LatestTrue
  <2>4. CASE t # <<>>
    <3>1. t[Len(t)].late \/ ~t[Len(t)].read \/ t[Len(t)].list = ListOf(u, l)'
      BY <1>3, <1>8, <2>1, <2>2, <2>4
    <3>2. QED
      BY <1>5, <2>4, <3>1 DEF LatestTrue
  <2>5. QED
    BY <2>3, <2>4
<1>11. ASSUME NEW k \in List, k # l, ~News(u) PROVE LatestTrue(u, k)'
  BY <1>1, <1>5, <1>6, <1>8, <1>11, LatestKept DEF ListInv
<1>12. \A c \in Client, k \in List : c # u /\ <<c, k>> \in crossed => <<c, k>> \in crossed'
  BY <1>1
<1>13. QED
  BY <1>1, <1>5, <1>6, <1>7, <1>9, <1>10, <1>11, <1>12, OwnStep

\* A list that is asked for in vain.
LEMMA ListFails ==
  ASSUME FriendShape, ListInv, NEW u \in Client, NEW l \in List, NEW i \in DOMAIN asked[u][l], FetchFails(u, l, i)
  PROVE  ListInv'
<1> DEFINE s    == asked[u][l]
           last == i = Len(s)
           t    == IF last THEN Late(Front(s)) ELSE RemoveAt(s, i)
<1>1. /\ UNCHANGED <<rel, inbox, calls, told, shown>> /\ asked' = [asked EXCEPT ![u][l] = t]
      /\ crossed' = IF last THEN crossed \cup {<<u, l>>} ELSE crossed
  BY DEF FetchFails, store
<1>2. s \in Seq(Fetch) /\ i \in 1 .. Len(s) /\ Len(s) \in Nat
  BY DEF ListInv, ClientShape
<1>3. /\ t \in Seq(Fetch) /\ Len(t) = Len(s) - 1
      /\ ~last => t[Len(t)] = s[Len(s)]
      /\ last /\ Len(t) > 0 => t[Len(t)].late
  <2> HIDE DEF s
  <2>1. CASE last
    <3>1. Front(s) \in Seq(Fetch) /\ Len(Front(s)) = Len(s) - 1
      <4>1. /\ Len(s) \in Nat /\ i \in Nat /\ 1 <= i /\ i <= Len(s)
            /\ SubSeq(s, 1, i - 1) \in Seq(Fetch) /\ Len(SubSeq(s, 1, i - 1)) = i - 1
        BY <1>2
      <4>2. Front(s) = SubSeq(s, 1, i - 1) /\ i = Len(s)
        BY <2>1 DEF Front
      <4>3. QED
        BY <4>1, <4>2
    <3> DEFINE f == Front(s)
    <3> HIDE DEF f
    <3>2. f \in Seq(Fetch) /\ Len(f) = Len(s) - 1
      BY <3>1 DEF f
    <3> DEFINE r == Late(f)
    <3>3. r \in Seq(Fetch) /\ Len(r) = Len(f) /\ \A j \in 1 .. Len(f) : r[j].late
      BY <3>2, LateOnes
    <3>4. t = r
      BY <2>1 DEF f
    <3> HIDE DEF r
    <3>5. Len(f) > 0 => Len(f) \in 1 .. Len(f)
      BY <3>2
    <3> HIDE DEF t
    <3>6. QED
      BY <2>1, <3>2, <3>3, <3>4, <3>5
  <2>2. CASE ~last
    <3> DEFINE a == SubSeq(s, 1, i - 1)
               b == SubSeq(s, i + 1, Len(s))
    <3>1. t = a \o b
      BY <2>2 DEF RemoveAt
    <3>2. Len(s) \in Nat /\ i \in Nat /\ 1 <= i /\ i < Len(s)
      BY <1>2, <2>2
    <3>3. a \in Seq(Fetch) /\ Len(a) = i - 1
      BY <1>2, <3>2
    <3>4. b \in Seq(Fetch) /\ Len(b) = Len(s) - i
      BY <1>2, <3>2
    <3>5. b[Len(b)] = s[Len(s)]
      <4>1. \A k \in 1 .. Len(s) - i : b[k] = s[i + k]
        BY <1>2, <3>2
      <4>2. Len(s) - i \in 1 .. Len(s) - i /\ i + (Len(s) - i) = Len(s)
        BY <3>2
      <4> HIDE DEF b
      <4>3. QED
        BY <3>4, <4>1, <4>2
    <3> HIDE DEF a, b, t
    <3>6. a \o b \in Seq(Fetch) /\ Len(a \o b) = Len(a) + Len(b) /\ (Len(b) > 0 => (a \o b)[Len(a \o b)] = b[Len(b)])
      <4>1. a \in Seq(Fetch) /\ b \in Seq(Fetch)
        BY <3>3, <3>4
      <4>2. QED
        BY <4>1, LastOfJoin
    <3>7. Len(a) + Len(b) = Len(s) - 1 /\ Len(b) > 0
      BY <3>2, <3>3, <3>4
    <3>8. Len(t) = Len(s) - 1 /\ t \in Seq(Fetch) /\ t[Len(t)] = b[Len(b)]
      BY <3>1, <3>6, <3>7
    <3> HIDE DEF last
    <3>9. QED
      BY <2>2, <3>5, <3>8
  <2>3. QED
    BY <2>1, <2>2
<1> HIDE DEF s, t
<1>4. /\ asked' \in [Client -> [List -> Seq(Fetch)]] /\ asked'[u][l] = t
      /\ \A k \in List : k # l => asked'[u][k] = asked[u][k]
      /\ \A c \in Client : c # u => asked'[c] = asked[c]
  BY <1>1, <1>3 DEF ListInv, ClientShape
<1>5. ClientShape'
  BY <1>1, <1>4 DEF ListInv, ClientShape
<1>6. \A k \in List : ListOf(u, k)' = ListOf(u, k)
  BY <1>1, SameList
<1>7. News(u)' <=> News(u)
  BY <1>1 DEF News, Announces, At
<1>8. ASSUME ~News(u) PROVE LatestTrue(u, l)'
  <2>1. s # <<>> /\ (t = <<>> <=> Len(t) = 0) /\ (t # <<>> => Len(t) > 0)
    BY <1>2, <1>3
  <2>2. s[Len(s)].late \/ ~s[Len(s)].read \/ s[Len(s)].list = ListOf(u, l)
    BY <1>8, <2>1 DEF ListInv, LatestTrue, s
  <2>3. CASE t = <<>>
    <3>1. last
      <4>1. Len(t) = 0
        BY <2>1, <2>3
      <4>2. Len(s) = 1
        BY <1>2, <1>3, <4>1
      <4>3. QED
        BY <1>2, <4>2
    <3>2. QED
      BY <1>1, <1>4, <2>3, <3>1 DEF LatestTrue
  <2>4. CASE t # <<>>
    <3>1. t[Len(t)].late \/ ~t[Len(t)].read \/ t[Len(t)].list = ListOf(u, l)'
      BY <1>3, <1>6, <2>1, <2>2, <2>4
    <3>2. QED
      BY <1>4, <2>4, <3>1 DEF LatestTrue
  <2>5. QED
    BY <2>3, <2>4
<1>9. ASSUME NEW k \in List, k # l, ~News(u) PROVE LatestTrue(u, k)'
  BY <1>1, <1>4, <1>6, <1>9, LatestKept DEF ListInv
<1>10. \A c \in Client, k \in List : c # u /\ <<c, k>> \in crossed => <<c, k>> \in crossed'
  BY <1>1
<1>11. QED
  BY <1>1, <1>4, <1>5, <1>7, <1>8, <1>9, <1>10, OwnStep

\* A client that misses something: what is under way is late, and what it has may be old.
LEMMA Misses ==
  ASSUME NEW c \in Client, NEW l \in List, <<c, l>> \in crossed',
         NEW s \in Seq(Fetch), asked'[c][l] = Late(s)
  PROVE  LatestTrue(c, l)' /\ asked'[c][l] \in Seq(Fetch)
<1> DEFINE t == Late(s)
<1>1. t \in Seq(Fetch) /\ Len(t) = Len(s) /\ \A i \in 1 .. Len(s) : t[i].late
  BY LateOnes
<1> HIDE DEF t
<1>2. t # <<>> => Len(t) \in 1 .. Len(s)
  BY <1>1
<1>3. QED
  BY <1>1, <1>2, AskedIsFine DEF t

LEMMA ListDisconnect ==
  ASSUME FriendShape, ListInv, NEW u \in Client, Disconnect(u)
  PROVE  ListInv'
<1>1. /\ UNCHANGED <<rel, inbox, calls, shown>> /\ told' = [told EXCEPT ![u] = 0]
      /\ IF told[u] > 0
         THEN /\ crossed' = crossed \cup ({u} \X List)
              /\ asked' = [asked EXCEPT ![u] = [l \in List |-> Late(asked[u][l])]]
         ELSE UNCHANGED <<crossed, asked>>
  BY DEF Disconnect, store
<1>2. told' \in [Client -> Nat] /\ (\A c \in Client : c # u => told'[c] = told[c]) /\ told[u] \in Nat /\ told'[u] = 0
  BY <1>1 DEF ListInv, ClientShape
<1>3. CASE told[u] > 0
  <2> DEFINE new == [l \in List |-> Late(asked[u][l])]
  <2>1. asked' = [asked EXCEPT ![u] = new] /\ \A l \in List : <<u, l>> \in crossed'
    BY <1>1, <1>3
  <2>2. \A l \in List : asked[u][l] \in Seq(Fetch)
    BY DEF ListInv, ClientShape
  <2>3. new \in [List -> Seq(Fetch)]
    BY <2>2, LateOnes
  <2>4. /\ asked' \in [Client -> [List -> Seq(Fetch)]] /\ \A l \in List : asked'[u][l] = Late(asked[u][l])
        /\ \A c \in Client : c # u => asked'[c] = asked[c]
    <3> HIDE DEF new
    <3>1. asked' \in [Client -> [List -> Seq(Fetch)]] /\ asked'[u] = new
      BY <2>1, <2>3 DEF ListInv, ClientShape
    <3>2. QED
      BY <2>1, <3>1 DEF ListInv, ClientShape, new
  <2>5. \A l \in List : LatestTrue(u, l)'
    BY <2>1, <2>2, <2>4, Misses
  <2>6. ClientShape'
    BY <1>1, <1>2, <2>4 DEF ListInv, ClientShape
  <2>7. QED
    BY <1>1, <1>2, <1>3, <2>4, <2>5, <2>6, OwnStep
<1>4. CASE told[u] = 0
  <2>1. UNCHANGED <<crossed, asked>>
    BY <1>1, <1>4
  <2>2. News(u)' <=> News(u)
    BY <1>1, <1>2, <1>4 DEF News, Announces, At
  <2>3. \A l \in List : ListOf(u, l)' = ListOf(u, l)
    BY <1>1, SameList
  <2>4. \A l \in List : News(u)' \/ LatestTrue(u, l)'
    BY <1>1, <2>1, <2>2, <2>3, LatestKept DEF ListInv
  <2>5. ClientShape'
    BY <1>1, <1>2, <2>1 DEF ListInv, ClientShape
  <2>6. QED
    BY <1>1, <1>2, <2>1, <2>4, <2>5, OwnStep
<1>5. QED
  BY <1>2, <1>3, <1>4

LEMMA ListReload ==
  ASSUME FriendShape, ListInv, NEW u \in Client, Reload(u)
  PROVE  ListInv'
<1> DEFINE new == [l \in List |-> <<Request(u, l)>>]
           none == [l \in List |-> Unloaded(u, l)]
<1>1. /\ UNCHANGED <<rel, inbox, calls, crossed>> /\ told' = [told EXCEPT ![u] = 0]
      /\ shown' = [shown EXCEPT ![u] = none] /\ asked' = [asked EXCEPT ![u] = new]
  BY DEF Reload, store, history
<1>2. ASSUME NEW l \in List
      PROVE  /\ Unloaded(u, l) \in Content /\ <<Request(u, l)>> \in Seq(Fetch)
             /\ <<Request(u, l)>> # <<>> /\ ~<<Request(u, l)>>[Len(<<Request(u, l)>>)].read
  <2>1. Unloaded(u, l) \in Content /\ Request(u, l) \in Fetch /\ ~Request(u, l).read
    BY ListContent, FriendsAssumption DEF Request
  <2> DEFINE r == Request(u, l)
  <2> HIDE DEF r
  <2>2. r \in Fetch /\ ~r.read
    BY <2>1 DEF r
  <2>3. <<r>> \in Seq(Fetch) /\ <<r>> # <<>> /\ <<r>>[Len(<<r>>)] = r
    BY <2>2
  <2>4. QED
    BY <2>1, <2>2, <2>3 DEF r
<1>3. new \in [List -> Seq(Fetch)] /\ none \in [List -> Content] /\ \A l \in List : new[l] = <<Request(u, l)>>
  BY <1>2
<1> HIDE DEF new, none
<1>4. /\ told' \in [Client -> Nat] /\ shown' \in [Client -> [List -> Content]]
      /\ asked' \in [Client -> [List -> Seq(Fetch)]] /\ asked'[u] = new
      /\ \A c \in Client : c # u => told'[c] = told[c] /\ asked'[c] = asked[c] /\ shown'[c] = shown[c]
  BY <1>1, <1>3 DEF ListInv, ClientShape
<1>5. ClientShape'
  BY <1>4 DEF ClientShape
<1>6. \A l \in List : LatestTrue(u, l)'
  BY <1>2, <1>3, <1>4, AskedIsFine
<1>7. QED
  BY <1>1, <1>4, <1>5, <1>6, OwnStep

LEMMA ListBreak ==
  ASSUME FriendShape, ListInv, BreakCalls
  PROVE  ListInv'
<1> DEFINE broken == {{u, calls[u].to} : u \in {v \in User : calls[v] # None}}
           waits(u) == \/ told[u] > 0 \/ \E p \in broken : u \in p
                       \/ \E l \in List, i \in 1 .. MaxAsked : i \in DOMAIN asked[u][l] /\ ~asked[u][l][i].read
           missing == {u \in Client : waits(u)}
<1>1. /\ calls' = [u \in User |-> None] /\ told' = [u \in Client |-> 0] /\ UNCHANGED <<rel, inbox, shown>>
      /\ asked' = [u \in Client |-> [l \in List |->
                     IF u \in missing THEN Late(Answers(asked[u][l])) ELSE asked[u][l]]]
      /\ crossed' = crossed \cup (missing \X List)
  BY DEF BreakCalls, store
<1>2. ASSUME NEW c \in Client, c \notin missing PROVE ~News(c)
  <2>1. ~(told[c] > 0) /\ ~\E p \in broken : c \in p
    BY <1>2
  <2>2. ASSUME NEW a \in User, Announces(a, c) PROVE FALSE
    <3>1. calls[a] # None /\ c \in {a, calls[a].to}
      BY <2>2 DEF Announces, At
    <3>2. {a, calls[a].to} \in broken
      BY <3>1
    <3>3. QED
      BY <2>1, <3>1, <3>2
  <2>3. QED
    BY <2>1, <2>2 DEF News
<1> HIDE DEF missing
<1>3. ASSUME NEW c \in Client, NEW l \in List
      PROVE  LatestTrue(c, l)' /\ asked'[c][l] \in Seq(Fetch)
  <2>1. asked[c][l] \in Seq(Fetch)
    BY DEF ListInv, ClientShape
  <2>2. CASE c \in missing
    <3>1. asked'[c][l] = Late(Answers(asked[c][l])) /\ <<c, l>> \in crossed'
      BY <1>1, <2>2
    <3>2. Answers(asked[c][l]) \in Seq(Fetch)
      BY <2>1, AnswersAre
    <3>3. QED
      BY <3>1, <3>2, Misses
  <2>3. CASE c \notin missing
    <3>1. asked'[c][l] = asked[c][l]
      BY <1>1, <2>3
    <3>2. ~News(c) /\ ListOf(c, l)' = ListOf(c, l)
      BY <1>1, <1>2, <2>3, SameList
    <3>3. QED
      BY <1>1, <2>1, <3>1, <3>2, LatestKept DEF ListInv
  <2>4. QED
    BY <2>2, <2>3
<1>4. ClientShape'
  <2>1. told' \in [Client -> Nat]
    BY <1>1
  <2>2. asked' \in [Client -> [List -> Seq(Fetch)]]
    <3>1. \A c \in Client : asked'[c] = [l \in List |-> asked'[c][l]]
      BY <1>1
    <3>2. \A c \in Client : asked'[c] \in [List -> Seq(Fetch)]
      BY <1>3, <3>1
    <3>3. asked' = [c \in Client |-> asked'[c]]
      BY <1>1
    <3>4. QED
      BY <3>2, <3>3
  <2>3. QED
    BY <1>1, <2>1, <2>2 DEF ListInv, ClientShape
<1>5. \A a \in User : UnblockOK(a)'
  BY <1>1 DEF UnblockOK
<1>6. QED
  BY <1>3, <1>4, <1>5 DEF ListInv

LEMMA ListStay ==
  ASSUME ListInv, UNCHANGED <<rel, inbox, calls, told, shown, asked, crossed>>
  PROVE  ListInv'
<1>1. \A a \in User : UnblockOK(a)'
  BY DEF ListInv, UnblockOK
<1>2. \A u \in Client : News(u) <=> News(u)'
  BY DEF News, Announces, At
<1>3. \A u \in Client, l \in List : ListOf(u, l)' = ListOf(u, l)
  BY SameList
<1>4. QED
  BY <1>1, <1>2, <1>3, ListsKept

LEMMA ListStep ==
  ASSUME FriendShape, ListInv, FriendsCall \/ FriendsWork \/ BreakCalls \/ UNCHANGED friendVars
  PROVE  ListInv'
<1>1. CASE FriendsCall
  BY <1>1, ListClick DEF FriendsCall
<1>2. CASE FriendsWork
  <2> PICK u \in User :
        \/ CheckBlocked(u) \/ CheckMine(u) \/ CheckTheirs(u) \/ CheckPending(u)
        \/ Write(u)
        \/ \E full \in SUBSET online, answered \in BOOLEAN : Finish(u, full, answered)
        \/ /\ u \in Client
           /\ \/ HandleUpdate(u) \/ Connect(u) \/ Disconnect(u) \/ Reload(u)
              \/ \E l \in List : \E i \in DOMAIN asked[u][l] : ReadList(u, l, i) \/ Arrive(u, l, i) \/ FetchFails(u, l, i)
    BY <1>2 DEF FriendsWork
  <2>1. CASE CheckBlocked(u) \/ CheckMine(u) \/ CheckTheirs(u) \/ CheckPending(u)
    BY <2>1, ListChecks
  <2>2. CASE Write(u) \/ \E full \in SUBSET online, answered \in BOOLEAN : Finish(u, full, answered)
    BY <2>2, ListWrite, ListFinish
  <2>3. CASE u \in Client /\ (HandleUpdate(u) \/ Disconnect(u) \/ Reload(u))
    BY <2>3, ListUpdate, ListDisconnect, ListReload
  <2>4. CASE u \in Client /\ Connect(u)
    BY <2>4, ListStay DEF Connect, store, history
  <2>5. ASSUME u \in Client, NEW l \in List, NEW i \in DOMAIN asked[u][l],
               ReadList(u, l, i) \/ Arrive(u, l, i) \/ FetchFails(u, l, i)
        PROVE  ListInv'
    BY <2>5, ListRead, ListArrive, ListFails
  <2>6. QED
    BY <2>1, <2>2, <2>3, <2>4, <2>5
<1>3. CASE UNCHANGED friendVars
  BY <1>3, ListStay DEF friendVars, store, client, history
<1>4. QED
  BY <1>1, <1>2, <1>3, ListBreak

LEMMA ListInit == FriendsInit => ListInv
<1> SUFFICES ASSUME FriendsInit PROVE ListInv
  OBVIOUS
<1>1. Client \subseteq User /\ FriendShape
  BY FriendsAssumption, FriendInit
<1>2. \A u \in Client, l \in List : Unloaded(u, l) \in Content
  BY <1>1, ListContent
<1>3. ASSUME NEW u \in Client, NEW l \in List
      PROVE  shown[u][l] = ListOf(u, l) /\ asked[u][l] = <<>>
  <2>1. \A v \in Others(u) : <<u, v>> \in Pair
    BY <1>1 DEF Pair, Others
  <2>2. ListOf(u, l) = Unloaded(u, l)
    BY <2>1 DEF FriendsInit, ListOf, Unloaded
  <2>3. QED
    BY <2>2 DEF FriendsInit
<1>4. ClientShape
  <2>1. \A u \in Client : [l \in List |-> Unloaded(u, l)] \in [List -> Content]
    BY <1>2
  <2>2. <<>> \in Seq(Fetch)
    OBVIOUS
  <2>3. QED
    BY <2>1, <2>2 DEF FriendsInit, ClientShape
<1>5. \A a \in User : UnblockOK(a)
  BY DEF FriendsInit, UnblockOK
<1>6. QED
  BY <1>3, <1>4, <1>5 DEF ListInv, LatestTrue

\* When nothing is under way a client shows what the server has of its relationships and
\* requests, however calls, answers, reloads and crashes interleave, unless it missed a
\* frame or an older answer came last.
THEOREM ListsCorrect == ServerSpec => []FriendListsAreTrue
<1>1. ServerInit => FriendShape /\ FriendInv /\ ListInv
  BY FriendInit, ListInit DEF ServerInit
<1>2. FriendShape /\ FriendInv /\ ListInv /\ [ServerNext]_serverVars => (FriendShape /\ FriendInv /\ ListInv)'
  BY FriendStep, ListStep DEF ServerNext, Crash, serverVars
<1>3. ListInv => FriendListsAreTrue
  BY ListsHold
<1>4. QED
  BY <1>1, <1>2, <1>3, PTL DEF ServerSpec
=============================================================================
