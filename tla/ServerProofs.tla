---------------------------- MODULE ServerProofs ----------------------------
(***************************************************************************)
(* Proofs about Server, for any number of users, tokens, sessions and      *)
(* requests at a time, any number of crashes and of writes that fail.      *)
(***************************************************************************)
EXTENDS Server, TLAPS

Queues == {<<>>, <<"users">>, <<"tokens">>, <<"sessions">>,
           <<"tokens", "sessions">>, <<"users", "tokens", "sessions">>}
Elems(q) == {q[i] : i \in DOMAIN q}

\* Before the server listens no request is under way, and a process that has
\* ended holds nothing.
Quiet ==
  /\ up # "serving" => \A h \in Handlers : at[h] = Away
  /\ up = "down" =>
       /\ users = {} /\ record = NoUsers /\ byName = NoNames
       /\ tokens = NoTokens /\ sessions = NoSessions
       /\ saving = <<>> /\ dirty = {}

\* Only one request at a time holds s.mu to write, and it has files to write.
Locked ==
  /\ \A h, g \in Handlers :
       at[h].stage \in Writing /\ at[g].stage \in Writing => h = g
  /\ \A h \in Handlers : at[h].stage \in Writing => saving # <<>>

\* The arguments a request carries are there when they are needed.
Carried ==
  \A h \in Handlers :
    /\ at[h].stage \in {"create", "mint"} => at[h].role \in Roles
    /\ at[h].stage = "deleting" => at[h].user \in UserIds
    /\ at[h].stage \in {"revoke", "revoking"} => at[h].token \in TokenIds

Recorded == \A u \in users : record[u] \in User

\* The users a file holds have names of their own.
StoredNames ==
  file.users # Torn =>
    \A u, v \in UserIds :
      /\ file.users[u] # None /\ file.users[v] # None
      /\ file.users[u].name = file.users[v].name
      => u = v

\* Every identifier in memory or in a file was handed out.
HandedOut ==
  /\ users \cup deleted \cup revoked \subseteq used
  /\ \A t \in TokenIds : tokens[t] # None => t \in used
  /\ file.users # Torn => \A u \in UserIds : file.users[u] # None => u \in used
  /\ file.tokens # Torn => \A t \in TokenIds : file.tokens[t] # None => t \in used

\* No trace of user u in memory, in users.json, in tokens.json.
Gone(u) ==
  u \notin users /\ \A t \in TokenIds : tokens[t] # None => tokens[t].user # u
UserNotStored(u) == file.users # Torn => file.users[u] = None
TokensNotStored(u) ==
  file.tokens # Torn =>
    \A t \in TokenIds : file.tokens[t] # None => file.tokens[t].user # u

\* While a deletion is being saved.
DeletionUnderWay ==
  \A h \in Handlers : at[h].stage = "deleting" =>
    /\ at[h].user \in used /\ Gone(at[h].user)
    /\ "users" \notin Unsaved => UserNotStored(at[h].user)
    /\ "tokens" \notin Unsaved => TokensNotStored(at[h].user)

Inactive(t) == tokens[t] # None => tokens[t].revoked
InactiveStored(t) ==
  file.tokens # Torn /\ file.tokens[t] # None => file.tokens[t].revoked

\* While a revocation is being saved.
RevocationUnderWay ==
  \A h \in Handlers : at[h].stage = "revoking" =>
    /\ at[h].token \in used /\ Inactive(at[h].token)
    /\ "tokens" \notin Unsaved => InactiveStored(at[h].token)

Control == TypeOK /\ Quiet /\ Locked /\ Carried
Names1 == Recorded /\ NamesAgree /\ StoredNames
Lasting == HandedOut /\ DeletedStays /\ DeletionUnderWay /\ RevokedStays /\ RevocationUnderWay
Inv == Control /\ Names1 /\ Synced /\ Lasting

-----------------------------------------------------------------------------
(* The queue of files to write. *)

\* The files a method writes, as a set.
LEMMA QueueElems ==
  /\ Elems(<<>>) = {}
  /\ Elems(<<"users">>) = {"users"}
  /\ Elems(<<"tokens">>) = {"tokens"}
  /\ Elems(<<"sessions">>) = {"sessions"}
  /\ Elems(<<"tokens", "sessions">>) = {"tokens", "sessions"}
  /\ Elems(<<"users", "tokens", "sessions">>) = {"users", "tokens", "sessions"}
<1>1. Elems(<<>>) = {}
  BY DEF Elems
<1>2. \A a : Elems(<<a>>) = {a}
  BY DEF Elems
<1>3. \A a, b : Elems(<<a, b>>) = {a, b}
  BY DEF Elems
<1>4. \A a, b, c : Elems(<<a, b, c>>) = {a, b, c}
  BY DEF Elems
<1> QED BY <1>1, <1>2, <1>3, <1>4

\* Taking the first file off the queue.
LEMMA QueueStep ==
  ASSUME NEW q \in Queues, q # <<>>
  PROVE  /\ Head(q) \in FileNames /\ Head(q) \in Elems(q)
         /\ Tail(q) \in Queues
         /\ Elems(Tail(q)) = Elems(q) \ {Head(q)}
         /\ Len(q) = 1 => Tail(q) = <<>>
         /\ Len(q) # 1 => Tail(q) # <<>>
<1> USE QueueElems DEF Queues, FileNames
<1>1. CASE q = <<"users">>
  BY <1>1
<1>2. CASE q = <<"tokens">>
  BY <1>2
<1>3. CASE q = <<"sessions">>
  BY <1>3
<1>4. CASE q = <<"tokens", "sessions">>
  BY <1>4
<1>5. CASE q = <<"users", "tokens", "sessions">>
  BY <1>5
<1> QED BY <1>1, <1>2, <1>3, <1>4, <1>5

\* One file is written.
LEMMA FileWritten ==
  ASSUME StoreTypeOK, NEW f \in FileNames, NEW left,
         file' = [file EXCEPT ![f] = left]
  PROVE  /\ file'.users = IF f = "users" THEN left ELSE file.users
         /\ file'.tokens = IF f = "tokens" THEN left ELSE file.tokens
         /\ file'.sessions = IF f = "sessions" THEN left ELSE file.sessions
         /\ DOMAIN file' = FileNames
BY DEF StoreTypeOK, FileNames

-----------------------------------------------------------------------------
(* The start. *)

\* Nothing has been stored and nobody asks: the invariant holds at the start.
LEMMA InvInit == Init => Inv
<1> SUFFICES ASSUME Init PROVE Inv
  OBVIOUS
<1> USE ServerAssumption, AuthStoreAssumption DEF Init, StoreInit
<1>1. TypeOK
  BY DEF TypeOK, StoreTypeOK, NoUsers, NoTokens, NoSessions, NoNames, Empty,
         FileNames, Where, Away, Stages, User, Token, Roles
<1>2. Quiet /\ Locked /\ Carried
  BY DEF Quiet, Locked, Carried, Away, Writing
<1>3. Recorded /\ NamesAgree /\ StoredNames
  BY DEF Recorded, NamesAgree, StoredNames, NoNames, Empty, NoUsers
<1>4. Synced
  BY DEF Synced
<1>5. HandedOut /\ DeletedStays /\ RevokedStays
  BY DEF HandedOut, DeletedStays, RevokedStays, Empty, NoUsers, NoTokens
<1>6. DeletionUnderWay /\ RevocationUnderWay
  BY DEF DeletionUnderWay, RevocationUnderWay, Away
<1> QED BY <1>1, <1>2, <1>3, <1>4, <1>5, <1>6 DEF Inv, Control, Names1, Lasting

-----------------------------------------------------------------------------
(* Steps of a request that leave the store alone. *)

\* A request that does not hold s.mu goes on to a stage that does not either.
LEMMA MoveStep ==
  ASSUME Inv, NEW h \in Handlers, NEW w \in Where, up = "serving",
         at[h].stage \notin Writing, w.stage \notin Writing,
         w.stage \in {"create", "mint"} => w.role \in Roles,
         w.stage = "revoke" => w.token \in TokenIds,
         at' = [at EXCEPT ![h] = w], StoreRest
  PROVE  Inv'
<1> USE DEF Inv, Control, Names1, Lasting, StoreRest, Rest, storeVars, memory
<1>1. TypeOK'
  BY DEF TypeOK, StoreTypeOK
<1>2. \A g \in Handlers : at'[g] = IF g = h THEN w ELSE at[g]
  BY DEF TypeOK
<1>3. Quiet' /\ Locked' /\ Carried'
  BY <1>2 DEF Quiet, Locked, Carried, Writing
<1>4. Names1' /\ Synced'
  BY DEF Recorded, NamesAgree, StoredNames, Synced, Unsaved, Held, Current
<1>5. HandedOut' /\ DeletedStays' /\ RevokedStays'
  BY DEF HandedOut, DeletedStays, RevokedStays
<1>6. DeletionUnderWay'
  BY <1>2 DEF DeletionUnderWay, Unsaved, Gone, UserNotStored, TokensNotStored, Writing
<1>7. RevocationUnderWay'
  BY <1>2 DEF RevocationUnderWay, Unsaved, Inactive, InactiveStored, Writing
<1> QED BY <1>1, <1>3, <1>4, <1>5, <1>6, <1>7

\* Where a request can be, spelled out.
LEMMA WhereIs ==
  ASSUME NEW s \in Stages, NEW u \in UserIds \cup {None}, NEW r \in Roles \cup {None},
         NEW t \in TokenIds \cup {None}
  PROVE  /\ [stage |-> s, user |-> u, role |-> r, token |-> t] \in Where
         /\ Away \in Where
BY DEF Where, Away, Stages

\* Whatever the middleware and the checks of the handlers decide, the request
\* ends up where MoveStep allows.
LEMMA Moves ==
  ASSUME Inv, NEW h \in Handlers,
         \/ Arrive(h) \/ FindSession(h) \/ FindUser(h) \/ FindToken(h) \/ Refuse(h)
         \/ CheckCreate(h) \/ CheckDelete(h) \/ CheckPassword(h) \/ CheckRole(h)
         \/ CheckMint(h) \/ CheckRevoke(h) \/ Login(h)
  PROVE  Inv'
<1>1. PICK w \in Where :
        /\ w.stage \notin Writing
        /\ w.stage \in {"create", "mint"} => w.role \in Roles
        /\ w.stage = "revoke" => w.token \in TokenIds
        /\ at' = [at EXCEPT ![h] = w]
  <2> USE WhereIs DEF Goes, Stages, AllRequests, Writing, Roles, Only
  <2>0. TypeOK /\ Recorded
    BY DEF Inv, Control, Names1
  <2>1. CASE Arrive(h)
    <3>1. Goes(h, "open", None, None, None) \/ Goes(h, "guarded", None, None, None)
      BY <2>1 DEF Arrive
    <3> QED BY <3>1
  <2>2. CASE FindSession(h)
    BY <2>2 DEF FindSession
  <2>3. CASE FindUser(h)
    <3>1. CASE at[h].user \in users
      <4>1. record[at[h].user].role \in Roles /\ at[h].user \in UserIds
        BY <2>0, <3>1 DEF Recorded, User, TypeOK, StoreTypeOK
      <4>2. Goes(h, "called", at[h].user, record[at[h].user].role, None)
        BY <2>3, <3>1 DEF FindUser
      <4> QED BY <4>1, <4>2
    <3>2. CASE at[h].user \notin users
      <4>1. Goes(h, "guarded", None, None, None)
        BY <2>3, <3>2 DEF FindUser
      <4> QED BY <4>1
    <3> QED BY <3>1, <3>2
  <2>4. CASE FindToken(h)
    BY <2>0, <2>4 DEF FindToken, TokenActive, TypeOK, StoreTypeOK, Token
  <2>5. CASE Refuse(h)
    BY <2>5 DEF Refuse, Ends, Away
  <2>6. CASE CheckCreate(h)
    BY <2>6 DEF CheckCreate
  <2>7. CASE CheckDelete(h)
    BY <2>7 DEF CheckDelete
  <2>8. CASE CheckPassword(h)
    <3>1. at[h].user \in UserIds \cup {None}
      BY <2>0 DEF TypeOK, Where
    <3>2. PICK u \in UserIds \cup {None} : Goes(h, "password", u, None, None)
      BY <2>8, <3>1 DEF CheckPassword
    <3> QED BY <3>2
  <2>9. CASE CheckRole(h)
    BY <2>9 DEF CheckRole
  <2>10. CASE CheckMint(h)
    BY <2>0, <2>10 DEF CheckMint, TypeOK, Where
  <2>11. CASE CheckRevoke(h)
    BY <2>11 DEF CheckRevoke
  <2>12. CASE Login(h)
    BY <2>12 DEF Login
  <2> QED BY <2>1, <2>2, <2>3, <2>4, <2>5, <2>6, <2>7, <2>8, <2>9, <2>10, <2>11, <2>12
<1>2. up = "serving" /\ at[h].stage \notin Writing /\ StoreRest
  BY DEF Arrive, FindSession, FindUser, FindToken, Refuse, CheckCreate, CheckDelete,
         CheckPassword, CheckRole, CheckMint, CheckRevoke, Login, Only, Handling, Writing
<1> QED BY <1>1, <1>2, MoveStep

-----------------------------------------------------------------------------
(* Calls that change memory. Whoever calls, a request or launch.Start, is in *)
(* S; a request goes on to w and holds s.mu.                                 *)

AtMostOne(S) == \A g, h \in S : g = h

\* Where all requests are after the call.
Called(S, w) ==
  /\ at' = [g \in Handlers |-> IF g \in S THEN w ELSE at[g]]
  /\ S # {} => up = "serving"
  /\ w.stage \in Writing

\* A caller that found s.mu free is the only one to hold it afterwards.
LEMMA ChangeControl ==
  ASSUME Control, Free, up # "down", up' = up, TypeOK', saving' # <<>>,
         NEW S \in SUBSET Handlers, AtMostOne(S), NEW w \in Where, Called(S, w),
         w.stage = "deleting" => w.user \in UserIds,
         w.stage = "revoking" => w.token \in TokenIds
  PROVE  Control'
<1> USE DEF Control
<1>1. \A g \in Handlers : at[g].stage \notin Writing
  BY DEF Locked, Free
<1>2. \A g \in Handlers : at'[g] = IF g \in S THEN w ELSE at[g]
  BY DEF Called
<1>3. Quiet'
  BY <1>2 DEF Quiet, Called
<1>4. Locked'
  BY <1>1, <1>2 DEF Locked, AtMostOne
<1>5. Carried'
  BY <1>2 DEF Carried, Called, Writing
<1> QED BY <1>3, <1>4, <1>5

\* A file that misses a change is in the queue or in dirty.
LEMMA ChangeSynced ==
  ASSUME Synced, Free, up # "down", UNCHANGED <<expired, file, dirty>>,
         "users" \notin Unsaved' => Held'.users = Held.users,
         "tokens" \notin Unsaved' => tokens' = tokens,
         "sessions" \notin Unsaved' => sessions' = sessions
  PROVE  Synced'
<1>1. Unsaved = {}
  BY DEF Free, Unsaved
<1>2. Held.tokens = tokens /\ Held'.tokens = tokens'
  BY DEF Held
<1>3. \A f \in {"users", "tokens"} : Held[f] = IF f = "users" THEN Held.users ELSE Held.tokens
  OBVIOUS
<1>4. \A f \in {"users", "tokens"} : Held'[f] = IF f = "users" THEN Held'.users ELSE Held'.tokens
  OBVIOUS
<1>5. ASSUME NEW f \in {"users", "tokens"} \ (dirty' \cup Unsaved')
      PROVE  file'[f] = Held'[f]
  BY <1>1, <1>2, <1>3, <1>4, <1>5 DEF Synced
<1>6. ASSUME "sessions" \notin dirty' \cup Unsaved'
      PROVE  file'.sessions # Torn /\ Current(file.sessions)' = Current(sessions)'
  BY <1>1, <1>6 DEF Synced, Current
<1> QED BY <1>5, <1>6 DEF Synced

\* Only identifiers that were never handed out appear.
LEMMA ChangeLasting ==
  ASSUME Inv, UNCHANGED <<file, deleted, revoked>>, used \subseteq used',
         users' \subseteq used', \A u \in users' : u \in users \/ u \notin used,
         \A t \in TokenIds : tokens'[t] # None =>
           /\ t \in used'
           /\ \/ /\ tokens[t] # None /\ tokens'[t].user = tokens[t].user
                 /\ tokens[t].revoked => tokens'[t].revoked
              \/ t \notin used /\ tokens'[t].user \in users
  PROVE  HandedOut' /\ DeletedStays' /\ RevokedStays'
<1> USE DEF Inv, Control, Lasting
<1>1. HandedOut'
  BY DEF HandedOut
<1>2. DeletedStays'
  BY DEF HandedOut, DeletedStays
<1>3. RevokedStays'
  BY DEF HandedOut, RevokedStays, TypeOK
<1> QED BY <1>1, <1>2, <1>3

\* What is left to show of a call that changes memory.
LEMMA ChangeKeeps ==
  ASSUME Inv, Free, up # "down", up' = up, TypeOK', saving' # <<>>,
         UNCHANGED <<expired, file, dirty, deleted, revoked>>,
         Recorded', NamesAgree', HandedOut', DeletedStays', RevokedStays', Synced',
         NEW S \in SUBSET Handlers, AtMostOne(S), NEW w \in Where, Called(S, w),
         w.stage = "deleting" =>
           w.user \in UserIds \cap used' /\ Gone(w.user)' /\ {"users", "tokens"} \subseteq Unsaved',
         w.stage = "revoking" =>
           w.token \in TokenIds \cap used' /\ Inactive(w.token)' /\ "tokens" \in Unsaved'
  PROVE  Inv'
<1> USE DEF Inv
<1>1. Control'
  BY ChangeControl
<1>2. StoredNames'
  BY DEF Names1, StoredNames
<1>3. \A g \in Handlers : at[g].stage \notin Writing
  BY DEF Control, Locked, Free
<1>4. \A g \in Handlers : at'[g] = IF g \in S THEN w ELSE at[g]
  BY DEF Called
<1>5. DeletionUnderWay'
  BY <1>3, <1>4 DEF DeletionUnderWay, Gone, Writing
<1>6. RevocationUnderWay'
  BY <1>3, <1>4 DEF RevocationUnderWay, Inactive, Writing
<1> QED BY <1>1, <1>2, <1>5, <1>6 DEF Names1, Lasting

\* A call that keeps the types of the store keeps the other types too.
LEMMA CalledType ==
  ASSUME TypeOK, StoreTypeOK', UNCHANGED <<up, deleted, revoked>>,
         used' \in SUBSET (UserIds \cup TokenIds \cup SessionIds),
         NEW S \in SUBSET Handlers, NEW w \in Where, Called(S, w)
  PROVE  TypeOK'
BY DEF TypeOK, Called

\* What the holder of s.mu still has to write.
LEMMA UnsavedElems == Unsaved = Elems(saving) /\ Unsaved' = Elems(saving')
BY DEF Unsaved, Elems

\* One user is added.
LEMMA CreateUserKeeps ==
  ASSUME Inv, up # "down", UNCHANGED <<up, deleted, revoked>>,
         NEW u \in UserIds \ used, NEW n \in Names, NEW p \in Passwords, NEW r \in Roles,
         CreateUser(u, n, p, r), used' = used \cup {u},
         NEW S \in SUBSET Handlers, AtMostOne(S), NEW w \in Where, Called(S, w),
         w.stage = "write"
  PROVE  Inv'
<1> USE DEF CreateUser
<1>0. TypeOK /\ StoreTypeOK /\ Recorded /\ NamesAgree /\ HandedOut /\ Synced
  BY DEF Inv, Control, Names1, Lasting, TypeOK
<1>1. [name |-> n, password |-> p, role |-> r] \in User
  BY DEF User
<1>2. saving' = <<"users">> /\ Unsaved' = {"users"}
  BY UnsavedElems, QueueElems
<1>3. TypeOK'
  <2>1. StoreTypeOK'
    BY <1>0, <1>1, <1>2 DEF StoreTypeOK
  <2> QED BY <1>0, <2>1, CalledType DEF TypeOK
<1>4. Recorded' /\ NamesAgree'
  <2>1. u \notin users
    BY <1>0 DEF HandedOut
  <2>2. users' = users \cup {u} /\ \A v \in UserIds :
          record'[v] = IF v = u THEN [name |-> n, password |-> p, role |-> r] ELSE record[v]
    BY <1>0 DEF StoreTypeOK
  <2>3. \A m \in Names : byName'[m] = IF m = n THEN u ELSE byName[m]
    BY <1>0 DEF StoreTypeOK
  <2>4. byName[n] = None
    OBVIOUS
  <2>5. Recorded'
    BY <1>0, <1>1, <2>2 DEF Recorded, StoreTypeOK
  <2>6. NamesAgree'
    BY <1>0, <2>1, <2>2, <2>3, <2>4, AuthStoreAssumption DEF NamesAgree
  <2> QED BY <2>5, <2>6
<1>5. Synced'
  BY <1>0, <1>2, ChangeSynced
<1>6. HandedOut' /\ DeletedStays' /\ RevokedStays'
  BY <1>0, ChangeLasting DEF HandedOut
<1> QED BY <1>2, <1>3, <1>4, <1>5, <1>6, ChangeKeeps

\* The record of a user changes, not its name.
LEMMA UpdateUserKeeps ==
  ASSUME Inv, up # "down", UNCHANGED <<up, used, deleted, revoked>>, NEW u \in UserIds,
         \/ \E p \in Passwords : UpdatePassword(u, p)
         \/ \E r \in Roles : UpdateRole(u, r),
         NEW S \in SUBSET Handlers, AtMostOne(S), NEW w \in Where, Called(S, w),
         w.stage = "write"
  PROVE  Inv'
<1>0. TypeOK /\ StoreTypeOK /\ Recorded /\ NamesAgree /\ HandedOut /\ Synced
  BY DEF Inv, Control, Names1, Lasting, TypeOK
<1>1. /\ Free /\ u \in users /\ saving' = <<"users">>
      /\ UNCHANGED <<users, byName, tokens, sessions, expired, file, dirty>>
  BY DEF UpdatePassword, UpdateRole
<1>2. record[u] \in User
  BY <1>0, <1>1 DEF Recorded
<1>3. PICK x \in User : x.name = record[u].name /\ record' = [record EXCEPT ![u] = x]
  <2>1. CASE \E p \in Passwords : UpdatePassword(u, p)
    <3>1. PICK p \in Passwords : record' = [record EXCEPT ![u].password = p]
      BY <2>1 DEF UpdatePassword
    <3>2. [record[u] EXCEPT !.password = p] \in User
          /\ [record[u] EXCEPT !.password = p].name = record[u].name
      BY <1>2 DEF User
    <3>3. record' = [record EXCEPT ![u] = [record[u] EXCEPT !.password = p]]
      BY <3>1
    <3> QED BY <3>2, <3>3
  <2>2. CASE \E r \in Roles : UpdateRole(u, r)
    <3>1. PICK r \in Roles : record' = [record EXCEPT ![u].role = r]
      BY <2>2 DEF UpdateRole
    <3>2. [record[u] EXCEPT !.role = r] \in User
          /\ [record[u] EXCEPT !.role = r].name = record[u].name
      BY <1>2 DEF User
    <3>3. record' = [record EXCEPT ![u] = [record[u] EXCEPT !.role = r]]
      BY <3>1
    <3> QED BY <3>2, <3>3
  <2> QED BY <2>1, <2>2
<1>4. Unsaved' = {"users"}
  BY <1>1, UnsavedElems, QueueElems
<1>5. \A v \in UserIds : record'[v] = IF v = u THEN x ELSE record[v]
  BY <1>0, <1>3 DEF StoreTypeOK
<1>6. TypeOK'
  <2>1. StoreTypeOK'
    BY <1>0, <1>1, <1>3, <1>4 DEF StoreTypeOK, UpdatePassword, UpdateRole
  <2> QED BY <1>0, <2>1, CalledType DEF TypeOK
<1>7. Recorded' /\ NamesAgree'
  BY <1>0, <1>1, <1>3, <1>5 DEF Recorded, NamesAgree, StoreTypeOK
<1>8. Synced'
  BY <1>0, <1>1, <1>4, ChangeSynced
<1>9. HandedOut' /\ DeletedStays' /\ RevokedStays'
  BY <1>0, <1>1, ChangeLasting DEF HandedOut
<1> QED BY <1>1, <1>6, <1>7, <1>8, <1>9, ChangeKeeps

\* A user disappears from memory with all it had.
LEMMA DeleteUserKeeps ==
  ASSUME Inv, up # "down", UNCHANGED <<up, used, deleted, revoked>>,
         NEW u \in UserIds, DeleteUser(u),
         NEW S \in SUBSET Handlers, AtMostOne(S), NEW w \in Where, Called(S, w),
         w.stage = "deleting", w.user = u
  PROVE  Inv'
<1> USE DEF DeleteUser
<1>0. TypeOK /\ StoreTypeOK /\ Recorded /\ NamesAgree /\ HandedOut /\ Synced
  BY DEF Inv, Control, Names1, Lasting, TypeOK
<1>2. /\ saving' = <<"users", "tokens", "sessions">>
      /\ Unsaved' = {"users", "tokens", "sessions"}
  BY UnsavedElems, QueueElems
<1>3. record[u] \in User /\ record[u].name \in Names
  BY <1>0 DEF Recorded, User
<1>4. \A t \in TokenIds :
        tokens'[t] = IF tokens[t] # None /\ tokens[t].user = u THEN None ELSE tokens[t]
  BY <1>0 DEF StoreTypeOK
<1>5. TypeOK'
  <2>1. tokens' \in [TokenIds -> Token \cup {None}]
    BY <1>0 DEF StoreTypeOK
  <2>2. sessions' \in [SessionIds -> UserIds \cup {None}]
    BY <1>0 DEF StoreTypeOK
  <2>3. users' \in SUBSET UserIds /\ byName' \in [Names -> UserIds \cup {None}]
    BY <1>0 DEF StoreTypeOK
  <2>4. StoreTypeOK'
    BY <1>0, <1>2, <2>1, <2>2, <2>3 DEF StoreTypeOK
  <2> QED BY <1>0, <2>4, CalledType DEF TypeOK
<1>6. Recorded' /\ NamesAgree'
  <2>1. \A n \in Names : byName'[n] = IF n = record[u].name THEN None ELSE byName[n]
    BY <1>0 DEF StoreTypeOK
  <2>2. users' = users \ {u} /\ record' = record
    OBVIOUS
  <2>3. byName[record[u].name] = u
    BY <1>0, <1>3 DEF NamesAgree
  <2> QED BY <1>0, <1>3, <2>1, <2>2, <2>3, AuthStoreAssumption DEF Recorded, NamesAgree
<1>7. Synced'
  BY <1>0, <1>2, ChangeSynced
<1>8. HandedOut' /\ DeletedStays' /\ RevokedStays'
  BY <1>0, <1>4, ChangeLasting DEF HandedOut
<1>9. Gone(u)' /\ u \in used'
  BY <1>0, <1>4 DEF Gone, HandedOut
<1> QED BY <1>2, <1>5, <1>6, <1>7, <1>8, <1>9, ChangeKeeps DEF DeleteUser

\* One token is added, of a user that is there.
LEMMA CreateTokenKeeps ==
  ASSUME Inv, up # "down", UNCHANGED <<up, deleted, revoked>>,
         NEW t \in TokenIds \ used, NEW u \in UserIds, NEW r \in Roles,
         CreateToken(t, u, r), used' = used \cup {t},
         NEW S \in SUBSET Handlers, AtMostOne(S), NEW w \in Where, Called(S, w),
         w.stage = "write"
  PROVE  Inv'
<1> USE DEF CreateToken
<1>0. TypeOK /\ StoreTypeOK /\ Recorded /\ NamesAgree /\ HandedOut /\ Synced
  BY DEF Inv, Control, Names1, Lasting, TypeOK
<1>1. [user |-> u, role |-> r, revoked |-> FALSE] \in Token
  BY DEF Token
<1>2. saving' = <<"tokens">> /\ Unsaved' = {"tokens"}
  BY UnsavedElems, QueueElems
<1>3. TypeOK'
  <2>1. StoreTypeOK'
    BY <1>0, <1>1, <1>2 DEF StoreTypeOK
  <2> QED BY <1>0, <2>1, CalledType DEF TypeOK
<1>4. \A k \in TokenIds : tokens'[k] =
        IF k = t THEN [user |-> u, role |-> r, revoked |-> FALSE] ELSE tokens[k]
  BY <1>0 DEF StoreTypeOK
<1>5. Recorded' /\ NamesAgree'
  BY <1>0 DEF Recorded, NamesAgree
<1>6. Synced'
  BY <1>0, <1>2, ChangeSynced DEF Held
<1>7. HandedOut' /\ DeletedStays' /\ RevokedStays'
  BY <1>0, <1>4, ChangeLasting DEF HandedOut
<1> QED BY <1>2, <1>3, <1>5, <1>6, <1>7, ChangeKeeps

\* One token is marked.
LEMMA RevokeTokenKeeps ==
  ASSUME Inv, up # "down", UNCHANGED <<up, used, deleted, revoked>>,
         NEW t \in TokenIds, RevokeToken(t),
         NEW S \in SUBSET Handlers, AtMostOne(S), NEW w \in Where, Called(S, w),
         w.stage = "revoking", w.token = t
  PROVE  Inv'
<1> USE DEF RevokeToken
<1>0. TypeOK /\ StoreTypeOK /\ Recorded /\ NamesAgree /\ HandedOut /\ Synced
  BY DEF Inv, Control, Names1, Lasting, TypeOK
<1>1. tokens[t] \in Token
  BY <1>0 DEF StoreTypeOK
<1>2. saving' = <<"tokens">> /\ Unsaved' = {"tokens"}
  BY UnsavedElems, QueueElems
<1>3. PICK x \in Token : /\ x.user = tokens[t].user /\ x.revoked
                         /\ tokens' = [tokens EXCEPT ![t] = x]
  <2>1. [tokens[t] EXCEPT !.revoked = TRUE] \in Token
        /\ [tokens[t] EXCEPT !.revoked = TRUE].user = tokens[t].user
        /\ [tokens[t] EXCEPT !.revoked = TRUE].revoked
    BY <1>1 DEF Token
  <2>2. tokens' = [tokens EXCEPT ![t] = [tokens[t] EXCEPT !.revoked = TRUE]]
    OBVIOUS
  <2> QED BY <2>1, <2>2
<1>4. \A k \in TokenIds : tokens'[k] = IF k = t THEN x ELSE tokens[k]
  BY <1>0, <1>3 DEF StoreTypeOK
<1>5. TypeOK'
  <2>0. tokens' \in [TokenIds -> Token \cup {None}]
    BY <1>0, <1>3 DEF StoreTypeOK
  <2> HIDE DEF RevokeToken
  <2>2. UNCHANGED <<users, record, byName, sessions, expired, file, dirty, faults>>
    BY DEF RevokeToken
  <2>1. StoreTypeOK'
    BY <1>0, <1>2, <2>0, <2>2 DEF StoreTypeOK
  <2> QED BY <1>0, <2>1, CalledType DEF TypeOK
<1>6. Recorded' /\ NamesAgree'
  BY <1>0 DEF Recorded, NamesAgree
<1>7. Synced'
  BY <1>0, <1>2, ChangeSynced DEF Held
<1>8. HandedOut' /\ DeletedStays' /\ RevokedStays'
  BY <1>0, <1>3, <1>4, ChangeLasting DEF HandedOut
<1>9. Inactive(t)' /\ t \in used'
  BY <1>0, <1>3, <1>4 DEF Inactive, HandedOut
<1> QED BY <1>2, <1>5, <1>6, <1>7, <1>8, <1>9, ChangeKeeps DEF RevokeToken

\* Sessions come and go; nothing else in memory depends on them.
LEMMA SessionsKeep ==
  ASSUME Inv, up # "down", UNCHANGED <<up, deleted, revoked>>,
         used \subseteq used', used' \subseteq UserIds \cup TokenIds \cup SessionIds,
         \/ \E s \in SessionIds, u \in UserIds \cup {None} : CreateSession(s, u)
         \/ \E s \in SessionIds : DeleteSession(s)
         \/ PruneSessions,
         NEW S \in SUBSET Handlers, AtMostOne(S), NEW w \in Where, Called(S, w),
         w.stage = "write"
  PROVE  Inv'
<1>0. TypeOK /\ StoreTypeOK /\ Recorded /\ NamesAgree /\ HandedOut /\ Synced
  BY DEF Inv, Control, Names1, Lasting, TypeOK
<1>1. /\ Free /\ saving' = <<"sessions">>
      /\ UNCHANGED <<users, record, byName, tokens, expired, file, dirty, faults>>
  BY DEF CreateSession, DeleteSession, PruneSessions
<1>2. Unsaved' = {"sessions"}
  BY <1>1, UnsavedElems, QueueElems
<1>3. sessions' \in [SessionIds -> UserIds \cup {None}]
  BY <1>0 DEF CreateSession, DeleteSession, PruneSessions, Current, StoreTypeOK
<1>4. TypeOK'
  <2>1. StoreTypeOK'
    BY <1>0, <1>1, <1>3 DEF StoreTypeOK
  <2> QED BY <1>0, <2>1, CalledType
<1>5. Recorded' /\ NamesAgree'
  BY <1>0, <1>1 DEF Recorded, NamesAgree
<1>6. Synced'
  BY <1>0, <1>1, <1>2, ChangeSynced DEF Held
<1>7. HandedOut' /\ DeletedStays' /\ RevokedStays'
  BY <1>0, <1>1, ChangeLasting DEF HandedOut
<1> QED BY <1>1, <1>4, <1>5, <1>6, <1>7, ChangeKeeps

\* A request that has changed memory holds s.mu until its files are written.
LEMMA WritesCalled ==
  ASSUME TypeOK, NEW h \in Handlers, up = "serving", NEW s \in Writing,
         NEW u \in UserIds \cup {None}, NEW t \in TokenIds \cup {None}, Writes(h, s, u, t)
  PROVE  /\ UNCHANGED <<up, deleted, revoked>> /\ AtMostOne({h})
         /\ \E w \in Where : w.stage = s /\ w.user = u /\ w.token = t /\ Called({h}, w)
<1> DEFINE w == [stage |-> s, user |-> u, role |-> None, token |-> t]
<1>1. w \in Where
  BY DEF Where, Stages
<1>2. Called({h}, w)
  BY DEF Called, Writes, Goes, TypeOK
<1> QED BY <1>1, <1>2 DEF Writes, AtMostOne

\* Every call of a handler that changes memory keeps the invariant.
LEMMA Changed ==
  ASSUME Inv, NEW h \in Handlers, Changes(h) \/ Logout(h) \/ Prune(h)
  PROVE  Inv'
<1> USE DEF Only, Writing
<1>0. TypeOK /\ Carried
  BY DEF Inv, Control
<1>1. at[h].user \in UserIds \cup {None} /\ at[h].token \in TokenIds \cup {None}
  BY <1>0 DEF TypeOK, Where
<1>2. used \in SUBSET (UserIds \cup TokenIds \cup SessionIds)
  BY <1>0 DEF TypeOK
<1>a. {h} \in SUBSET Handlers /\ AtMostOne({h})
  BY DEF AtMostOne
<1>3. CASE DoCreate(h)
  <2>1. at[h].role \in Roles
    BY <1>0, <1>3 DEF DoCreate, Carried
  <2>2. PICK u \in UserIds \ used, n \in Names, p \in Passwords :
          CreateUser(u, n, p, at[h].role) /\ used' = used \cup {u}
    BY <1>3 DEF DoCreate
  <2>3. up = "serving" /\ Writes(h, "write", None, None)
    BY <1>3 DEF DoCreate
  <2>8. PICK w \in Where : w.stage = "write" /\ Called({h}, w)
    BY <1>0, <2>1, <2>2, <2>3, WritesCalled
  <2>9. up # "down" /\ UNCHANGED <<up, deleted, revoked>>
    BY <1>0, <2>1, <2>2, <2>3, WritesCalled
  <2> QED BY <1>a, <1>0, <2>1, <2>2, <2>3, <2>8, <2>9, CreateUserKeeps
<1>4. CASE DoDelete(h)
  <2>1. up = "serving" /\ DeleteUser(at[h].user) /\ used' = used
        /\ Writes(h, "deleting", at[h].user, None)
    BY <1>4 DEF DoDelete
  <2>2. at[h].user \in UserIds
    BY <1>0, <2>1 DEF DeleteUser, TypeOK, StoreTypeOK
  <2>8. PICK w \in Where : w.stage = "deleting" /\ w.user = at[h].user /\ Called({h}, w)
    <3> DEFINE x == [stage |-> "deleting", user |-> at[h].user, role |-> None, token |-> None]
    <3>1. x \in Where
      BY <1>1 DEF Where, Stages
    <3>2. Called({h}, x)
      BY <1>0, <2>1, <2>2 DEF Called, Writes, Goes, TypeOK
    <3> QED BY <3>1, <3>2
  <2>9. up # "down" /\ UNCHANGED <<up, deleted, revoked>>
    BY <1>0, <2>1, <2>2, WritesCalled
  <2> QED BY <1>a, <1>0, <2>1, <2>2, <2>8, <2>9, DeleteUserKeeps
<1>5. CASE DoPassword(h)
  <2>1. PICK u \in UserIds, p \in Passwords : UpdatePassword(u, p)
    BY <1>5 DEF DoPassword
  <2>2. up = "serving" /\ used' = used /\ Writes(h, "write", None, None)
    BY <1>5 DEF DoPassword
  <2>8. PICK w \in Where : w.stage = "write" /\ Called({h}, w)
    BY <1>0, <2>1, <2>2, WritesCalled
  <2>9. up # "down" /\ UNCHANGED <<up, deleted, revoked>>
    BY <1>0, <2>1, <2>2, WritesCalled
  <2> QED BY <1>a, <1>0, <2>1, <2>2, <2>8, <2>9, UpdateUserKeeps
<1>6. CASE DoRole(h)
  <2>1. PICK u \in UserIds, r \in Roles : UpdateRole(u, r)
    BY <1>6 DEF DoRole
  <2>2. up = "serving" /\ used' = used /\ Writes(h, "write", None, None)
    BY <1>6 DEF DoRole
  <2>8. PICK w \in Where : w.stage = "write" /\ Called({h}, w)
    BY <1>0, <2>1, <2>2, WritesCalled
  <2>9. up # "down" /\ UNCHANGED <<up, deleted, revoked>>
    BY <1>0, <2>1, <2>2, WritesCalled
  <2> QED BY <1>a, <1>0, <2>1, <2>2, <2>8, <2>9, UpdateUserKeeps
<1>7. CASE DoMint(h)
  <2>1. at[h].role \in Roles
    BY <1>0, <1>7 DEF DoMint, Carried
  <2>2. PICK t \in TokenIds \ used :
          CreateToken(t, at[h].user, at[h].role) /\ used' = used \cup {t}
    BY <1>7 DEF DoMint
  <2>3. at[h].user \in UserIds
    BY <1>0, <2>2 DEF CreateToken, TypeOK, StoreTypeOK
  <2>4. up = "serving" /\ Writes(h, "write", None, None)
    BY <1>7 DEF DoMint
  <2>8. PICK w \in Where : w.stage = "write" /\ Called({h}, w)
    BY <1>0, <2>1, <2>2, <2>3, <2>4, WritesCalled
  <2>9. up # "down" /\ UNCHANGED <<up, deleted, revoked>>
    BY <1>0, <2>1, <2>2, <2>3, <2>4, WritesCalled
  <2> QED BY <1>a, <1>0, <2>1, <2>2, <2>3, <2>4, <2>8, <2>9, CreateTokenKeeps
<1>8. CASE DoRevoke(h)
  <2>1. at[h].token \in TokenIds
    BY <1>0, <1>8 DEF DoRevoke, Carried
  <2>2. up = "serving" /\ RevokeToken(at[h].token) /\ used' = used
        /\ Writes(h, "revoking", None, at[h].token)
    BY <1>8 DEF DoRevoke
  <2>8. PICK w \in Where : w.stage = "revoking" /\ w.token = at[h].token /\ Called({h}, w)
    <3> DEFINE x == [stage |-> "revoking", user |-> None, role |-> None, token |-> at[h].token]
    <3>1. x \in Where
      BY <1>1 DEF Where, Stages
    <3>2. Called({h}, x)
      BY <1>0, <2>1, <2>2 DEF Called, Writes, Goes, TypeOK
    <3> QED BY <3>1, <3>2
  <2>9. up # "down" /\ UNCHANGED <<up, deleted, revoked>>
    BY <1>0, <2>1, <2>2, WritesCalled
  <2> QED BY <1>a, <1>0, <2>1, <2>2, <2>8, <2>9, RevokeTokenKeeps
<1>9. CASE DoLogin(h)
  <2>1. PICK s \in SessionIds \ used :
          CreateSession(s, at[h].user) /\ used' = used \cup {s}
    BY <1>9 DEF DoLogin
  <2>2. up = "serving" /\ Writes(h, "write", None, None)
    BY <1>9 DEF DoLogin
  <2>8. PICK w \in Where : w.stage = "write" /\ Called({h}, w)
    BY <1>0, <1>1, <1>2, <2>1, <2>2, WritesCalled
  <2>9. up # "down" /\ UNCHANGED <<up, deleted, revoked>>
    BY <1>0, <1>1, <1>2, <2>1, <2>2, WritesCalled
  <2> QED BY <1>a, <1>0, <1>1, <1>2, <2>1, <2>2, <2>8, <2>9, SessionsKeep
<1>10. CASE Logout(h)
  <2>1. PICK s \in SessionIds : DeleteSession(s)
    BY <1>10 DEF Logout
  <2>2. up = "serving" /\ used' = used /\ Writes(h, "write", None, None)
    BY <1>10 DEF Logout
  <2>8. PICK w \in Where : w.stage = "write" /\ Called({h}, w)
    BY <1>0, <1>2, <2>1, <2>2, WritesCalled
  <2>9. up # "down" /\ UNCHANGED <<up, deleted, revoked>>
    BY <1>0, <1>2, <2>1, <2>2, WritesCalled
  <2> QED BY <1>a, <1>0, <1>2, <2>1, <2>2, <2>8, <2>9, SessionsKeep
<1>11. CASE Prune(h)
  <2>1. PruneSessions /\ up = "serving" /\ used' = used /\ Writes(h, "write", None, None)
    BY <1>11 DEF Prune
  <2>8. PICK w \in Where : w.stage = "write" /\ Called({h}, w)
    BY <1>0, <1>2, <2>1, WritesCalled
  <2>9. up # "down" /\ UNCHANGED <<up, deleted, revoked>>
    BY <1>0, <1>2, <2>1, WritesCalled
  <2> QED BY <1>a, <1>0, <1>2, <2>1, <2>8, <2>9, SessionsKeep
<1> QED BY <1>3, <1>4, <1>5, <1>6, <1>7, <1>8, <1>9, <1>10, <1>11 DEF Changes

\* launch.Start creates the first user; no request is under way.
LEMMA Booted == ASSUME Inv, BootCreate PROVE Inv'
<1> DEFINE w == [Away EXCEPT !.stage = "write"]
<1>1. w \in Where /\ w.stage = "write" /\ "write" \in Writing
  BY DEF Where, Stages, Away, Writing
<1>2. Called({}, w) /\ AtMostOne({})
  BY <1>1 DEF Inv, Control, TypeOK, BootCreate, Called, AtMostOne
<1>3. PICK u \in UserIds \ used, n \in Names, p \in Passwords :
        CreateUser(u, n, p, "admin") /\ used' = used \cup {u}
  BY DEF BootCreate
<1>4. up # "down" /\ UNCHANGED <<up, deleted, revoked>> /\ "admin" \in Roles
  BY DEF BootCreate, Roles
<1>5. {} \in SUBSET Handlers
  OBVIOUS
<1> HIDE DEF w
<1> QED BY <1>1, <1>2, <1>3, <1>4, <1>5, CreateUserKeeps

-----------------------------------------------------------------------------
(* Writing a file. *)

\* Whatever a write leaves, the file holds nothing that neither it nor memory
\* held before.
LEMMA WrittenFile ==
  ASSUME Inv, saving # <<>>, NEW left \in CutShort(Head(saving)),
         file' = [file EXCEPT ![Head(saving)] = left]
  PROVE  /\ file' \in [users : [UserIds -> User \cup {None}] \cup {Torn},
                       tokens : [TokenIds -> Token \cup {None}] \cup {Torn},
                       sessions : [SessionIds -> UserIds \cup {None}] \cup {Torn}]
         /\ StoredNames'
         /\ file'.users # Torn => \A u \in UserIds : file'.users[u] # None => u \in used
         /\ file'.tokens # Torn => \A t \in TokenIds : file'.tokens[t] # None => t \in used
         /\ \A u \in UserIds : Gone(u) /\ UserNotStored(u) => UserNotStored(u)'
         /\ \A u \in UserIds : Gone(u) /\ TokensNotStored(u) => TokensNotStored(u)'
         /\ \A t \in TokenIds : Inactive(t) /\ InactiveStored(t) => InactiveStored(t)'
<1>0. TypeOK /\ StoreTypeOK /\ Recorded /\ NamesAgree /\ StoredNames /\ HandedOut
  BY DEF Inv, Control, Names1, Lasting, TypeOK
<1>1. Head(saving) \in FileNames
  BY <1>0, QueueStep DEF StoreTypeOK, Queues
<1>2. /\ file'.users = IF Head(saving) = "users" THEN left ELSE file.users
      /\ file'.tokens = IF Head(saving) = "tokens" THEN left ELSE file.tokens
      /\ file'.sessions = IF Head(saving) = "sessions" THEN left ELSE file.sessions
      /\ DOMAIN file' = FileNames
  BY <1>0, <1>1, FileWritten
<1>3. CASE Head(saving) = "users"
  <2>1. left \in {file.users, NoUsers, Torn, [u \in UserIds |-> IF u \in users THEN record[u] ELSE None]}
    BY <1>3 DEF CutShort, Empty, Held
  <2>2. left \in [UserIds -> User \cup {None}] \cup {Torn}
    BY <1>0, <2>1 DEF StoreTypeOK, NoUsers, Recorded
  <2>3. file' \in [users : [UserIds -> User \cup {None}] \cup {Torn},
                  tokens : [TokenIds -> Token \cup {None}] \cup {Torn},
                  sessions : [SessionIds -> UserIds \cup {None}] \cup {Torn}]
    BY <1>0, <1>3, <2>2 DEF StoreTypeOK
  <2>4. ASSUME left # Torn, NEW u \in UserIds, left[u] # None
        PROVE  \/ file.users # Torn /\ left = file.users
               \/ u \in users /\ left[u] = record[u] /\ left # file.users
                    /\ \A v \in UserIds : left[v] # None => v \in users /\ left[v] = record[v]
    BY <2>1, <2>4 DEF NoUsers
  <2>5. StoredNames'
    <3> SUFFICES ASSUME left # Torn, NEW u \in UserIds, NEW v \in UserIds,
                        left[u] # None, left[v] # None, left[u].name = left[v].name
                 PROVE  u = v
      BY <1>2, <1>3 DEF StoredNames
    <3>1. CASE file.users # Torn /\ left = file.users
      BY <1>0, <3>1 DEF StoredNames
    <3>2. CASE \A x \in UserIds : left[x] # None => x \in users /\ left[x] = record[x]
      <4>1. u \in users /\ v \in users /\ record[u].name = record[v].name
        BY <3>2
      <4>2. record[u].name \in Names
        BY <1>0, <4>1 DEF Recorded, User
      <4> QED BY <1>0, <4>1, <4>2 DEF NamesAgree
    <3> QED BY <2>4, <3>1, <3>2
  <2>6. file'.users # Torn => \A u \in UserIds : file'.users[u] # None => u \in used
    BY <1>0, <1>2, <1>3, <2>4 DEF HandedOut
  <2>7. \A u \in UserIds : Gone(u) /\ UserNotStored(u) => UserNotStored(u)'
    BY <1>2, <1>3, <2>4 DEF Gone, UserNotStored
  <2> QED BY <1>0, <1>2, <1>3, <2>3, <2>5, <2>6, <2>7
          DEF TokensNotStored, InactiveStored, HandedOut
<1>4. CASE Head(saving) = "tokens"
  <2>1. left \in {file.tokens, NoTokens, Torn, tokens}
    BY <1>4 DEF CutShort, Empty, Held
  <2>2. left \in [TokenIds -> Token \cup {None}] \cup {Torn}
    BY <1>0, <2>1 DEF StoreTypeOK, NoTokens
  <2>3. file' \in [users : [UserIds -> User \cup {None}] \cup {Torn},
                  tokens : [TokenIds -> Token \cup {None}] \cup {Torn},
                  sessions : [SessionIds -> UserIds \cup {None}] \cup {Torn}]
    BY <1>0, <1>4, <2>2 DEF StoreTypeOK
  <2>4. ASSUME left # Torn, NEW t \in TokenIds, left[t] # None
        PROVE  \/ file.tokens # Torn /\ left = file.tokens
               \/ left = tokens
    BY <2>1, <2>4 DEF NoTokens
  <2>5. file'.tokens # Torn => \A t \in TokenIds : file'.tokens[t] # None => t \in used
    BY <1>0, <1>2, <1>4, <2>4 DEF HandedOut
  <2>6. \A u \in UserIds : Gone(u) /\ TokensNotStored(u) => TokensNotStored(u)'
    BY <1>2, <1>4, <2>4 DEF Gone, TokensNotStored
  <2>7. \A t \in TokenIds : Inactive(t) /\ InactiveStored(t) => InactiveStored(t)'
    BY <1>2, <1>4, <2>4 DEF Inactive, InactiveStored
  <2>8. StoredNames'
    BY <1>0, <1>2, <1>4 DEF StoredNames
  <2> QED BY <1>0, <1>2, <1>4, <2>3, <2>5, <2>6, <2>7, <2>8 DEF UserNotStored, HandedOut
<1>5. CASE Head(saving) = "sessions"
  <2>1. left \in {file.sessions, NoSessions, Torn, sessions}
    BY <1>5 DEF CutShort, Empty, Held
  <2>2. left \in [SessionIds -> UserIds \cup {None}] \cup {Torn}
    BY <1>0, <2>1 DEF StoreTypeOK, NoSessions
  <2>3. file' \in [users : [UserIds -> User \cup {None}] \cup {Torn},
                  tokens : [TokenIds -> Token \cup {None}] \cup {Torn},
                  sessions : [SessionIds -> UserIds \cup {None}] \cup {Torn}]
    BY <1>0, <1>5, <2>2 DEF StoreTypeOK
  <2>4. StoredNames'
    BY <1>0, <1>2, <1>5 DEF StoredNames
  <2> QED BY <1>0, <1>2, <1>5, <2>3, <2>4
          DEF UserNotStored, TokensNotStored, InactiveStored, HandedOut
<1> QED BY <1>1, <1>3, <1>4, <1>5 DEF FileNames

\* A finished write removes what memory does not hold any more.
LEMMA FinishedWrite ==
  ASSUME Inv, saving # <<>>, file' = [file EXCEPT ![Head(saving)] = Held[Head(saving)]]
  PROVE  /\ Head(saving) = "users" =>
              /\ file'.users = Held.users
              /\ \A u \in UserIds : Gone(u) => UserNotStored(u)'
         /\ Head(saving) = "tokens" =>
              /\ file'.tokens = tokens
              /\ \A u \in UserIds : Gone(u) => TokensNotStored(u)'
              /\ \A t \in TokenIds : Inactive(t) => InactiveStored(t)'
         /\ Head(saving) = "sessions" => file'.sessions = sessions
<1>0. StoreTypeOK
  BY DEF Inv, Control, TypeOK
<1>1. Head(saving) \in FileNames
  BY <1>0, QueueStep DEF StoreTypeOK, Queues
<1>2. /\ file'.users = IF Head(saving) = "users" THEN Held[Head(saving)] ELSE file.users
      /\ file'.tokens = IF Head(saving) = "tokens" THEN Held[Head(saving)] ELSE file.tokens
      /\ file'.sessions = IF Head(saving) = "sessions" THEN Held[Head(saving)] ELSE file.sessions
  BY <1>0, <1>1, FileWritten
<1>3. ASSUME Head(saving) = "users"
      PROVE  /\ file'.users = Held.users
             /\ \A u \in UserIds : Gone(u) => UserNotStored(u)'
  BY <1>2, <1>3 DEF Held, Gone, UserNotStored
<1>4. ASSUME Head(saving) = "tokens"
      PROVE  /\ file'.tokens = tokens
             /\ \A u \in UserIds : Gone(u) => TokensNotStored(u)'
             /\ \A t \in TokenIds : Inactive(t) => InactiveStored(t)'
  BY <1>2, <1>4 DEF Held, Gone, TokensNotStored, Inactive, InactiveStored
<1>5. ASSUME Head(saving) = "sessions" PROVE file'.sessions = sessions
  BY <1>2, <1>5 DEF Held
<1> QED BY <1>3, <1>4, <1>5

\* After a finished write, for any user and token a request is busy with.
LEMMA SaveProgress ==
  ASSUME Inv, SaveFile, used' = used
  PROVE  /\ StoreTypeOK' /\ Names1' /\ Unsaved' = Unsaved \ {Head(saving)}
         /\ deleted' \cup revoked' \subseteq used => HandedOut'
         /\ \A u \in UserIds :
              /\ Gone(u) => Gone(u)'
              /\ Gone(u) /\ UserNotStored(u) => UserNotStored(u)'
              /\ Gone(u) /\ TokensNotStored(u) => TokensNotStored(u)'
              /\ Gone(u) /\ ("users" \notin Unsaved => UserNotStored(u)) =>
                   ("users" \notin Unsaved' => UserNotStored(u)')
              /\ Gone(u) /\ ("tokens" \notin Unsaved => TokensNotStored(u)) =>
                   ("tokens" \notin Unsaved' => TokensNotStored(u)')
         /\ \A t \in TokenIds :
              /\ Inactive(t) => Inactive(t)'
              /\ Inactive(t) /\ InactiveStored(t) => InactiveStored(t)'
              /\ Inactive(t) /\ ("tokens" \notin Unsaved => InactiveStored(t)) =>
                   ("tokens" \notin Unsaved' => InactiveStored(t)')
<1> USE DEF SaveFile, memory
<1>0. TypeOK /\ StoreTypeOK /\ Recorded /\ NamesAgree /\ HandedOut
  BY DEF Inv, Control, Names1, Lasting, TypeOK
<1>1. /\ Head(saving) \in FileNames /\ saving' \in Queues
      /\ Unsaved' = Unsaved \ {Head(saving)}
  BY <1>0, QueueStep, UnsavedElems DEF StoreTypeOK, Queues
<1>2. Held[Head(saving)] \in CutShort(Head(saving))
  BY DEF CutShort
<1>3. StoreTypeOK'
  BY <1>0, <1>1, <1>2, WrittenFile DEF StoreTypeOK, Queues
<1>4. Names1'
  BY <1>0, <1>2, WrittenFile DEF Names1, Recorded, NamesAgree
<1>5. deleted' \cup revoked' \subseteq used => HandedOut'
  BY <1>0, <1>2, WrittenFile DEF HandedOut
<1>6. ASSUME NEW u \in UserIds
      PROVE  /\ Gone(u) => Gone(u)'
             /\ Gone(u) /\ UserNotStored(u) => UserNotStored(u)'
             /\ Gone(u) /\ TokensNotStored(u) => TokensNotStored(u)'
             /\ Gone(u) /\ ("users" \notin Unsaved => UserNotStored(u)) =>
                  ("users" \notin Unsaved' => UserNotStored(u)')
             /\ Gone(u) /\ ("tokens" \notin Unsaved => TokensNotStored(u)) =>
                  ("tokens" \notin Unsaved' => TokensNotStored(u)')
  <2>1. Gone(u) => Gone(u)'
    BY DEF Gone
  <2>2. /\ Gone(u) /\ UserNotStored(u) => UserNotStored(u)'
        /\ Gone(u) /\ TokensNotStored(u) => TokensNotStored(u)'
    BY <1>2, WrittenFile
  <2>3. /\ Head(saving) = "users" /\ Gone(u) => UserNotStored(u)'
        /\ Head(saving) = "tokens" /\ Gone(u) => TokensNotStored(u)'
    BY FinishedWrite
  <2> QED BY <1>1, <2>1, <2>2, <2>3
<1>7. ASSUME NEW t \in TokenIds
      PROVE  /\ Inactive(t) => Inactive(t)'
             /\ Inactive(t) /\ InactiveStored(t) => InactiveStored(t)'
             /\ Inactive(t) /\ ("tokens" \notin Unsaved => InactiveStored(t)) =>
                  ("tokens" \notin Unsaved' => InactiveStored(t)')
  <2>1. Inactive(t) => Inactive(t)'
    BY DEF Inactive
  <2>2. Inactive(t) /\ InactiveStored(t) => InactiveStored(t)'
    BY <1>2, WrittenFile
  <2>3. Head(saving) = "tokens" /\ Inactive(t) => InactiveStored(t)'
    BY FinishedWrite
  <2> QED BY <1>1, <2>1, <2>2, <2>3
<1> QED BY <1>1, <1>3, <1>4, <1>5, <1>6, <1>7

\* A finished write brings a file up to date.
LEMMA SaveSynced ==
  ASSUME Inv, SaveFile, up # "down" PROVE Synced'
<1> USE DEF SaveFile, memory
<1>0. StoreTypeOK /\ Synced
  BY DEF Inv, Control, TypeOK
<1>1. Head(saving) \in FileNames /\ Unsaved' = Unsaved \ {Head(saving)}
  BY <1>0, QueueStep, UnsavedElems DEF StoreTypeOK, Queues
<1>2. Held' = Held
  BY DEF Held
<1>3. /\ file'.users = IF Head(saving) = "users" THEN Held.users ELSE file.users
      /\ file'.tokens = IF Head(saving) = "tokens" THEN Held.tokens ELSE file.tokens
      /\ file'.sessions = IF Head(saving) = "sessions" THEN sessions ELSE file.sessions
  <2>1. /\ file'.users = IF Head(saving) = "users" THEN Held[Head(saving)] ELSE file.users
        /\ file'.tokens = IF Head(saving) = "tokens" THEN Held[Head(saving)] ELSE file.tokens
        /\ file'.sessions = IF Head(saving) = "sessions" THEN Held[Head(saving)] ELSE file.sessions
    BY <1>0, <1>1, FileWritten
  <2>2. Held.sessions = sessions
    BY DEF Held
  <2> QED BY <2>1, <2>2
<1>4. ASSUME NEW f \in {"users", "tokens"} \ (dirty' \cup Unsaved')
      PROVE  file'[f] = Held'[f]
  <2>1. CASE f = Head(saving)
    BY <1>2, <1>3, <2>1
  <2>2. CASE f # Head(saving)
    <3>1. file[f] = Held[f]
      BY <1>0, <1>1, <1>4, <2>2 DEF Synced
    <3> QED BY <1>2, <1>3, <2>2, <3>1
  <2> QED BY <2>1, <2>2
<1>5. ASSUME "sessions" \notin dirty' \cup Unsaved'
      PROVE  file'.sessions # Torn /\ Current(file.sessions)' = Current(sessions)'
  <2>1. CASE Head(saving) = "sessions"
    BY <1>0, <1>3, <2>1, AuthStoreAssumption DEF StoreTypeOK, Current
  <2>2. CASE Head(saving) # "sessions"
    BY <1>0, <1>1, <1>3, <1>5, <2>2 DEF Synced, Current
  <2> QED BY <2>1, <2>2
<1> QED BY <1>4, <1>5 DEF Synced

\* The holder of s.mu writes a file; after the last one it is answered, and by
\* then no file knows the user it deleted or the token it revoked as active.
LEMMA Saved ==
  ASSUME Inv, NEW h \in Handlers, Save(h)
  PROVE  Inv'
<1>0. TypeOK /\ StoreTypeOK /\ Quiet /\ Locked /\ Carried /\ HandedOut
      /\ DeletionUnderWay /\ RevocationUnderWay /\ DeletedStays /\ RevokedStays
  BY DEF Inv, Control, Lasting, TypeOK
<1>1. /\ up = "serving" /\ at[h].stage \in Writing /\ SaveFile /\ used' = used /\ up' = up
      /\ IF Len(saving) = 1 THEN Answered(h, TRUE) ELSE UNCHANGED <<at, deleted, revoked>>
  BY DEF Save, Answered
<1>2. /\ at[h].stage = "deleting" => at[h].user \in UserIds \cap used
      /\ at[h].stage = "revoking" => at[h].token \in TokenIds \cap used
  BY <1>0 DEF Carried, DeletionUnderWay, RevocationUnderWay
<1>3. \A g \in Handlers : at'[g] = at[g] \/ (g = h /\ at'[g] = Away /\ saving' = <<>>)
  <2>1. CASE Len(saving) = 1
    <3>1. saving' = <<>>
      BY <1>0, <1>1, <2>1, QueueStep DEF SaveFile, StoreTypeOK, Queues
    <3> QED BY <1>0, <1>1, <2>1, <3>1 DEF Answered, Ends, TypeOK
  <2>2. CASE Len(saving) # 1
    BY <1>1, <2>2
  <2> QED BY <2>1, <2>2
<1>4. /\ \A u \in deleted' : u \in deleted
           \/ (at[h].stage = "deleting" /\ u = at[h].user /\ Unsaved' = {})
      /\ \A t \in revoked' : t \in revoked
           \/ (at[h].stage = "revoking" /\ t = at[h].token /\ Unsaved' = {})
      /\ deleted' \in SUBSET UserIds /\ revoked' \in SUBSET TokenIds
  <2>1. CASE Len(saving) = 1
    <3>1. Unsaved' = {}
      BY <1>0, <1>1, <2>1, QueueStep, QueueElems, UnsavedElems DEF SaveFile, StoreTypeOK, Queues
    <3> QED BY <1>0, <1>1, <1>2, <2>1, <3>1 DEF Answered, TypeOK
  <2>2. CASE Len(saving) # 1
    BY <1>0, <1>1, <2>2 DEF TypeOK
  <2> QED BY <2>1, <2>2
<1>5. TypeOK'
  <2>1. at' \in [Handlers -> Where]
    BY <1>0, <1>1, WhereIs DEF TypeOK, Answered, Ends, Where, Away, Stages
  <2>2. StoreTypeOK'
    BY <1>1, SaveProgress
  <2> QED BY <1>0, <1>1, <1>4, <2>1, <2>2 DEF TypeOK
<1>6. Quiet'
  BY <1>1 DEF Quiet
<1>7. Locked'
  <2>1. \A g \in Handlers : at[g].stage \in Writing => g = h
    BY <1>0, <1>1 DEF Locked
  <2>2. Away.stage \notin Writing
    BY DEF Away, Writing
  <2>3. at'[h] = Away \/ saving' # <<>>
    BY <1>0, <1>1, QueueStep DEF Answered, Ends, TypeOK, SaveFile, StoreTypeOK, Queues
  <2> QED BY <1>3, <2>1, <2>2, <2>3 DEF Locked
<1>8. Carried'
  BY <1>0, <1>3 DEF Carried, Away
<1>9. Names1' /\ Synced'
  BY <1>1, SaveProgress, SaveSynced
<1>10. HandedOut'
  BY <1>0, <1>1, <1>2, <1>4, SaveProgress DEF HandedOut
<1>11. DeletedStays'
  <2>1. \A u \in deleted' : Gone(u)' /\ UserNotStored(u)' /\ TokensNotStored(u)'
    <3> SUFFICES ASSUME NEW u \in deleted' PROVE Gone(u)' /\ UserNotStored(u)' /\ TokensNotStored(u)'
      OBVIOUS
    <3>1. CASE u \in deleted
      <4>1. Gone(u) /\ UserNotStored(u) /\ TokensNotStored(u) /\ u \in UserIds
        BY <1>0, <3>1 DEF DeletedStays, Gone, UserNotStored, TokensNotStored, TypeOK
      <4> QED BY <1>1, <4>1, SaveProgress
    <3>2. CASE at[h].stage = "deleting" /\ u = at[h].user /\ Unsaved' = {}
      <4>1. /\ Gone(u) /\ u \in UserIds
            /\ "users" \notin Unsaved => UserNotStored(u)
            /\ "tokens" \notin Unsaved => TokensNotStored(u)
        BY <1>0, <1>2, <3>2 DEF DeletionUnderWay
      <4>2. "users" \notin Unsaved' /\ "tokens" \notin Unsaved'
        BY <3>2
      <4> QED BY <1>1, <4>1, <4>2, SaveProgress
    <3> QED BY <1>4, <3>1, <3>2
  <2> QED BY <2>1 DEF DeletedStays, Gone, UserNotStored, TokensNotStored
<1>12. RevokedStays'
  <2>1. \A t \in revoked' : Inactive(t)' /\ InactiveStored(t)'
    <3> SUFFICES ASSUME NEW t \in revoked' PROVE Inactive(t)' /\ InactiveStored(t)'
      OBVIOUS
    <3>1. CASE t \in revoked
      <4>1. Inactive(t) /\ InactiveStored(t) /\ t \in TokenIds
        BY <1>0, <3>1 DEF RevokedStays, Inactive, InactiveStored, TypeOK
      <4> QED BY <1>1, <4>1, SaveProgress
    <3>2. CASE at[h].stage = "revoking" /\ t = at[h].token /\ Unsaved' = {}
      <4>1. /\ Inactive(t) /\ t \in TokenIds
            /\ "tokens" \notin Unsaved => InactiveStored(t)
        BY <1>0, <1>2, <3>2 DEF RevocationUnderWay
      <4>2. "tokens" \notin Unsaved'
        BY <3>2
      <4> QED BY <1>1, <4>1, <4>2, SaveProgress
    <3> QED BY <1>4, <3>1, <3>2
  <2> QED BY <2>1 DEF RevokedStays, Inactive, InactiveStored
<1>13. DeletionUnderWay'
  <2> SUFFICES ASSUME NEW g \in Handlers, at'[g] = at[g], at[g].stage = "deleting"
               PROVE  /\ at[g].user \in used' /\ Gone(at[g].user)'
                      /\ "users" \notin Unsaved' => UserNotStored(at[g].user)'
                      /\ "tokens" \notin Unsaved' => TokensNotStored(at[g].user)'
    BY <1>3 DEF DeletionUnderWay, Away, Gone, UserNotStored, TokensNotStored
  <2>1. at[g].user \in UserIds
    BY <1>0 DEF Carried
  <2> QED BY <1>0, <1>1, <2>1, SaveProgress DEF DeletionUnderWay
<1>14. RevocationUnderWay'
  <2> SUFFICES ASSUME NEW g \in Handlers, at'[g] = at[g], at[g].stage = "revoking"
               PROVE  /\ at[g].token \in used' /\ Inactive(at[g].token)'
                      /\ "tokens" \notin Unsaved' => InactiveStored(at[g].token)'
    BY <1>3 DEF RevocationUnderWay, Away, Inactive, InactiveStored
  <2>1. at[g].token \in TokenIds
    BY <1>0 DEF Carried
  <2> QED BY <1>0, <1>1, <2>1, SaveProgress DEF RevocationUnderWay
<1> QED BY <1>5, <1>6, <1>7, <1>8, <1>9, <1>10, <1>11, <1>12, <1>13, <1>14
        DEF Inv, Control, Lasting

\* The first user is saved and the server listens.
LEMMA BootSaved ==
  ASSUME Inv, BootSave
  PROVE  Inv'
<1>0. TypeOK /\ StoreTypeOK /\ Quiet /\ Locked /\ HandedOut /\ DeletedStays /\ RevokedStays
  BY DEF Inv, Control, Lasting, TypeOK
<1>1. /\ up = "boot" /\ up' = "serving" /\ SaveFile
      /\ UNCHANGED <<at, used, deleted, revoked>> /\ \A g \in Handlers : at[g] = Away
  BY <1>0 DEF BootSave, Quiet
<1>2. TypeOK'
  BY <1>0, <1>1, SaveProgress DEF TypeOK
<1>3. Quiet' /\ Locked' /\ Carried' /\ DeletionUnderWay' /\ RevocationUnderWay'
  BY <1>1 DEF Quiet, Locked, Carried, DeletionUnderWay, RevocationUnderWay, Away, Writing
<1>4. Names1' /\ Synced' /\ HandedOut'
  BY <1>0, <1>1, SaveProgress, SaveSynced DEF HandedOut
<1>5. DeletedStays'
  <2>1. \A u \in deleted : Gone(u)' /\ UserNotStored(u)' /\ TokensNotStored(u)'
    <3> SUFFICES ASSUME NEW u \in deleted PROVE Gone(u)' /\ UserNotStored(u)' /\ TokensNotStored(u)'
      OBVIOUS
    <3>1. Gone(u) /\ UserNotStored(u) /\ TokensNotStored(u) /\ u \in UserIds
      BY <1>0 DEF DeletedStays, Gone, UserNotStored, TokensNotStored, TypeOK
    <3> QED BY <1>1, <3>1, SaveProgress
  <2> QED BY <1>1, <2>1 DEF DeletedStays, Gone, UserNotStored, TokensNotStored
<1>6. RevokedStays'
  <2>1. \A t \in revoked : Inactive(t)' /\ InactiveStored(t)'
    <3> SUFFICES ASSUME NEW t \in revoked PROVE Inactive(t)' /\ InactiveStored(t)'
      OBVIOUS
    <3>1. Inactive(t) /\ InactiveStored(t) /\ t \in TokenIds
      BY <1>0 DEF RevokedStays, Inactive, InactiveStored, TypeOK
    <3> QED BY <1>1, <3>1, SaveProgress
  <2> QED BY <1>1, <2>1 DEF RevokedStays, Inactive, InactiveStored
<1> QED BY <1>2, <1>3, <1>4, <1>5, <1>6 DEF Inv, Control, Lasting

\* A write that is not finished, by a request that goes on or a process that
\* ends: what was gone for good stays so.
LEMMA UnfinishedKeeps ==
  ASSUME Inv, saving # <<>>, WriteUnfinished,
         UNCHANGED <<used, deleted, revoked>>,
         \/ UNCHANGED memory
         \/ Forgotten
  PROVE  HandedOut' /\ StoredNames' /\ DeletedStays' /\ RevokedStays'
<1>0. TypeOK /\ StoreTypeOK /\ HandedOut /\ DeletedStays /\ RevokedStays
  BY DEF Inv, Control, Lasting, TypeOK
<1>1. PICK left \in CutShort(Head(saving)) : file' = [file EXCEPT ![Head(saving)] = left]
  BY DEF WriteUnfinished
<1>2. /\ users' \subseteq users
      /\ \A t \in TokenIds : tokens'[t] # None => tokens'[t] = tokens[t]
  BY DEF memory, Forgotten, NoTokens
<1>3. HandedOut' /\ StoredNames'
  BY <1>0, <1>1, <1>2, WrittenFile DEF HandedOut
<1>4. DeletedStays'
  <2>1. \A u \in deleted : Gone(u)' /\ UserNotStored(u)' /\ TokensNotStored(u)'
    <3> SUFFICES ASSUME NEW u \in deleted PROVE Gone(u)' /\ UserNotStored(u)' /\ TokensNotStored(u)'
      OBVIOUS
    <3>1. Gone(u) /\ UserNotStored(u) /\ TokensNotStored(u) /\ u \in UserIds
      BY <1>0 DEF DeletedStays, Gone, UserNotStored, TokensNotStored, TypeOK
    <3>2. Gone(u)'
      BY <1>2, <3>1 DEF Gone
    <3> QED BY <1>1, <3>1, <3>2, WrittenFile
  <2> QED BY <2>1 DEF DeletedStays, Gone, UserNotStored, TokensNotStored
<1>5. RevokedStays'
  <2>1. \A t \in revoked : Inactive(t)' /\ InactiveStored(t)'
    <3> SUFFICES ASSUME NEW t \in revoked PROVE Inactive(t)' /\ InactiveStored(t)'
      OBVIOUS
    <3>1. Inactive(t) /\ InactiveStored(t) /\ t \in TokenIds
      BY <1>0 DEF RevokedStays, Inactive, InactiveStored, TypeOK
    <3>2. Inactive(t)'
      BY <1>2, <3>1 DEF Inactive
    <3> QED BY <1>1, <3>1, <3>2, WrittenFile
  <2> QED BY <2>1 DEF RevokedStays, Inactive, InactiveStored
<1> QED BY <1>3, <1>4, <1>5

\* A write fails and the request is answered with the error: the files it did
\* not write are in dirty, and the user or token it was about is not reported.
LEMMA SaveFailed ==
  ASSUME Inv, NEW h \in Handlers, FailSave(h)
  PROVE  Inv'
<1> USE DEF SaveFails, memory
<1>0. TypeOK /\ StoreTypeOK /\ Recorded /\ NamesAgree /\ Synced /\ Locked /\ Carried
  BY DEF Inv, Control, Names1, TypeOK
<1>1. /\ up = "serving" /\ at[h].stage \in Writing /\ SaveFails /\ Ends(h)
      /\ UNCHANGED <<up, used, deleted, revoked>>
  BY DEF FailSave, Answered
<1>2. /\ Head(saving) \in FileNames /\ Head(saving) \in Unsaved /\ Unsaved \subseteq FileNames
      /\ saving' = <<>> /\ Unsaved' = {}
  BY <1>0, <1>1, QueueStep, QueueElems, UnsavedElems DEF StoreTypeOK, Queues, FileNames
<1>3. PICK left \in CutShort(Head(saving)) : file' = [file EXCEPT ![Head(saving)] = left]
  BY <1>1 DEF WriteUnfinished
<1>4. TypeOK'
  <2>1. at' \in [Handlers -> Where]
    BY <1>0, <1>1, WhereIs DEF TypeOK, Ends, Where, Away, Stages
  <2>2. faults' \in Nat
    BY <1>0, <1>1 DEF WriteUnfinished, StoreTypeOK
  <2>3. StoreTypeOK'
    BY <1>0, <1>1, <1>2, <1>3, <2>2, WrittenFile DEF StoreTypeOK
  <2> QED BY <1>0, <1>1, <2>1, <2>3 DEF TypeOK
<1>5. \A g \in Handlers : at'[g].stage \notin Writing /\ at'[g] \in {at[g], Away}
  <2>1. \A g \in Handlers : at'[g] = IF g = h THEN Away ELSE at[g]
    BY <1>0, <1>1 DEF Ends, TypeOK
  <2>2. \A g \in Handlers : at[g].stage \in Writing => g = h
    BY <1>0, <1>1 DEF Locked
  <2> QED BY <2>1, <2>2 DEF Away, Writing
<1>6. Quiet' /\ Locked' /\ Carried'
  BY <1>0, <1>1, <1>5 DEF Quiet, Locked, Carried, Away
<1>7. DeletionUnderWay' /\ RevocationUnderWay'
  BY <1>5 DEF DeletionUnderWay, RevocationUnderWay, Writing
<1>8. Recorded' /\ NamesAgree'
  BY <1>0, <1>1 DEF Recorded, NamesAgree
<1>9. HandedOut' /\ StoredNames' /\ DeletedStays' /\ RevokedStays'
  BY <1>1, UnfinishedKeeps
<1>10. Synced'
  <2>1. /\ Head(saving) # "users" => file'.users = file.users
        /\ Head(saving) # "tokens" => file'.tokens = file.tokens
        /\ Head(saving) # "sessions" => file'.sessions = file.sessions
    BY <1>0, <1>2, <1>3, FileWritten
  <2>2. Held' = Held /\ dirty' = dirty \cup Unsaved
    BY <1>1 DEF Held
  <2>3. ASSUME NEW f \in {"users", "tokens"} \ (dirty' \cup Unsaved') PROVE file'[f] = Held'[f]
    <3>1. file[f] = Held[f] /\ f # Head(saving)
      BY <1>0, <1>1, <1>2, <2>2, <2>3 DEF Synced
    <3> QED BY <2>1, <2>2, <3>1
  <2>4. ASSUME "sessions" \notin dirty' \cup Unsaved'
        PROVE  file'.sessions # Torn /\ Current(file.sessions)' = Current(sessions)'
    BY <1>0, <1>1, <1>2, <2>1, <2>2, <2>4 DEF Synced, Current
  <2> QED BY <2>3, <2>4 DEF Synced
<1> QED BY <1>4, <1>6, <1>7, <1>8, <1>9, <1>10 DEF Inv, Control, Names1, Lasting
-----------------------------------------------------------------------------
(* The end of the process, and its next start. *)

\* The process ends: memory is lost, and a file may be cut short.
LEMMA Crashed ==
  ASSUME Inv, Crash
  PROVE  Inv'
<1>0. TypeOK /\ StoreTypeOK /\ HandedOut /\ StoredNames /\ DeletedStays /\ RevokedStays
  BY DEF Inv, Control, Names1, Lasting, TypeOK
<1>1. /\ up' = "down" /\ Forgotten /\ saving' = <<>> /\ dirty' = {} /\ expired' = expired
      /\ at' = [h \in Handlers |-> Away] /\ UNCHANGED <<used, deleted, revoked>>
  BY DEF Crash, StoreCrash
<1>2. /\ file' \in [users : [UserIds -> User \cup {None}] \cup {Torn},
                    tokens : [TokenIds -> Token \cup {None}] \cup {Torn},
                    sessions : [SessionIds -> UserIds \cup {None}] \cup {Torn}]
      /\ faults' \in Nat
      /\ HandedOut' /\ StoredNames' /\ DeletedStays' /\ RevokedStays'
  <2>1. CASE saving # <<>> /\ WriteUnfinished
    <3>1. PICK left \in CutShort(Head(saving)) : file' = [file EXCEPT ![Head(saving)] = left]
      BY <2>1 DEF WriteUnfinished
    <3>2. faults' \in Nat
      BY <1>0, <2>1 DEF WriteUnfinished, StoreTypeOK
    <3> QED BY <1>1, <2>1, <3>1, <3>2, WrittenFile, UnfinishedKeeps
  <2>2. CASE UNCHANGED <<file, faults>>
    <3>1. HandedOut' /\ StoredNames'
      BY <1>0, <1>1, <2>2 DEF HandedOut, StoredNames, Forgotten, NoTokens
    <3>2. users' = {} /\ \A t \in TokenIds : tokens'[t] = None
      BY <1>1 DEF Forgotten, NoTokens
    <3>3. DeletedStays'
      BY <1>0, <1>1, <2>2, <3>2 DEF DeletedStays
    <3>4. RevokedStays'
      BY <1>0, <1>1, <2>2, <3>2 DEF RevokedStays, TypeOK
    <3> QED BY <1>0, <2>2, <3>1, <3>3, <3>4 DEF StoreTypeOK
  <2> QED BY <2>1, <2>2 DEF Crash, StoreCrash
<1>3. TypeOK'
  <2>1. at' \in [Handlers -> Where]
    BY <1>1, WhereIs DEF Where, Away, Stages
  <2>2. StoreTypeOK'
    BY <1>0, <1>1, <1>2 DEF StoreTypeOK, Forgotten, NoUsers, NoTokens, NoSessions, NoNames
  <2> QED BY <1>0, <1>1, <2>1, <2>2 DEF TypeOK
<1>4. Quiet' /\ Locked' /\ Carried'
  BY <1>1 DEF Quiet, Locked, Carried, Forgotten, NoUsers, NoTokens, NoSessions, NoNames,
              Away, Writing
<1>5. Recorded' /\ NamesAgree'
  BY <1>1, AuthStoreAssumption DEF Recorded, NamesAgree, Forgotten, NoNames
<1>6. Synced'
  BY <1>1 DEF Synced
<1>7. DeletionUnderWay' /\ RevocationUnderWay'
  BY <1>1 DEF DeletionUnderWay, RevocationUnderWay, Away
<1> QED BY <1>2, <1>3, <1>4, <1>5, <1>6, <1>7 DEF Inv, Control, Names1, Lasting

\* A start finds in the files what the last process is answerable for.
LEMMA Started ==
  ASSUME Inv, Start
  PROVE  Inv'
<1> USE DEF Start, Load
<1>0. /\ TypeOK /\ StoreTypeOK /\ HandedOut /\ StoredNames /\ DeletedStays /\ RevokedStays
      /\ saving = <<>> /\ dirty = {} /\ \A g \in Handlers : at[g] = Away
  BY DEF Inv, Control, Names1, Lasting, TypeOK, Quiet
<1>1. /\ file.users \in [UserIds -> User \cup {None}]
      /\ file.tokens \in [TokenIds -> Token \cup {None}]
      /\ file.sessions \in [SessionIds -> UserIds \cup {None}]
      /\ file.sessions # Torn
  BY <1>0 DEF StoreTypeOK, FileNames
<1>2. file.users # Torn /\ file.tokens # Torn
  BY DEF FileNames
<1>3. Current(file.sessions) \in [SessionIds -> UserIds \cup {None}]
  BY <1>1 DEF Current
<1>4. \A u \in UserIds : u \in users' <=> record'[u] # None
  OBVIOUS
<1>5. \A n \in Names :
        \/ byName'[n] \in users' /\ record'[byName'[n]].name = n
        \/ byName'[n] = None /\ \A u \in users' : record'[u].name # n
  <2> TAKE n \in Names
  <2>1. CASE \E u \in users' : file.users[u].name = n
    <3>1. byName'[n] = CHOOSE u \in users' : file.users[u].name = n
      BY <2>1
    <3> QED BY <2>1, <3>1
  <2>2. CASE ~ \E u \in users' : file.users[u].name = n
    BY <2>2
  <2> QED BY <2>1, <2>2
<1>6. TypeOK'
  <2>1. byName' \in [Names -> UserIds \cup {None}]
    BY <1>5
  <2>2. StoreTypeOK'
    BY <1>0, <1>1, <1>3, <2>1 DEF StoreTypeOK
  <2> QED BY <1>0, <2>2 DEF TypeOK
<1>7. Quiet' /\ Locked' /\ Carried' /\ DeletionUnderWay' /\ RevocationUnderWay'
  BY <1>0 DEF Quiet, Locked, Carried, DeletionUnderWay, RevocationUnderWay, Away, Writing
<1>8. Recorded' /\ StoredNames'
  BY <1>0, <1>1 DEF Recorded, StoredNames
<1>9. NamesAgree'
  <2> SUFFICES ASSUME NEW u \in UserIds, NEW n \in Names
               PROVE  byName'[n] = u <=> u \in users' /\ record'[u].name = n
    BY DEF NamesAgree
  <2>1. u # None
    BY AuthStoreAssumption
  <2>2. ASSUME u \in users', record'[u].name = n PROVE byName'[n] = u
    <3>1. byName'[n] \in users' /\ record'[byName'[n]].name = n
      BY <1>5, <2>2
    <3>2. byName'[n] \in UserIds /\ file.users[byName'[n]] # None /\ file.users[u] # None
      BY <2>2, <3>1
    <3> QED BY <1>0, <1>2, <2>2, <3>1, <3>2 DEF StoredNames
  <2> QED BY <1>5, <2>1, <2>2
<1>10. Synced'
  <2>1. \A u \in UserIds : file.users[u] = IF u \in users' THEN record'[u] ELSE None
    BY <1>4
  <2>2. file'.users = Held'.users /\ file'.tokens = Held'.tokens
    BY <1>1, <2>1 DEF Held
  <2>3. ASSUME NEW f \in {"users", "tokens"} PROVE file'[f] = Held'[f]
    BY <2>2
  <2>4. Current(file.sessions)' = Current(sessions)'
    BY <1>1 DEF Current
  <2> QED BY <1>1, <2>3, <2>4 DEF Synced
<1>11. HandedOut'
  BY <1>0, <1>2 DEF HandedOut
<1>12. DeletedStays' /\ RevokedStays'
  BY <1>0, <1>2 DEF DeletedStays, RevokedStays
<1> QED BY <1>6, <1>7, <1>8, <1>9, <1>10, <1>11, <1>12 DEF Inv, Control, Names1, Lasting

\* Time passes: a session that expires is no session, in memory and in the file.
LEMMA Expired ==
  ASSUME Inv, NEW s \in SessionIds, Expire(s), Rest, UNCHANGED at
  PROVE  Inv'
<1> USE DEF Inv, Control, Names1, Lasting, Expire, Rest, memory
<1>1. TypeOK' /\ Quiet' /\ Locked' /\ Carried'
  BY DEF TypeOK, StoreTypeOK, Quiet, Locked, Carried
<1>2. Names1'
  BY DEF Recorded, NamesAgree, StoredNames
<1>3. Synced'
  <2>1. Held' = Held /\ Unsaved' = Unsaved
    BY DEF Held, Unsaved
  <2>2. ASSUME Current(file.sessions) = Current(sessions)
        PROVE  Current(file.sessions)' = Current(sessions)'
    <3>1. \A x \in SessionIds :
            x \notin expired => file.sessions[x] = sessions[x]
      BY <2>2 DEF Current
    <3> QED BY <3>1 DEF Current
  <2> QED BY <2>1, <2>2 DEF Synced
<1>4. HandedOut' /\ DeletedStays' /\ RevokedStays'
  BY DEF HandedOut, DeletedStays, RevokedStays
<1>5. DeletionUnderWay' /\ RevocationUnderWay'
  BY DEF DeletionUnderWay, RevocationUnderWay, Unsaved, Gone, UserNotStored,
         TokensNotStored, Inactive, InactiveStored
<1> QED BY <1>1, <1>2, <1>3, <1>4, <1>5

-----------------------------------------------------------------------------
(* The theorems. *)

\* Inv is inductive: no step of a request, a start or a crash breaks it.
LEMMA InvStep == Inv /\ [Next]_vars => Inv'
<1> SUFFICES ASSUME Inv, [Next]_vars PROVE Inv'
  OBVIOUS
<1>1. ASSUME NEW h \in Handlers, Arrive(h) \/ Login(h) PROVE Inv'
  BY <1>1, Moves
<1>2. ASSUME NEW h \in Handlers, Logout(h) \/ Prune(h) PROVE Inv'
  BY <1>2, Changed
<1>3. ASSUME NEW h \in Handlers, Step(h) PROVE Inv'
  <2>1. CASE \/ FindSession(h) \/ FindUser(h) \/ FindToken(h) \/ Refuse(h)
             \/ CheckCreate(h) \/ CheckDelete(h) \/ CheckPassword(h) \/ CheckRole(h)
             \/ CheckMint(h) \/ CheckRevoke(h)
    BY <2>1, Moves
  <2>2. CASE Changes(h)
    BY <2>2, Changed
  <2>3. CASE Save(h)
    BY <2>3, Saved
  <2>4. CASE FailSave(h)
    BY <2>4, SaveFailed
  <2> QED BY <1>3, <2>1, <2>2, <2>3, <2>4 DEF Step
<1>4. ASSUME NEW s \in SessionIds, Expire(s), Rest, UNCHANGED at PROVE Inv'
  BY <1>4, Expired
<1>5. CASE Start
  BY <1>5, Started
<1>6. CASE BootCreate
  BY <1>6, Booted
<1>7. CASE BootSave
  BY <1>7, BootSaved
<1>8. CASE Crash
  BY <1>8, Crashed
<1>9. CASE UNCHANGED vars
  BY <1>9 DEF vars, storeVars, memory, Inv, Control, TypeOK, StoreTypeOK, Quiet, Locked,
     Carried, Names1, Recorded, NamesAgree, StoredNames, Synced, Unsaved, Held, Current,
     Lasting, HandedOut, DeletedStays, DeletionUnderWay, Gone, UserNotStored,
     TokensNotStored, RevokedStays, RevocationUnderWay, Inactive, InactiveStored
<1> QED BY <1>1, <1>2, <1>3, <1>4, <1>5, <1>6, <1>7, <1>8, <1>9 DEF Next

\* In every reachable state of the server.
LEMMA Invariance == Spec => []Inv
BY InvInit, InvStep, PTL DEF Spec

\* Every variable keeps its type, and s.mu is never held for another order of
\* files than those the methods of FileAuthStore write.
THEOREM ServerTypeCorrect == Spec => []TypeOK
BY Invariance, PTL DEF Inv, Control

\* The two maps of users agree (auth/store.go, usersByID and usersByUsername):
\* requests that race for a name, failed saves and restarts included.
THEOREM ServerNamesAgree == Spec => []NamesAgree
BY Invariance, PTL DEF Inv, Names1

\* What saveUsers, saveTokens and saveSessions have not left behind is what the
\* next start finds.
THEOREM ServerSynced == Spec => []Synced
BY Invariance, PTL DEF Inv

\* A user whose deletion was reported is in no map and no file again, with no
\* token, whatever crashes and failed writes follow.
THEOREM ServerDeletedStays == Spec => []DeletedStays
BY Invariance, PTL DEF Inv, Lasting

\* A token whose revocation was reported is never active again.
THEOREM ServerRevokedStays == Spec => []RevokedStays
BY Invariance, PTL DEF Inv, Lasting

\* A step lets no request through for a deleted user: the middleware looks the
\* user of a session up again, and a token is active only with its user.
LEMMA StepDeletedNeverCalls ==
  ASSUME Inv, Next, NEW h \in Handlers, at[h].stage # "called", at'[h].stage = "called"
  PROVE  at'[h].user \notin deleted
<1>0. TypeOK /\ DeletedStays
  BY DEF Inv, Control, Lasting
<1>1. \A g \in Handlers : \A s, u, r, t :
        Goes(g, s, u, r, t) => s = "called" /\ u = at'[h].user
  BY <1>0 DEF TypeOK, Goes
<1>2. at' # at /\ \A g \in Handlers : ~Ends(g)
  BY <1>0 DEF TypeOK, Ends, Away
<1>3. ASSUME NEW g \in Handlers, Step(g) PROVE at'[h].user \notin deleted
  <2>1. CASE FindUser(g)
    BY <1>0, <1>1, <2>1 DEF FindUser, DeletedStays
  <2>2. CASE FindToken(g)
    BY <1>0, <1>1, <2>2 DEF FindToken, TokenActive, DeletedStays
  <2>3. ~FindSession(g) /\ ~Refuse(g)
    BY <1>1, <1>2 DEF FindSession, Refuse
  <2>4. ~CheckCreate(g) /\ ~CheckDelete(g) /\ ~CheckPassword(g) /\ ~CheckRole(g)
    BY <1>1 DEF CheckCreate, CheckDelete, CheckPassword, CheckRole
  <2>5. ~CheckMint(g) /\ ~CheckRevoke(g)
    BY <1>1 DEF CheckMint, CheckRevoke
  <2>6. ~Changes(g)
    BY <1>1 DEF Changes, DoCreate, DoDelete, DoPassword, DoRole, DoMint, DoRevoke, DoLogin,
                Writes
  <2>7. ~Save(g) /\ ~FailSave(g)
    BY <1>2 DEF Save, FailSave, Answered
  <2> QED BY <1>3, <2>1, <2>2, <2>3, <2>4, <2>5, <2>6, <2>7 DEF Step
<1>4. ASSUME NEW g \in Handlers PROVE ~Arrive(g) /\ ~Login(g) /\ ~Logout(g) /\ ~Prune(g)
  <2>1. ~Arrive(g)
    <3>1. Arrive(g) => Goes(g, "open", None, None, None) \/ Goes(g, "guarded", None, None, None)
      BY DEF Arrive
    <3> QED BY <1>1, <3>1
  <2> QED BY <1>1, <2>1 DEF Login, Logout, Prune, Writes
<1>5. ~Start /\ ~BootCreate /\ ~BootSave
  BY <1>2 DEF Start, BootCreate, BootSave
<1>6. ~Crash
  BY DEF Crash, Away
<1> QED BY <1>2, <1>3, <1>4, <1>5, <1>6 DEF Next

\* No request is let through for a user whose deletion was answered before.
THEOREM ServerDeletedNeverCalls == Spec => DeletedNeverCalls
<1>1. Inv /\ [Next]_vars =>
        [\A h \in Handlers :
           at[h].stage # "called" /\ at'[h].stage = "called" => at'[h].user \notin deleted]_vars
  BY StepDeletedNeverCalls
<1> QED BY <1>1, Invariance, PTL DEF Spec, DeletedNeverCalls
=============================================================================
