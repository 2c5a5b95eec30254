----------------------------- MODULE AuthStore -----------------------------
(***************************************************************************)
(* FileAuthStore of src/internal/auth/store.go: users, API tokens and      *)
(* login sessions in memory under the lock s.mu, each list also in a file  *)
(* that is written whole after every change.                               *)
(*                                                                         *)
(* A method that changes something changes memory first, then writes its   *)
(* files one after the other and gives up at the first that fails, all     *)
(* under s.mu: one action for the change, one for each file. "saving" is   *)
(* what the method holding s.mu still has to write.                        *)
(*                                                                         *)
(* Abstracted: hashes, time stamps and the order of the lists. A user, a   *)
(* token and a session are found by their identifier only, but users also  *)
(* by name. A definition marked "Variant" is a plausible mistake in the    *)
(* definition after it.                                                    *)
(***************************************************************************)
EXTENDS Naturals, Sequences, FiniteSets

CONSTANTS
  UserIds, TokenIds, SessionIds,   \* the identifiers uuid.New hands out
  Names, Passwords,
  None,     \* "not found"
  Torn,     \* a file that was cut in the middle: json.Unmarshal refuses it
  Faults,   \* the files whose writes may fail or be cut short
  MaxEvents \* bound: so many unfinished writes and expired sessions, together

Roles == {"admin", "readonly"}
User == [name : Names, password : Passwords, role : Roles]
Token == [user : UserIds, role : Roles, revoked : BOOLEAN]
FileNames == {"users", "tokens", "sessions"}

ASSUME AuthStoreAssumption ==
  /\ None \notin UserIds \cup User \cup Token
  /\ Torn \notin [UserIds -> User \cup {None}] \cup [TokenIds -> Token \cup {None}]
                   \cup [SessionIds -> UserIds \cup {None}]
  /\ Faults \subseteq FileNames /\ MaxEvents \in Nat

VARIABLES
  users,     \* the identifiers in usersByID
  record,    \* the User struct of an identifier; a request may hold a pointer
             \* to it after DeleteUser
  byName,    \* usersByUsername
  tokens,    \* tokensByID and tokensByHash
  sessions,  \* sessionsByID
  expired,   \* sessions whose time is up
  file,      \* users.json, tokens.json and sessions.json
  saving,    \* the files the holder of s.mu still has to write; <<>>: s.mu is free
  dirty,     \* files that miss a change, because a write failed
  faults     \* the writes that were not finished

memory == <<users, record, byName, tokens, sessions>>
storeVars == <<memory, expired, file, saving, dirty, faults>>

NoUsers == [u \in UserIds |-> None]
NoTokens == [t \in TokenIds |-> None]
NoSessions == [s \in SessionIds |-> None]
NoNames == [n \in Names |-> None]

\* An empty file, or none, is read as an empty list.
Empty == [users |-> NoUsers, tokens |-> NoTokens, sessions |-> NoSessions]

\* What the files would hold if they were written now.
Held ==
  [users |-> [u \in UserIds |-> IF u \in users THEN record[u] ELSE None],
   tokens |-> tokens, sessions |-> sessions]

Free == saving = <<>>

EventsLeft == faults + Cardinality(expired) < MaxEvents

StoreTypeOK ==
  /\ users \in SUBSET UserIds
  /\ record \in [UserIds -> User \cup {None}]
  /\ byName \in [Names -> UserIds \cup {None}]
  /\ tokens \in [TokenIds -> Token \cup {None}]
  /\ sessions \in [SessionIds -> UserIds \cup {None}]
  /\ expired \in SUBSET SessionIds
  /\ file \in [users : [UserIds -> User \cup {None}] \cup {Torn},
               tokens : [TokenIds -> Token \cup {None}] \cup {Torn},
               sessions : [SessionIds -> UserIds \cup {None}] \cup {Torn}]
  /\ saving \in {<<>>, <<"users">>, <<"tokens">>, <<"sessions">>,
                 <<"tokens", "sessions">>, <<"users", "tokens", "sessions">>}
  /\ dirty \in SUBSET FileNames
  /\ faults \in Nat

Forgotten ==
  /\ users' = {} /\ record' = NoUsers /\ byName' = NoNames
  /\ tokens' = NoTokens /\ sessions' = NoSessions

StoreInit ==
  /\ users = {} /\ record = NoUsers /\ byName = NoNames
  /\ tokens = NoTokens /\ sessions = NoSessions
  /\ expired = {} /\ file = Empty /\ saving = <<>> /\ dirty = {} /\ faults = 0

-----------------------------------------------------------------------------
(* Users. *)

\* Variant: the duplicate check is made before s.mu is taken.
CreateUserUnchecked(u, n, p, r) ==
  /\ Free
  /\ users' = users \cup {u}
  /\ record' = [record EXCEPT ![u] = [name |-> n, password |-> p, role |-> r]]
  /\ byName' = [byName EXCEPT ![n] = u]
  /\ saving' = <<"users">>
  /\ UNCHANGED <<tokens, sessions, expired, file, dirty, faults>>

CreateUser(u, n, p, r) ==
  /\ Free /\ byName[n] = None
  /\ users' = users \cup {u}
  /\ record' = [record EXCEPT ![u] = [name |-> n, password |-> p, role |-> r]]
  /\ byName' = [byName EXCEPT ![n] = u]
  /\ saving' = <<"users">>
  /\ UNCHANGED <<tokens, sessions, expired, file, dirty, faults>>

UpdatePassword(u, p) ==
  /\ Free /\ u \in users
  /\ record' = [record EXCEPT ![u].password = p]
  /\ saving' = <<"users">>
  /\ UNCHANGED <<users, byName, tokens, sessions, expired, file, dirty, faults>>

UpdateRole(u, r) ==
  /\ Free /\ u \in users
  /\ record' = [record EXCEPT ![u].role = r]
  /\ saving' = <<"users">>
  /\ UNCHANGED <<users, byName, tokens, sessions, expired, file, dirty, faults>>

\* Variant: only users.json is written.
DeleteUserSavesUsers(u) ==
  /\ Free /\ u \in users
  /\ users' = users \ {u}
  /\ byName' = [byName EXCEPT ![record[u].name] = None]
  /\ tokens' = [t \in TokenIds |->
                  IF tokens[t] # None /\ tokens[t].user = u THEN None ELSE tokens[t]]
  /\ sessions' = [s \in SessionIds |-> IF sessions[s] = u THEN None ELSE sessions[s]]
  /\ saving' = <<"users">>
  /\ UNCHANGED <<record, expired, file, dirty, faults>>

DeleteUser(u) ==
  /\ Free /\ u \in users
  /\ users' = users \ {u}
  /\ byName' = [byName EXCEPT ![record[u].name] = None]
  /\ tokens' = [t \in TokenIds |->
                  IF tokens[t] # None /\ tokens[t].user = u THEN None ELSE tokens[t]]
  /\ sessions' = [s \in SessionIds |-> IF sessions[s] = u THEN None ELSE sessions[s]]
  /\ saving' = <<"users", "tokens", "sessions">>
  /\ UNCHANGED <<record, expired, file, dirty, faults>>

-----------------------------------------------------------------------------
(* Tokens and sessions. *)

CreateToken(t, u, r) ==
  /\ Free /\ u \in users
  /\ tokens' = [tokens EXCEPT ![t] = [user |-> u, role |-> r, revoked |-> FALSE]]
  /\ saving' = <<"tokens">>
  /\ UNCHANGED <<users, record, byName, sessions, expired, file, dirty, faults>>

\* Variant: the wrong file is written.
RevokeTokenSavesUsers(t) ==
  /\ Free /\ tokens[t] # None
  /\ tokens' = [tokens EXCEPT ![t].revoked = TRUE]
  /\ saving' = <<"users">>
  /\ UNCHANGED <<users, record, byName, sessions, expired, file, dirty, faults>>

RevokeToken(t) ==
  /\ Free /\ tokens[t] # None
  /\ tokens' = [tokens EXCEPT ![t].revoked = TRUE]
  /\ saving' = <<"tokens">>
  /\ UNCHANGED <<users, record, byName, sessions, expired, file, dirty, faults>>

\* CreateSession does not ask whether the user is there.
CreateSession(s, u) ==
  /\ Free
  /\ sessions' = [sessions EXCEPT ![s] = u]
  /\ saving' = <<"sessions">>
  /\ UNCHANGED <<users, record, byName, tokens, expired, file, dirty, faults>>

DeleteSession(s) ==
  /\ Free /\ sessions[s] # None
  /\ sessions' = [sessions EXCEPT ![s] = None]
  /\ saving' = <<"sessions">>
  /\ UNCHANGED <<users, record, byName, tokens, expired, file, dirty, faults>>

\* The sessions among f that have not expired.
Current(f) == [s \in SessionIds |-> IF s \in expired THEN None ELSE f[s]]

PruneSessions ==
  /\ Free /\ Current(sessions) # sessions
  /\ sessions' = Current(sessions)
  /\ saving' = <<"sessions">>
  /\ UNCHANGED <<users, record, byName, tokens, expired, file, dirty, faults>>

\* What the lookups find.
PasswordMatches(u, n, p) == Free /\ byName[n] = u /\ u # None /\ record[u].password = p
SessionOf(s, u) == Free /\ sessions[s] = u /\ u # None /\ s \notin expired
TokenActive(t) ==
  Free /\ tokens[t] # None /\ ~tokens[t].revoked /\ tokens[t].user \in users

\* The clock passes ExpiresAt.
Expire(s) ==
  /\ sessions[s] # None /\ s \notin expired /\ EventsLeft
  /\ expired' = expired \cup {s}
  /\ UNCHANGED <<memory, file, saving, dirty, faults>>

-----------------------------------------------------------------------------
(* Files. *)

\* Variant: the list of users is written to every file.
SaveFileUsers ==
  /\ saving # <<>>
  /\ file' = [file EXCEPT ![Head(saving)] = Held["users"]]
  /\ dirty' = dirty \ {Head(saving)}
  /\ saving' = Tail(saving)
  /\ UNCHANGED <<memory, expired, faults>>

SaveFile ==
  /\ saving # <<>>
  /\ file' = [file EXCEPT ![Head(saving)] = Held[Head(saving)]]
  /\ dirty' = dirty \ {Head(saving)}
  /\ saving' = Tail(saving)
  /\ UNCHANGED <<memory, expired, faults>>

\* os.WriteFile truncates first: what an unfinished write leaves.
CutShort(f) == {file[f], Empty[f], Torn, Held[f]}

WriteUnfinished ==
  /\ Head(saving) \in Faults
  /\ EventsLeft /\ faults' = faults + 1
  /\ \E left \in CutShort(Head(saving)) : file' = [file EXCEPT ![Head(saving)] = left]

Unsaved == {saving[i] : i \in DOMAIN saving}

\* The method returns the error; the change stays in memory, and the files
\* after the one that failed are not written.
SaveFails ==
  /\ saving # <<>>
  /\ WriteUnfinished
  /\ dirty' = dirty \cup Unsaved
  /\ saving' = <<>>
  /\ UNCHANGED <<memory, expired>>

\* The process ends, perhaps in the middle of a write.
StoreCrash ==
  /\ IF saving # <<>> /\ Head(saving) \in Faults
       THEN WriteUnfinished ELSE UNCHANGED <<file, faults>>
  /\ Forgotten
  /\ saving' = <<>> /\ dirty' = {}
  /\ UNCHANGED expired

\* NewFileAuthStore gives up on a file it cannot parse. Expired sessions are
\* dropped from memory, not from the file.
Load ==
  /\ \A f \in FileNames : file[f] # Torn
  /\ users' = {u \in UserIds : file.users[u] # None}
  /\ record' = file.users
  /\ byName' = [n \in Names |->
       IF \E u \in users' : file.users[u].name = n
         THEN CHOOSE u \in users' : file.users[u].name = n ELSE None]
  /\ tokens' = file.tokens
  /\ sessions' = Current(file.sessions)
  /\ UNCHANGED <<expired, file, saving, dirty, faults>>
=============================================================================
