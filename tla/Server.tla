------------------------------- MODULE Server -------------------------------
(***************************************************************************)
(* Requests to the users, tokens and login pages of src/internal/server,   *)
(* through the middleware of src/internal/auth, on top of AuthStore, in a  *)
(* process that may end and start again at any time.                       *)
(*                                                                         *)
(* A request takes s.mu several times: to count the users, to find the     *)
(* session, to find its user, and then for what it is about. One action    *)
(* for each, and whatever a request chose or found goes with it in at[h].  *)
(* An argument of a request is chosen where it is first used. Requests     *)
(* that only read end where they are let through. A definition marked       *)
(* "Variant" is a plausible mistake in the definition after it.            *)
(***************************************************************************)
EXTENDS AuthStore

CONSTANTS
  Handlers,    \* as many requests at a time
  Requests,    \* the kinds of requests that are made
  Bootstrap    \* whether LAIGHTDB_BOOTSTRAP_USER is set; it may differ from start to start

AllRequests == {"create", "password", "role", "delete", "mint", "revoke",
                "login", "logout", "prune"}

ASSUME ServerAssumption ==
  /\ Requests \subseteq AllRequests
  /\ Bootstrap \subseteq BOOLEAN /\ Bootstrap # {}

VARIABLES
  up,        \* "down", "boot" while launch.Start creates a user, "serving"
  at,        \* where each request is
  used,      \* identifiers handed out
  deleted,   \* users whose deletion was answered with success
  revoked    \* tokens whose revocation was

vars == <<storeVars, up, at, used, deleted, revoked>>

\* Stages that hold s.mu until the files are written.
Writing == {"write", "deleting", "revoking"}
Stages == {"idle", "open", "guarded", "session", "called", "login"}
            \cup AllRequests \cup Writing

Away == [stage |-> "idle", user |-> None, role |-> None, token |-> None]
Where == [stage : Stages, user : UserIds \cup {None}, role : Roles \cup {None},
          token : TokenIds \cup {None}]

TypeOK ==
  /\ StoreTypeOK
  /\ up \in {"down", "boot", "serving"}
  /\ at \in [Handlers -> Where]
  /\ used \in SUBSET (UserIds \cup TokenIds \cup SessionIds)
  /\ deleted \in SUBSET UserIds /\ revoked \in SUBSET TokenIds

Init ==
  /\ StoreInit
  /\ up = "down" /\ at = [h \in Handlers |-> Away]
  /\ used = {} /\ deleted = {} /\ revoked = {}

\* Request h goes on at stage s, with the fields of f.
Goes(h, s, u, r, t) ==
  at' = [at EXCEPT ![h] = [stage |-> s, user |-> u, role |-> r, token |-> t]]
Ends(h) == at' = [at EXCEPT ![h] = Away]

Only(h, s) == up = "serving" /\ at[h].stage = s
Rest == UNCHANGED <<up, used, deleted, revoked>>
StoreRest == UNCHANGED storeVars /\ Rest

-----------------------------------------------------------------------------
(* The middleware. *)

\* UserCount: without users every request is let through, without a caller.
Arrive(h) ==
  /\ Only(h, "idle") /\ Free
  /\ Goes(h, IF users = {} THEN "open" ELSE "guarded", None, None, None)
  /\ StoreRest

FindSession(h) ==
  /\ Only(h, "guarded")
  /\ \E s \in SessionIds, u \in UserIds : SessionOf(s, u) /\ Goes(h, "session", u, None, None)
  /\ StoreRest

\* Variant: the session is enough to read.
FindUserTrusting(h) ==
  /\ Only(h, "session") /\ Free
  /\ LET u == at[h].user IN
       Goes(h, "called", u, IF u \in users THEN record[u].role ELSE "readonly", None)
  /\ StoreRest

\* A session whose user is gone does not count; the bearer token may. (That
\* the request does not present a second session is not modelled.)
FindUser(h) ==
  /\ Only(h, "session") /\ Free
  /\ IF at[h].user \in users
       THEN Goes(h, "called", at[h].user, record[at[h].user].role, None)
       ELSE Goes(h, "guarded", None, None, None)
  /\ StoreRest

FindToken(h) ==
  /\ Only(h, "guarded")
  /\ \E t \in TokenIds :
       TokenActive(t) /\ Goes(h, "called", tokens[t].user, tokens[t].role, None)
  /\ StoreRest

\* Refused at any stage before the store is changed, answered without a change,
\* or a read: malformed bodies, wrong rights, password hashes that fail.
Refuse(h) ==
  /\ up = "serving" /\ at[h].stage \notin Writing \cup {"idle"}
  /\ Ends(h)
  /\ StoreRest

-----------------------------------------------------------------------------
(* The handlers, up to the call that changes the store. The middleware lets *)
(* nothing but reads through for a credential that is not an admin's; the   *)
(* handlers look at the role the caller has now.                            *)

RoleNow(h) == record[at[h].user].role

Handling(h, kind) ==
  kind \in Requests /\ Only(h, "called") /\ at[h].role = "admin"

\* The second UserCount: the first user needs no caller and becomes an admin.
CheckCreate(h) ==
  /\ Free /\ up = "serving" /\ "create" \in Requests
  /\ at[h].stage = "open" \/ Handling(h, "create")
  /\ IF users = {} THEN Goes(h, "create", None, "admin", None)
     ELSE /\ at[h].stage = "called" /\ RoleNow(h) = "admin"
          /\ \E r \in Roles : Goes(h, "create", None, r, None)
  /\ StoreRest

CheckDelete(h) ==
  /\ Handling(h, "delete") /\ RoleNow(h) = "admin"
  /\ \E u \in UserIds \ {at[h].user} : Goes(h, "delete", u, None, None)
  /\ StoreRest

\* An admin may change any password, others their own.
CheckPassword(h) ==
  /\ Handling(h, "password")
  /\ Goes(h, "password", IF RoleNow(h) = "admin" THEN None ELSE at[h].user, None, None)
  /\ StoreRest

CheckRole(h) ==
  /\ Handling(h, "role") /\ RoleNow(h) = "admin"
  /\ Goes(h, "role", None, None, None)
  /\ StoreRest

CanEscalate(r, target) == r = "admin" \/ target = "readonly"

CheckMint(h) ==
  /\ Handling(h, "mint")
  /\ \E r \in Roles : CanEscalate(RoleNow(h), r) /\ Goes(h, "mint", at[h].user, r, None)
  /\ StoreRest

\* ListTokens, then the owner.
CheckRevoke(h) ==
  /\ Handling(h, "revoke") /\ Free
  /\ \E t \in TokenIds :
       /\ tokens[t] # None
       /\ RoleNow(h) = "admin" \/ tokens[t].user = at[h].user
       /\ Goes(h, "revoke", None, None, t)
  /\ StoreRest

Login(h) ==
  /\ Only(h, "idle") /\ "login" \in Requests
  /\ \E u \in UserIds, n \in Names, p \in Passwords :
       PasswordMatches(u, n, p) /\ Goes(h, "login", u, None, None)
  /\ StoreRest

-----------------------------------------------------------------------------
(* The calls that change the store. Where a call finds nothing to change,   *)
(* the request ends in Refuse.                                              *)

Writes(h, stage, u, t) ==
  Goes(h, stage, u, None, t) /\ UNCHANGED <<up, deleted, revoked>>

DoCreate(h) ==
  /\ Only(h, "create")
  /\ \E u \in UserIds \ used, n \in Names, p \in Passwords :
       CreateUser(u, n, p, at[h].role) /\ used' = used \cup {u}
  /\ Writes(h, "write", None, None)

DoDelete(h) ==
  /\ Only(h, "delete")
  /\ DeleteUser(at[h].user) /\ UNCHANGED used
  /\ Writes(h, "deleting", at[h].user, None)

DoPassword(h) ==
  /\ Only(h, "password")
  /\ \E u \in UserIds, p \in Passwords :
       at[h].user \in {None, u} /\ UpdatePassword(u, p)
  /\ UNCHANGED used
  /\ Writes(h, "write", None, None)

DoRole(h) ==
  /\ Only(h, "role")
  /\ \E u \in UserIds, r \in Roles : UpdateRole(u, r)
  /\ UNCHANGED used
  /\ Writes(h, "write", None, None)

DoMint(h) ==
  /\ Only(h, "mint")
  /\ \E t \in TokenIds \ used :
       CreateToken(t, at[h].user, at[h].role) /\ used' = used \cup {t}
  /\ Writes(h, "write", None, None)

DoRevoke(h) ==
  /\ Only(h, "revoke")
  /\ RevokeToken(at[h].token) /\ UNCHANGED used
  /\ Writes(h, "revoking", None, at[h].token)

DoLogin(h) ==
  /\ Only(h, "login")
  /\ \E s \in SessionIds \ used :
       CreateSession(s, at[h].user) /\ used' = used \cup {s}
  /\ Writes(h, "write", None, None)

Logout(h) ==
  /\ Only(h, "idle") /\ "logout" \in Requests
  /\ \E s \in SessionIds : DeleteSession(s)
  /\ UNCHANGED used
  /\ Writes(h, "write", None, None)

\* Nothing in the repository calls PruneSessions but its test.
Prune(h) ==
  /\ Only(h, "idle") /\ "prune" \in Requests
  /\ PruneSessions /\ UNCHANGED used
  /\ Writes(h, "write", None, None)

Changes(h) ==
  \/ DoCreate(h) \/ DoDelete(h) \/ DoPassword(h) \/ DoRole(h)
  \/ DoMint(h) \/ DoRevoke(h) \/ DoLogin(h)

-----------------------------------------------------------------------------
(* Saves and answers. *)

\* The request, or launch.Start, that holds s.mu is answered.
Answered(h, success) ==
  /\ deleted' = IF success /\ at[h].stage = "deleting" THEN deleted \cup {at[h].user} ELSE deleted
  /\ revoked' = IF success /\ at[h].stage = "revoking" THEN revoked \cup {at[h].token} ELSE revoked
  /\ Ends(h)
  /\ UNCHANGED <<up, used>>

Save(h) ==
  /\ up = "serving" /\ at[h].stage \in Writing
  /\ SaveFile
  /\ IF Len(saving) = 1 THEN Answered(h, TRUE)
     ELSE UNCHANGED <<up, at, used, deleted, revoked>>

\* Variant: the error of a save is not returned.
FailSaveIgnored(h) ==
  /\ up = "serving" /\ at[h].stage \in Writing
  /\ SaveFails
  /\ Answered(h, TRUE)

FailSave(h) ==
  /\ up = "serving" /\ at[h].stage \in Writing
  /\ SaveFails
  /\ Answered(h, FALSE)

-----------------------------------------------------------------------------
(* Starts and stops. *)

Start ==
  /\ up = "down"
  /\ Load
  /\ \E b \in Bootstrap : up' = IF b /\ users' = {} THEN "boot" ELSE "serving"
  /\ UNCHANGED <<at, used, deleted, revoked>>

\* bootstrapUser creates the first admin before the server listens.
BootCreate ==
  /\ up = "boot"
  /\ \E u \in UserIds \ used, n \in Names, p \in Passwords :
       CreateUser(u, n, p, "admin") /\ used' = used \cup {u}
  /\ UNCHANGED <<up, at, deleted, revoked>>

BootSave ==
  /\ up = "boot"
  /\ SaveFile
  /\ up' = "serving"
  /\ UNCHANGED <<at, used, deleted, revoked>>

\* The process is killed, or ends because bootstrapUser failed. Nothing is
\* written at the end.
Crash ==
  /\ up # "down"
  /\ StoreCrash
  /\ up' = "down" /\ at' = [h \in Handlers |-> Away]
  /\ UNCHANGED <<used, deleted, revoked>>

-----------------------------------------------------------------------------
Step(h) ==
  \/ FindSession(h) \/ FindUser(h) \/ FindToken(h) \/ Refuse(h)
  \/ CheckCreate(h) \/ CheckDelete(h) \/ CheckPassword(h) \/ CheckRole(h)
  \/ CheckMint(h) \/ CheckRevoke(h)
  \/ Changes(h) \/ Save(h) \/ FailSave(h)

Next ==
  \/ \E h \in Handlers : Arrive(h) \/ Login(h) \/ Logout(h) \/ Prune(h) \/ Step(h)
  \/ \E s \in SessionIds : Expire(s) /\ Rest /\ UNCHANGED at
  \/ Start \/ BootCreate \/ BootSave \/ Crash

Spec == Init /\ [][Next]_vars

-----------------------------------------------------------------------------
(* Properties. *)

\* usersByUsername is the inverse of usersByID: no name belongs to two users,
\* whatever requests race for it and whatever a start loads.
NamesAgree ==
  \A u \in UserIds, n \in Names :
    byName[n] = u <=> u \in users /\ record[u].name = n

\* A start would find what memory holds, for every file that no failed write
\* left behind and that the holder of s.mu does not still have to write.
Synced ==
  up # "down" =>
    /\ \A f \in {"users", "tokens"} \ (dirty \cup Unsaved) : file[f] = Held[f]
    /\ "sessions" \notin dirty \cup Unsaved =>
         file.sessions # Torn /\ Current(file.sessions) = Current(sessions)

\* After DELETE /v1/users/{id} was answered with success, neither the user nor
\* any token of it is in memory or in a file again.
DeletedStays ==
  \A u \in deleted :
    /\ u \notin users
    /\ \A t \in TokenIds : tokens[t] # None => tokens[t].user # u
    /\ file.users # Torn => file.users[u] = None
    /\ file.tokens # Torn =>
         \A t \in TokenIds : file.tokens[t] # None => file.tokens[t].user # u

\* A revoked token stays revoked: no later start finds it active.
RevokedStays ==
  \A t \in revoked :
    /\ tokens[t] # None => tokens[t].revoked
    /\ file.tokens # Torn /\ file.tokens[t] # None => file.tokens[t].revoked

\* No request is let through for a user whose deletion was answered before,
\* not even with a session that a login created after the deletion.
DeletedNeverCalls ==
  [][\A h \in Handlers :
       at[h].stage # "called" /\ at'[h].stage = "called" => at'[h].user \notin deleted]_vars
=============================================================================
