---------------------------- MODULE RefreshTokens ----------------------------
(***************************************************************************)
(* The refresh-token sessions of POST /api/auth/login, /refresh, /logout    *)
(* and /logout_all: src/src/routes/auth.rs over the `refresh_tokens` table  *)
(* of src/src/db.rs.                                                        *)
(*                                                                          *)
(* A handler is an async task; it loses the processor at every `.await` on  *)
(* the SQLite pool, so each database round trip is one action here and any  *)
(* other task's statements may fall in between.  A single statement (or one *)
(* transaction) is atomic.  An error answered by the storage, a failed JWT  *)
(* signature, a dropped connection and a process crash all have the same    *)
(* effect on the shared state: the task ends where it stands (Abort).       *)
(*                                                                          *)
(* Token values are opaque and unique, so a token is its row id.  Row       *)
(* timestamps rotated_at and revoked_at are only ever tested for NULL and   *)
(* are modelled as flags; expires_at is compared with the clock and kept.   *)
(***************************************************************************)
EXTENDS Integers, Functions

CONSTANTS Users,      \* account ids; AUTOINCREMENT, so never reused
          NoUser,     \* "no account", the user of an idle task
          Handlers,   \* concurrently served requests
          TTL,        \* [auth] refresh_token_ttl_secs, in clock ticks
          MaxTokens,  \* bound: rows ever inserted
          MaxTime     \* bound: the last value of the clock

ASSUME ConstantsAssumption ==
    /\ NoUser \notin Users
    /\ TTL \in Nat \ {0}
    /\ MaxTokens \in Nat
    /\ MaxTime \in Nat

VARIABLES
    table,   \* refresh_tokens: row id -> row
    lastId,  \* the AUTOINCREMENT sequence of the table
    users,   \* the accounts that exist
    now,     \* unix_now()
    task,    \* what each handler is doing
    issued,  \* history: token handed to a client -> its family
    ended    \* history: families that were revoked at least once

vars == <<table, lastId, users, now, task, issued, ended>>

Tokens == 1..MaxTokens
NoToken == 0
Placeholder == 0   \* the family_id of a row whose own id is not known yet
Families == {Placeholder} \cup Tokens

\* RefreshTokenRecord, without the audit columns.
Row == [family: Families, user: Users, expires: Nat,
        rotated: BOOLEAN, revoked: BOOLEAN]

Steps == {"idle", "save", "adopt",                        \* login
          "prune", "find", "rotate", "account", "mint",   \* refresh
          "revoke",                                       \* refresh, reuse seen
          "logout_find", "logout_revoke"}                 \* logout

Task == [step: Steps, token: {NoToken} \cup Tokens, family: Families,
         user: Users \cup {NoUser}, now: 0..MaxTime]

Doing(step, token, family, user, time) ==
    [step |-> step, token |-> token, family |-> family, user |-> user,
     now |-> time]

Idle == Doing("idle", NoToken, Placeholder, NoUser, 0)

TypeOK ==
    /\ DOMAIN table \subseteq Tokens
    /\ table \in [DOMAIN table -> Row]
    /\ lastId \in Families
    /\ users \subseteq Users
    /\ now \in 0..MaxTime
    /\ task \in [Handlers -> Task]
    /\ DOMAIN issued \subseteq Tokens
    /\ issued \in [DOMAIN issued -> Tokens]
    /\ ended \subseteq Families

Init ==
    /\ table = [t \in {} |-> t]
    /\ lastId = 0
    /\ users = Users
    /\ now = 0
    /\ task = [h \in Handlers |-> Idle]
    /\ issued = [t \in {} |-> t]
    /\ ended = {}

-----------------------------------------------------------------------------
(* The statements of SqliteUserRepository.                                  *)

Usable(t) == t \in DOMAIN table /\ ~table[t].rotated /\ ~table[t].revoked

Become(h, doing) == task' = [task EXCEPT ![h] = doing]
Done(h) == Become(h, Idle)
Goto(h, step) == Become(h, Doing(step, task[h].token, task[h].family,
                                 task[h].user, task[h].now))

\* Slip: housekeeping that forgets why rotated rows are kept.
PrunableIgnoringRevocation(t, time) == table[t].expires < time

\* WHERE expires_at < now AND revoked_at IS NOT NULL
Prunable(t, time) == table[t].expires < time /\ table[t].revoked

\* Slip: no foreign key between refresh_tokens and users.
CanInsertUnchecked(user) == lastId < MaxTokens

\* The foreign key of refresh_tokens.user_id; MaxTokens is the model's bound.
CanInsert(user) == lastId < MaxTokens /\ user \in users

Insert(family, user) ==
    /\ lastId' = lastId + 1
    /\ table' = [t \in DOMAIN table \cup {lastId + 1} |->
                    IF t = lastId + 1
                    THEN [family |-> family, user |-> user,
                          expires |-> now + TTL,
                          rotated |-> FALSE, revoked |-> FALSE]
                    ELSE table[t]]

\* UPDATE ... SET revoked_at WHERE <rows of S> AND revoked_at IS NULL
RevokeRows(S) ==
    table' = [t \in DOMAIN table |->
                 IF t \in S THEN [table[t] EXCEPT !.revoked = TRUE] ELSE table[t]]

RevokeFamily(f) ==
    /\ RevokeRows({t \in DOMAIN table : table[t].family = f})
    /\ ended' = ended \cup {f}

HandOut(t, f) ==
    issued' = [s \in DOMAIN issued \cup {t} |-> IF s = t THEN f ELSE issued[s]]

-----------------------------------------------------------------------------
(* POST /api/auth/login (and the form registration, which logs in).         *)

\* find_by_username and the Argon2 verification succeeded; JWT issued.
Login(h, u) ==
    /\ task[h].step = "idle"
    /\ u \in users
    /\ Become(h, Doing("save", NoToken, Placeholder, u, 0))
    /\ UNCHANGED <<table, lastId, users, now, issued, ended>>

\* save_refresh_token, first statement: the row of a new family carries the
\* placeholder, because its id is only known after the INSERT.
Save(h) ==
    /\ task[h].step = "save"
    /\ CanInsert(task[h].user)
    /\ Insert(Placeholder, task[h].user)
    /\ Become(h, Doing("adopt", lastId + 1, Placeholder, task[h].user, 0))
    /\ UNCHANGED <<users, now, issued, ended>>

\* save_refresh_token, second statement: SET family_id = id.  The row may be
\* gone (its account was deleted); the UPDATE then matches nothing and the
\* token is handed out all the same.
Adopt(h) ==
    LET t == task[h].token IN
    /\ task[h].step = "adopt"
    /\ table' = [s \in DOMAIN table |->
                    IF s = t THEN [table[s] EXCEPT !.family = t] ELSE table[s]]
    /\ HandOut(t, t)
    /\ Done(h)
    /\ UNCHANGED <<lastId, users, now, ended>>

-----------------------------------------------------------------------------
(* POST /api/auth/refresh.                                                  *)

\* A client presents a token it was once given; `now` is read here and used
\* for the rest of the request.
Refresh(h, t) ==
    /\ task[h].step = "idle"
    /\ Become(h, Doing("prune", t, Placeholder, NoUser, now))
    /\ UNCHANGED <<table, lastId, users, now, issued, ended>>

\* delete_expired_refresh_tokens; its failure is ignored.
Prune(h) ==
    /\ task[h].step = "prune"
    /\ \/ table' = Restrict(table, {t \in DOMAIN table :
                                        ~Prunable(t, task[h].now)})
       \/ table' = table
    /\ Goto(h, "find")
    /\ UNCHANGED <<lastId, users, now, issued, ended>>

\* find_refresh_token_by_hash and the tests on the record, in their order:
\* unknown, revoked, retired (reuse), expired.
Find(h) ==
    LET t == task[h].token
        found(step) ==
            Become(h, Doing(step, t, table[t].family, table[t].user, 0))
    IN
    /\ task[h].step = "find"
    /\ \/ /\ t \notin DOMAIN table
          /\ Done(h)
       \/ /\ t \in DOMAIN table
          /\ table[t].revoked
          /\ Done(h)
       \/ /\ t \in DOMAIN table
          /\ ~table[t].revoked
          /\ table[t].rotated
          /\ found("revoke")
       \/ /\ Usable(t)
          /\ table[t].expires <= task[h].now
          /\ Done(h)
       \/ /\ Usable(t)
          /\ table[t].expires > task[h].now
          /\ found("rotate")
    /\ UNCHANGED <<table, lastId, users, now, issued, ended>>

\* Slip: the UPDATE is not guarded, the SELECT before it is trusted.
RotateUnguarded(h) ==
    LET t == task[h].token IN
    /\ task[h].step = "rotate"
    /\ IF t \in DOMAIN table
       THEN /\ table' = [table EXCEPT ![t].rotated = TRUE]
            /\ Goto(h, "account")
       ELSE /\ table' = table
            /\ Goto(h, "revoke")
    /\ UNCHANGED <<lastId, users, now, issued, ended>>

\* Slip: the UPDATE tests rotated_at only.
RotateRevoked(h) ==
    LET t == task[h].token IN
    /\ task[h].step = "rotate"
    /\ IF t \in DOMAIN table /\ ~table[t].rotated
       THEN /\ table' = [table EXCEPT ![t].rotated = TRUE]
            /\ Goto(h, "account")
       ELSE /\ table' = table
            /\ Goto(h, "revoke")
    /\ UNCHANGED <<lastId, users, now, issued, ended>>

\* rotate_refresh_token: WHERE rotated_at IS NULL AND revoked_at IS NULL; no
\* row affected means another worker was first, which is handled as reuse.
Rotate(h) ==
    LET t == task[h].token IN
    /\ task[h].step = "rotate"
    /\ \/ /\ Usable(t)
          /\ table' = [table EXCEPT ![t].rotated = TRUE]
          /\ Goto(h, "account")
       \/ /\ ~Usable(t)
          /\ table' = table
          /\ Goto(h, "revoke")
    /\ UNCHANGED <<lastId, users, now, issued, ended>>

\* find_by_id: the session of a deleted account is revoked.
Account(h) ==
    /\ task[h].step = "account"
    /\ \/ task[h].user \in users /\ Goto(h, "mint")
       \/ task[h].user \notin users /\ Goto(h, "revoke")
    /\ UNCHANGED <<table, lastId, users, now, issued, ended>>

\* issue_token and issue_refresh_token(Some(family)): the successor is
\* inserted and returned to the client without another await.
Mint(h) ==
    /\ task[h].step = "mint"
    /\ CanInsert(task[h].user)
    /\ Insert(task[h].family, task[h].user)
    /\ HandOut(lastId + 1, task[h].family)
    /\ Done(h)
    /\ UNCHANGED <<users, now, ended>>

\* revoke_refresh_token_family after a reuse, a lost race or a deleted
\* account; the answer is 401 whatever its outcome (failure: Abort).
RevokeReused(h) ==
    /\ task[h].step = "revoke"
    /\ RevokeFamily(task[h].family)
    /\ Done(h)
    /\ UNCHANGED <<lastId, users, now, issued>>

-----------------------------------------------------------------------------
(* Logout, account deletion, the clock and failures.                        *)

\* POST /api/auth/logout by caller u.  The access token is stateless: a
\* deleted account still holds a valid one.
Logout(h, u, t) ==
    /\ task[h].step = "idle"
    /\ Become(h, Doing("logout_find", t, Placeholder, u, 0))
    /\ UNCHANGED <<table, lastId, users, now, issued, ended>>

\* Slip: the owner of the presented token is not compared with the caller.
LogoutFindAny(h) ==
    LET t == task[h].token IN
    /\ task[h].step = "logout_find"
    /\ IF t \in DOMAIN table
       THEN Become(h, Doing("logout_revoke", t, table[t].family, task[h].user, 0))
       ELSE Done(h)
    /\ UNCHANGED <<table, lastId, users, now, issued, ended>>

\* revoke_logout_family: unknown and foreign tokens are silently ignored.
LogoutFind(h) ==
    LET t == task[h].token IN
    /\ task[h].step = "logout_find"
    /\ IF t \in DOMAIN table /\ table[t].user = task[h].user
       THEN Become(h, Doing("logout_revoke", t, table[t].family, task[h].user, 0))
       ELSE Done(h)
    /\ UNCHANGED <<table, lastId, users, now, issued, ended>>

LogoutRevoke(h) ==
    /\ task[h].step = "logout_revoke"
    /\ RevokeFamily(task[h].family)
    /\ Done(h)
    /\ UNCHANGED <<lastId, users, now, issued>>

\* POST /api/auth/logout_all: one statement over the caller's rows.
LogoutAll(u) ==
    LET own == {t \in DOMAIN table : table[t].user = u} IN
    /\ RevokeRows(own)
    /\ ended' = ended \cup {table[t].family : t \in own}
    /\ UNCHANGED <<lastId, users, now, task, issued>>

\* UserRepository::delete; the token rows go by ON DELETE CASCADE.
DeleteUser(u) ==
    /\ u \in users
    /\ users' = users \ {u}
    /\ table' = Restrict(table, {t \in DOMAIN table : table[t].user # u})
    /\ UNCHANGED <<lastId, now, task, issued, ended>>

\* A statement failed, the JWT could not be signed, the client hung up (the
\* future is dropped at its await point) or the process died.
Abort(h) ==
    /\ task[h].step # "idle"
    /\ Done(h)
    /\ UNCHANGED <<table, lastId, users, now, issued, ended>>

Tick ==
    /\ now < MaxTime
    /\ now' = now + 1
    /\ UNCHANGED <<table, lastId, users, task, issued, ended>>

HandlerStep(h) ==
    \/ Save(h) \/ Adopt(h)
    \/ Prune(h) \/ Find(h) \/ Rotate(h) \/ Account(h) \/ Mint(h)
    \/ RevokeReused(h)
    \/ LogoutFind(h) \/ LogoutRevoke(h)
    \/ Abort(h)

Next ==
    \/ \E h \in Handlers : HandlerStep(h)
    \/ \E h \in Handlers, u \in Users : Login(h, u)
    \/ \E h \in Handlers, t \in DOMAIN issued : Refresh(h, t)
    \/ \E h \in Handlers, u \in Users, t \in DOMAIN issued : Logout(h, u, t)
    \/ \E u \in Users : LogoutAll(u)
    \/ \E u \in Users : DeleteUser(u)
    \/ Tick

Spec == Init /\ [][Next]_vars

-----------------------------------------------------------------------------
(* Properties.                                                              *)

\* A rotation winner of family f that has not inserted the successor yet.
Minting(h) == task[h].step \in {"account", "mint"}
InFlight(f) == \E h \in Handlers : Minting(h) /\ task[h].family = f

\* A token is exchanged at most once: however refreshes race, a family never
\* holds two tokens a client could still exchange (the guarded UPDATE of
\* rotate_refresh_token is "the concurrency anchor").
SingleUsableToken ==
    \A s, t \in DOMAIN table :
        /\ table[s].family = table[t].family
        /\ table[s].family # Placeholder
        /\ Usable(s) /\ Usable(t)
        => s = t

\* The inductive form: an unrotated row and a winner that is about to insert
\* one exclude each other, and so do two winners.
OneHeir ==
    \A f \in Tokens :
        /\ \A s, t \in DOMAIN table :
              /\ table[s].family = f /\ ~table[s].rotated
              /\ table[t].family = f /\ ~table[t].rotated
              => s = t
        /\ \A g, h \in Handlers :
              /\ Minting(g) /\ task[g].family = f
              /\ Minting(h) /\ task[h].family = f
              => g = h
        /\ InFlight(f) =>
              \A t \in DOMAIN table : table[t].family = f => table[t].rotated

\* (Strengthening.) A row whose login has not written the family id back yet is known to that
\* login alone, and its id is nobody's family.
AdoptionPrivate ==
    \A h \in Handlers : task[h].step = "adopt" =>
        LET t == task[h].token IN
        /\ t \in Tokens
        /\ t <= lastId
        /\ t \notin DOMAIN issued
        /\ t \notin ended
        /\ \A s \in DOMAIN table : table[s].family # t
        /\ \A g \in Handlers : task[g].family # t
        /\ \A g \in Handlers : task[g].token = t => g = h

\* (Strengthening.) Ids, families and tokens in use were all allocated by the table, and what
\* a task remembers of a row agrees with the row while it exists.
Allocated ==
    /\ \A t \in DOMAIN table : t <= lastId /\ table[t].family <= lastId
    /\ \A t \in DOMAIN issued : t <= lastId
    /\ \A t \in DOMAIN table \cap DOMAIN issued : table[t].family = issued[t]
    /\ \A h \in Handlers :
          /\ task[h].token <= lastId
          /\ task[h].family <= lastId
          /\ task[h].step \notin {"idle", "save", "adopt"} =>
                task[h].token \in DOMAIN issued
          /\ task[h].step \in {"rotate", "account", "mint", "revoke",
                               "logout_revoke"} =>
                task[h].family = issued[task[h].token]
    /\ \A f \in ended : f <= lastId

\* Replaying a retired token is noticed: while a family that was never
\* revoked has a usable token, every other token it handed out is still in
\* the table and retired, so presenting it reaches the reuse branch (the
\* reason delete_expired_refresh_tokens keeps rotated rows).
ReplayDetectable ==
    \A t \in DOMAIN table :
        /\ Usable(t)
        /\ table[t].family \notin ended \cup {Placeholder}
        => \A s \in DOMAIN issued \ {t} :
               issued[s] = table[t].family =>
                   s \in DOMAIN table /\ table[s].rotated

Inv == TypeOK /\ Allocated /\ AdoptionPrivate /\ OneHeir

\* No session outlives its account, even when the account is deleted while a
\* login or a refresh is between two statements.
NoSessionOutlivesAccount == \A t \in DOMAIN table : table[t].user \in users

\* A family that was revoked and has neither a usable token nor a winner in
\* flight never comes back: a refresh that read the row before the revocation
\* must not revive it.
Closed(f) ==
    /\ f \in ended
    /\ ~InFlight(f)
    /\ \A t \in DOMAIN table : table[t].family = f => ~Usable(t)

ClosedForGood == [][\A f \in Tokens : Closed(f) => Closed(f)']_vars

ForeignRowsKept ==
    \A h \in Handlers : \A t \in DOMAIN table :
        /\ task[h].step = "logout_revoke"
        /\ task'[h].step = "idle"
        /\ table[t].user # task[h].user
        => t \in DOMAIN table' /\ table'[t] = table[t]

\* A logout never touches a session of somebody else, whatever token the
\* caller presents (the ownership test reads one row, the UPDATE revokes a
\* whole family).
ForeignSessionsUntouched == [][ForeignRowsKept]_vars

\* "the whole family is revoked so a stolen successor dies with it": once a
\* family was revoked (replay, lost race, logout, logout_all), none of its
\* tokens can be exchanged.
SuccessorDiesWithFamily ==
    \A t \in DOMAIN table : table[t].family \in ended \ {Placeholder} => ~Usable(t)
=============================================================================
