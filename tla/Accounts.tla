------------------------------- MODULE Accounts -------------------------------
(***************************************************************************)
(* Accounts, their platform role and its mirror in the memberships of the    *)
(* CMS organization: registration (src/src/routes/auth.rs), the user panel   *)
(* (src/src/routes/cms.rs), the repository behind both and the pass that     *)
(* every boot runs over the mirror (src/src/db.rs).                          *)
(*                                                                          *)
(* A handler is a sequence of database statements with awaits between them;  *)
(* one action is one statement.  A handler ends early when its statement     *)
(* fails, when its client goes away and the future is dropped, or when the   *)
(* server dies.  The CMS organization's row exists from the first boot on.   *)
(***************************************************************************)
EXTENDS Naturals, FiniteSets

CONSTANTS Registrars, \* registrations in flight
          Operators,  \* requests of the user panel in flight
          MaxUsers    \* bound: accounts ever created

ASSUME AccountsAssumption ==
    /\ MaxUsers \in Nat
    /\ Registrars \cap Operators = {}

VARIABLES
    server,      \* "down", "mirrored" (half way through the boot) or "up"
    users,       \* the role of every account, "none" without a row
    memberships, \* the role in the CMS organization, "none" without a row
    nextId,      \* AUTOINCREMENT: ids are never used again
    tasks,       \* the handlers in flight
    disturbed    \* accounts whose last role write was cut off or overlapped

vars == <<server, users, memberships, nextId, tasks, disturbed>>

Ids == 1..MaxUsers
Handlers == Registrars \cup Operators
Roles == {"admin", "editor", "user"}

Task == [pc     : {"idle", "load", "guard", "solo", "insert", "update", "sync", "delete"},
         op     : {"create", "update", "delete"},
         actor  : Ids \cup {0},
         target : Ids \cup {0},
         role   : Roles]

Idle == [pc |-> "idle", op |-> "create", actor |-> 0, target |-> 0, role |-> "user"]

TypeOK ==
    /\ server \in {"down", "mirrored", "up"}
    /\ users \in [Ids -> Roles \cup {"none"}]
    /\ memberships \in [Ids -> {"admin", "editor", "none"}]
    /\ nextId \in 1..MaxUsers + 1
    /\ tasks \in [Handlers -> Task]
    /\ disturbed \subseteq Ids

\* A fresh database, migrated and about to be mirrored.
Init ==
    /\ server = "down"
    /\ users = [u \in Ids |-> "none"]
    /\ memberships = [u \in Ids |-> "none"]
    /\ nextId = 1
    /\ tasks = [h \in Handlers |-> Idle]
    /\ disturbed = {}

-----------------------------------------------------------------------------

\* The membership a role amounts to: is_editor() roles have one.
Mirror(role) == IF role \in {"admin", "editor"} THEN role ELSE "none"

Admins == {u \in Ids : users[u] = "admin"}

SyncPending(u) == {h \in Handlers : tasks[h].pc = "sync" /\ tasks[h].target = u}

\* A write of u's row starts afresh, or lands in the middle of another one.
Touched(u) == IF SyncPending(u) = {} THEN disturbed \ {u} ELSE disturbed \cup {u}

At(h, pc) == server = "up" /\ tasks[h].pc = pc
Goto(h, pc) == tasks' = [tasks EXCEPT ![h].pc = pc]
Done(h) == tasks' = [tasks EXCEPT ![h] = Idle]

-----------------------------------------------------------------------------
(* Registration and SqliteUserRepository::create.                           *)

\* register: the role follows from the number of accounts, before Argon2.
RegisterCount(h) ==
    /\ At(h, "idle")
    /\ tasks' = [tasks EXCEPT ![h].pc = "insert",
                              ![h].role = IF \A u \in Ids : users[u] = "none"
                                          THEN "admin" ELSE "user"]
    /\ UNCHANGED <<server, users, memberships, nextId, disturbed>>

\* The INSERT of create.  (A taken username is a failure: Abort.)
Insert(h) ==
    /\ At(h, "insert")
    /\ nextId <= MaxUsers
    /\ users' = [users EXCEPT ![nextId] = tasks[h].role]
    /\ nextId' = nextId + 1
    /\ tasks' = [tasks EXCEPT ![h].pc = "sync", ![h].target = nextId]
    /\ UNCHANGED <<server, memberships, disturbed>>

\* sync_membership: upsert or delete; it does not look at the account's row.
Sync(h) ==
    /\ At(h, "sync")
    /\ memberships' = [memberships EXCEPT ![tasks[h].target] = Mirror(tasks[h].role)]
    /\ Done(h)
    /\ UNCHANGED <<server, users, nextId, disturbed>>

-----------------------------------------------------------------------------
(* The user panel.                                                          *)

\* CmsAdmin: the token is trusted for who the actor is, the membership is
\* read.  create_user goes on to Argon2 and the INSERT.
CreateUser(h) ==
    /\ At(h, "idle")
    /\ \E actor \in Ids, role \in Roles :
        /\ memberships[actor] = "admin"
        /\ tasks' = [tasks EXCEPT ![h] = [pc |-> "insert", op |-> "create", actor |-> actor,
                                          target |-> 0, role |-> role]]
    /\ UNCHANGED <<server, users, memberships, nextId, disturbed>>

\* update_user and delete_user begin with the same guard.
EditUser(h) ==
    /\ At(h, "idle")
    /\ \E actor, target \in Ids, op \in {"update", "delete"}, role \in Roles :
        /\ memberships[actor] = "admin"
        /\ target < nextId
        /\ op = "delete" => role = "user"
        /\ tasks' = [tasks EXCEPT ![h] = [pc |-> "load", op |-> op, actor |-> actor,
                                          target |-> target, role |-> role]]
    /\ UNCHANGED <<server, users, memberships, nextId, disturbed>>

AfterGuard(t) == IF t.op = "delete" THEN "solo" ELSE "update"

\* load_user, then the self-edit refusal; the last-admin guard runs when an
\* administrator is to stop being one.
Load(h) ==
    LET t == tasks[h] IN
    /\ At(h, "load")
    /\ IF users[t.target] = "none" \/ t.target = t.actor THEN Done(h)
       ELSE IF users[t.target] = "admin" /\ (t.op = "delete" \/ t.role # "admin")
            THEN Goto(h, "guard")
            ELSE Goto(h, AfterGuard(t))
    /\ UNCHANGED <<server, users, memberships, nextId, disturbed>>

\* Slip: the count may reach zero.
GuardOffByOne(h) ==
    /\ At(h, "guard")
    /\ IF Cardinality(Admins) < 1 THEN Done(h) ELSE Goto(h, AfterGuard(tasks[h]))
    /\ UNCHANGED <<server, users, memberships, nextId, disturbed>>

\* The last-admin guard: count_with_role.
Guard(h) ==
    /\ At(h, "guard")
    /\ IF Cardinality(Admins) <= 1 THEN Done(h) ELSE Goto(h, AfterGuard(tasks[h]))
    /\ UNCHANGED <<server, users, memberships, nextId, disturbed>>

\* delete_user asks for the organizations the account administers alone; the
\* CMS organization, whose memberships drift from the roles, is one of them.
Solo(h) ==
    /\ At(h, "solo")
    /\ IF {u \in Ids : memberships[u] = "admin"} = {tasks[h].target}
       THEN Done(h) ELSE Goto(h, "delete")
    /\ UNCHANGED <<server, users, memberships, nextId, disturbed>>

\* The UPDATE of update_role; no row, nothing to mirror.
Update(h) ==
    LET t == tasks[h] IN
    /\ At(h, "update")
    /\ IF users[t.target] = "none"
       THEN Done(h) /\ UNCHANGED <<users, disturbed>>
       ELSE /\ users' = [users EXCEPT ![t.target] = t.role]
            /\ disturbed' = Touched(t.target)
            /\ Goto(h, "sync")
    /\ UNCHANGED <<server, memberships, nextId>>

\* SqliteUserRepository::delete, one transaction.
Delete(h) ==
    /\ At(h, "delete")
    /\ users' = [users EXCEPT ![tasks[h].target] = "none"]
    /\ memberships' = [memberships EXCEPT ![tasks[h].target] = "none"]
    /\ disturbed' = Touched(tasks[h].target)
    /\ Done(h)
    /\ UNCHANGED <<server, nextId>>

-----------------------------------------------------------------------------
(* Failures and the boot.                                                   *)

\* A statement fails, or the client goes away.  Before the synchronization it
\* leaves the role written and the membership not.
Abort(h) ==
    /\ server = "up" /\ tasks[h].pc # "idle"
    /\ disturbed' = IF tasks[h].pc = "sync" THEN disturbed \cup {tasks[h].target}
                    ELSE disturbed
    /\ Done(h)
    /\ UNCHANGED <<server, users, memberships, nextId>>

Crash ==
    /\ server # "down"
    /\ server' = "down"
    /\ tasks' = [h \in Handlers |-> Idle]
    /\ UNCHANGED <<users, memberships, nextId, disturbed>>

\* The first statement of mirror_cms_memberships.
BootMirror ==
    /\ server = "down"
    /\ server' = "mirrored"
    /\ memberships' = [u \in Ids |-> IF users[u] \in {"admin", "editor"}
                                     THEN users[u] ELSE memberships[u]]
    /\ UNCHANGED <<users, nextId, tasks, disturbed>>

\* Slip: only the memberships of deleted accounts are pruned.
BootPruneOrphans ==
    /\ server = "mirrored"
    /\ server' = "up"
    /\ memberships' = [u \in Ids |-> IF users[u] = "none" THEN "none" ELSE memberships[u]]
    /\ disturbed' = {}
    /\ UNCHANGED <<users, nextId, tasks>>

\* The second statement, after which the server serves.
BootPrune ==
    /\ server = "mirrored"
    /\ server' = "up"
    /\ memberships' = [u \in Ids |-> IF users[u] \in {"admin", "editor"}
                                     THEN memberships[u] ELSE "none"]
    /\ disturbed' = {}
    /\ UNCHANGED <<users, nextId, tasks>>

Next ==
    \/ \E h \in Registrars : RegisterCount(h)
    \/ \E h \in Operators :
          \/ CreateUser(h) \/ EditUser(h) \/ Load(h)
          \/ Guard(h) \/ Solo(h) \/ Update(h) \/ Delete(h)
    \/ \E h \in Handlers : Insert(h) \/ Sync(h) \/ Abort(h)
    \/ Crash \/ BootMirror \/ BootPrune

Spec == Init /\ [][Next]_vars

-----------------------------------------------------------------------------
(* Properties.                                                              *)

\* The last-administrator law, for a panel used by one operator at a time:
\* once there is an administrator there always is one, however requests fail
\* half way and the server restarts between them.
AdminRemains == [][Admins # {} => Admins' # {}]_vars

\* "The CMS organization's memberships MIRROR the platform role": every role
\* write that is neither cut off nor overlapped, and every boot, leaves the
\* account with the membership of its role, and a deleted one with none.
MirrorUnlessDisturbed ==
    server = "up" =>
        \A u \in Ids \ disturbed : SyncPending(u) = {} => memberships[u] = Mirror(users[u])
=============================================================================
