--------------------------- MODULE IdentityProofs ----------------------------
(***************************************************************************)
(* Accounts and the teams of their organizations, for any number of         *)
(* accounts and requests in flight.                                         *)
(*                                                                          *)
(* MirrorUnlessDisturbed of Accounts says nothing of an account whose       *)
(* synchronization is pending. What makes it inductive is what holds        *)
(* meanwhile: the pending handler of an undisturbed account is the only one *)
(* and carries the role of the row (SyncAgrees); handlers only hold ids     *)
(* handed out before, so that a new account starts without one (Targets);   *)
(* and between the two statements of the boot the memberships miss nothing  *)
(* (BootHalfway). With one operator, what a request's guard saw still holds *)
(* when it writes (OthersRemain).                                           *)
(*                                                                          *)
(* In Team an organization keeps an administrator. What a handler has       *)
(* checked must still hold when it writes (StillSafe), unless somebody else *)
(* wrote in between; and the pages count differently, listed members here   *)
(* and bare rows there, which is the same thing only because no             *)
(* administrator's row is left without its account (NoOrphanAdmin).         *)
(*                                                                          *)
(* Last, what is shown of sessions and tokens one by one is shown of        *)
(* MCIdentity, where the parts stand side by side.                          *)
(***************************************************************************)
EXTENDS MCIdentity, FiniteSetTheorems, TLAPS

-----------------------------------------------------------------------------
(* Accounts.                                                                *)

Targets ==
    \A h \in Handlers :
        /\ tasks[h].target < nextId
        /\ tasks[h].pc \in {"load", "guard", "solo", "update", "sync", "delete"}
               => tasks[h].target \in Ids

SyncAgrees ==
    \A u \in Ids \ disturbed : \A h \in Handlers :
        tasks[h].pc = "sync" /\ tasks[h].target = u =>
            /\ users[u] = tasks[h].role
            /\ \A g \in Handlers : tasks[g].pc = "sync" /\ tasks[g].target = u => g = h

MirrorExact ==
    \A u \in Ids \ disturbed :
        (\A h \in Handlers : ~(tasks[h].pc = "sync" /\ tasks[h].target = u))
            => memberships[u] = Mirror(users[u])

BootHalfway ==
    /\ server # "up" => \A h \in Handlers : tasks[h] = Idle
    /\ server = "mirrored" =>
           \A u \in Ids : users[u] \in {"admin", "editor"} => memberships[u] = users[u]

Inv ==
    /\ TypeOK
    /\ Targets
    /\ SyncAgrees
    /\ BootHalfway
    /\ server = "up" => MirrorExact

-----------------------------------------------------------------------------

\* The initial states satisfy the invariant: no account, no request.
LEMMA InitInv == Init => Inv
<1> SUFFICES ASSUME Init PROVE Inv
    OBVIOUS
<1> USE DEF Init
<1>1. TypeOK
    BY AccountsAssumption DEF TypeOK, Ids, Roles, Task, Idle
<1>2. Targets /\ SyncAgrees /\ BootHalfway
    BY DEF Targets, SyncAgrees, BootHalfway, Idle
<1> QED BY <1>1, <1>2 DEF Inv

\* Every step keeps the types.
LEMMA StepType == Inv /\ [Next]_vars => TypeOK'
<1> SUFFICES ASSUME Inv, [Next]_vars PROVE TypeOK'
    OBVIOUS
<1>0. /\ TypeOK
      /\ Targets
      /\ MaxUsers \in Nat
    BY AccountsAssumption DEF Inv
<1> USE <1>0 DEF TypeOK, Goto, Done, At
<1>i. Idle \in Task
    BY DEF Idle, Task, Roles
<1>m. \A r \in Roles : Mirror(r) \in {"admin", "editor", "none"}
    BY DEF Mirror, Roles
<1>1. ASSUME NEW h \in Registrars, RegisterCount(h) PROVE TypeOK'
  <2>1. PICK r \in {"admin", "user"} :
            tasks' = [tasks EXCEPT ![h].pc = "insert", ![h].role = r]
    BY <1>1 DEF RegisterCount
  <2>2. tasks[h] \in Task /\ r \in Roles
    BY DEF Handlers, Roles
  <2>3. [tasks[h] EXCEPT !.pc = "insert", !.role = r] \in Task
    BY <2>2 DEF Task
  <2>4. tasks' \in [Handlers -> Task]
    BY <2>1, <2>3
  <2> QED BY <1>1, <2>4 DEF RegisterCount
<1>2. ASSUME NEW h \in Handlers, Insert(h) PROVE TypeOK'
  <2>1. nextId \in Ids
    BY <1>2 DEF Insert, Ids
  <2>2. tasks' \in [Handlers -> Task]
    <3> PICK t : t = [tasks[h] EXCEPT !.pc = "sync", !.target = nextId]
      OBVIOUS
    <3>1. tasks' = [tasks EXCEPT ![h] = t]
      BY <1>2 DEF Insert
    <3>2. t \in Task
      <4>1. tasks[h] \in Task
        OBVIOUS
      <4> QED BY <2>1, <4>1 DEF Task
    <3> QED BY <3>1, <3>2
  <2>3. users' \in [Ids -> Roles \cup {"none"}]
    BY <1>2, <2>1 DEF Insert, Task
  <2>4. nextId' \in 1..MaxUsers + 1
    BY <1>2, <2>1 DEF Insert
  <2> QED BY <1>2, <2>2, <2>3, <2>4 DEF Insert
<1>3. ASSUME NEW h \in Handlers, Sync(h) PROVE TypeOK'
  <2>1. Mirror(tasks[h].role) \in {"admin", "editor", "none"}
    BY <1>m DEF Task
  <2>2. memberships' \in [Ids -> {"admin", "editor", "none"}]
    BY <1>3, <2>1 DEF Sync
  <2> QED BY <1>3, <2>2, <1>i DEF Sync
<1>4. ASSUME NEW h \in Operators, CreateUser(h) PROVE TypeOK'
    BY <1>4 DEF CreateUser, Task, Handlers
<1>5. ASSUME NEW h \in Operators, EditUser(h) PROVE TypeOK'
    BY <1>5 DEF EditUser, Task, Handlers
<1>6. ASSUME NEW h \in Operators, Load(h) \/ Guard(h) \/ Solo(h) PROVE TypeOK'
  <2>1. tasks' \in [Handlers -> Task]
    BY <1>6, <1>i DEF Load, Guard, Solo, AfterGuard, Task, Handlers
  <2> QED BY <1>6, <2>1 DEF Load, Guard, Solo
<1>7. ASSUME NEW h \in Operators, Update(h) PROVE TypeOK'
  <2>1. tasks[h] \in Task /\ (tasks[h].pc = "update" => tasks[h].target \in Ids)
    BY DEF Handlers, Targets
  <2>2. tasks' \in [Handlers -> Task]
    BY <1>7, <1>i DEF Update, Task, Handlers
  <2>3. users' \in [Ids -> Roles \cup {"none"}] /\ disturbed' \subseteq Ids
    BY <1>7, <2>1 DEF Update, Touched, Task
  <2> QED BY <1>7, <2>2, <2>3 DEF Update
<1>8. ASSUME NEW h \in Operators, Delete(h) PROVE TypeOK'
  <2>1. tasks[h] \in Task /\ tasks[h].target \in Ids
    BY <1>8 DEF Handlers, Targets, Delete
  <2> QED BY <1>8, <1>i, <2>1 DEF Delete, Touched
<1>9. ASSUME NEW h \in Handlers, Abort(h) PROVE TypeOK'
    BY <1>9, <1>i DEF Abort, Targets
<1>10. CASE Crash
    BY <1>10, <1>i DEF Crash
<1>11. CASE BootMirror
    BY <1>11 DEF BootMirror
<1>12. CASE BootPrune
    BY <1>12 DEF BootPrune
<1>13. CASE UNCHANGED vars
    BY <1>13 DEF vars
<1> QED BY <1>1, <1>2, <1>3, <1>4, <1>5, <1>6, <1>7, <1>8, <1>9, <1>10, <1>11, <1>12, <1>13
        DEF Next, Handlers

\* Handlers only ever hold ids that were handed out.
LEMMA StepTargets == Inv /\ [Next]_vars => Targets'
<1> SUFFICES ASSUME Inv, [Next]_vars PROVE Targets'
    OBVIOUS
<1>0. TypeOK /\ Targets
    BY DEF Inv
<1> USE <1>0 DEF TypeOK, Targets, Goto, Done, At
<1>i. Idle.pc = "idle" /\ Idle.target = 0
    BY DEF Idle
<1>n. nextId \in Nat /\ nextId > 0 /\ \A h \in Handlers : tasks[h].target \in Nat
    BY AccountsAssumption DEF Ids, Task
<1>1. ASSUME NEW h \in Registrars, RegisterCount(h) PROVE Targets'
    BY <1>1, <1>n DEF RegisterCount, Handlers
<1>2. ASSUME NEW h \in Handlers, Insert(h) PROVE Targets'
  <2>1. nextId \in Ids /\ nextId' = nextId + 1
    BY <1>2, <1>n DEF Insert, Ids
  <2>2. tasks'[h].target = nextId
    BY <1>2 DEF Insert
  <2>3. \A g \in Handlers \ {h} : tasks'[g] = tasks[g]
    BY <1>2 DEF Insert
  <2> QED BY <2>1, <2>2, <2>3, <1>n
<1>3. ASSUME NEW h \in Handlers, Sync(h) \/ Abort(h) PROVE Targets'
    BY <1>3, <1>i, <1>n DEF Sync, Abort
<1>4. ASSUME NEW h \in Operators, CreateUser(h) \/ EditUser(h) PROVE Targets'
  <2>1. /\ tasks'[h].target = 0 \/ (tasks'[h].target \in Ids /\ tasks'[h].target < nextId)
        /\ tasks'[h].pc = "insert" \/ tasks'[h].target \in Ids
        /\ nextId' = nextId
        /\ \A g \in Handlers \ {h} : tasks'[g] = tasks[g]
    BY <1>4 DEF CreateUser, EditUser, Handlers
  <2> QED BY <2>1, <1>n
<1>5. ASSUME NEW h \in Operators, Load(h) \/ Guard(h) \/ Solo(h) \/ Update(h) \/ Delete(h)
      PROVE Targets'
  <2>1. \/ tasks'[h] = Idle
        \/ tasks'[h].target = tasks[h].target /\ tasks[h].target \in Ids
    <3>1. h \in Handlers /\ tasks[h] \in Task
      BY DEF Handlers
    <3>2. ASSUME NEW pc, tasks' = [tasks EXCEPT ![h].pc = pc]
          PROVE  tasks'[h].target = tasks[h].target
      BY <3>1, <3>2 DEF Task
    <3>3. tasks[h].target \in Ids
      BY <1>5, <3>1 DEF Load, Guard, Solo, Update, Delete
    <3>4. \/ tasks' = [tasks EXCEPT ![h] = Idle]
          \/ \E pc \in {"guard", "solo", "update", "sync", "delete"} :
                tasks' = [tasks EXCEPT ![h].pc = pc]
      <4>1. CASE Load(h)
        BY <4>1 DEF Load, AfterGuard
      <4>2. CASE Guard(h)
        BY <4>2 DEF Guard, AfterGuard
      <4>3. CASE Solo(h)
        BY <4>3 DEF Solo
      <4>4. CASE Update(h)
        BY <4>4 DEF Update
      <4>5. CASE Delete(h)
        BY <4>5 DEF Delete
      <4> QED BY <1>5, <4>1, <4>2, <4>3, <4>4, <4>5
    <3> QED BY <3>1, <3>2, <3>3, <3>4
  <2>2. /\ nextId' = nextId
        /\ \A g \in Handlers \ {h} : tasks'[g] = tasks[g]
    BY <1>5 DEF Load, Guard, Solo, Update, Delete, Handlers
  <2> QED BY <2>1, <2>2, <1>i, <1>n
<1>6. CASE Crash \/ BootMirror \/ BootPrune
    BY <1>6, <1>i, <1>n DEF Crash, BootMirror, BootPrune
<1>7. CASE UNCHANGED vars
    BY <1>7 DEF vars
<1> QED BY <1>1, <1>2, <1>3, <1>4, <1>5, <1>6, <1>7 DEF Next

\* Outside the running server nothing is in flight, and half way through the
\* boot no administrator or editor lacks the membership.
LEMMA StepBoot == Inv /\ [Next]_vars => BootHalfway'
<1> SUFFICES ASSUME Inv, [Next]_vars PROVE BootHalfway'
    OBVIOUS
<1>0. TypeOK /\ BootHalfway
    BY DEF Inv
<1> USE <1>0 DEF TypeOK, BootHalfway
<1>1. CASE \E h \in Registrars : RegisterCount(h)
    BY <1>1 DEF RegisterCount, At
<1>2. CASE \E h \in Handlers : Insert(h) \/ Sync(h) \/ Abort(h)
    BY <1>2 DEF Insert, Sync, Abort, At
<1>3. CASE \E h \in Operators : CreateUser(h) \/ EditUser(h) \/ Load(h) \/ Guard(h)
                               \/ Solo(h) \/ Update(h) \/ Delete(h)
    BY <1>3 DEF CreateUser, EditUser, Load, Guard, Solo, Update, Delete, At
<1>4. CASE Crash
    BY <1>4 DEF Crash
<1>5. CASE BootMirror
    BY <1>5 DEF BootMirror
<1>6. CASE BootPrune \/ UNCHANGED vars
    BY <1>6 DEF BootPrune, vars
<1> QED BY <1>1, <1>2, <1>3, <1>4, <1>5, <1>6 DEF Next

\* What a step does to the handlers that have a synchronization pending.
Untouched(u, h) == tasks'[h].pc = "sync" /\ tasks'[h].target = u
                       => tasks[h].pc = "sync" /\ tasks[h].target = u /\ tasks'[h] = tasks[h]

\* A step that writes no row, marks nothing and starts no synchronization keeps
\* the two agreements of the running server.
LEMMA Quiet ==
    ASSUME Inv, server = "up", server' = "up",
           users' = users, disturbed \subseteq disturbed',
           NEW W \in SUBSET Handlers,
           \A h \in Handlers : \A u \in Ids : Untouched(u, h),
           \A h \in Handlers : tasks'[h] = tasks[h] \/ h \in W,
           \A h \in W : tasks[h].pc = "sync" => tasks[h].target \in disturbed',
           memberships' = memberships
    PROVE  SyncAgrees' /\ MirrorExact'
<1>1. SyncAgrees'
    BY DEF Inv, SyncAgrees, Untouched
<1>2. MirrorExact'
    BY DEF Inv, MirrorExact, Untouched
<1> QED BY <1>1, <1>2

\* The handlers' steps keep both agreements.
LEMMA ServeMirror ==
    ASSUME Inv, server = "up",
           \/ \E h \in Registrars : RegisterCount(h)
           \/ \E h \in Operators : \/ CreateUser(h) \/ EditUser(h) \/ Load(h) \/ Guard(h)
                                  \/ Solo(h) \/ Update(h) \/ Delete(h)
           \/ \E h \in Handlers : Insert(h) \/ Sync(h) \/ Abort(h)
    PROVE  SyncAgrees' /\ MirrorExact'
<1>0. TypeOK /\ Targets /\ SyncAgrees /\ MirrorExact
    BY DEF Inv
<1>t. \A h \in Handlers : tasks[h] \in Task
    BY <1>0 DEF TypeOK
<1>i. Idle.pc = "idle"
    BY DEF Idle
<1>f. tasks = [h \in Handlers |-> tasks[h]]
    BY <1>0 DEF TypeOK
<1>1. ASSUME NEW h \in Handlers,
             server' = "up" /\ users' = users /\ memberships' = memberships,
             disturbed' = disturbed \cup IF tasks[h].pc = "sync" THEN {tasks[h].target} ELSE {},
             \A g \in Handlers \ {h} : tasks'[g] = tasks[g],
             tasks'[h].pc # "sync"
      PROVE  SyncAgrees' /\ MirrorExact'
  <2>1. \A g \in Handlers : \A u \in Ids : Untouched(u, g)
    BY <1>1 DEF Untouched
  <2>2. /\ disturbed \subseteq disturbed'
        /\ \A g \in {h} : tasks[g].pc = "sync" => tasks[g].target \in disturbed'
        /\ \A g \in Handlers : tasks'[g] = tasks[g] \/ g \in {h}
        /\ {h} \in SUBSET Handlers
    BY <1>1
  <2> QED BY <1>1, <2>1, <2>2, Quiet
<1>2. ASSUME NEW h \in Registrars, RegisterCount(h) PROVE SyncAgrees' /\ MirrorExact'
  <2>1. h \in Handlers /\ tasks[h].pc = "idle" /\ tasks'[h].pc = "insert"
    BY <1>2, <1>t, <1>f DEF RegisterCount, Handlers, Task, At
  <2>2. \A g \in Handlers \ {h} : tasks'[g] = tasks[g]
    BY <1>2, <1>f DEF RegisterCount
  <2> QED BY <1>1, <1>2, <2>1, <2>2 DEF RegisterCount
<1>3. ASSUME NEW h \in Operators, CreateUser(h) \/ EditUser(h) PROVE SyncAgrees' /\ MirrorExact'
  <2>1. h \in Handlers /\ tasks[h].pc = "idle" /\ tasks'[h].pc \in {"insert", "load"}
    BY <1>3, <1>t, <1>f DEF CreateUser, EditUser, Handlers, At
  <2>2. \A g \in Handlers \ {h} : tasks'[g] = tasks[g]
    BY <1>3, <1>f DEF CreateUser, EditUser
  <2> QED BY <1>1, <1>3, <2>1, <2>2 DEF CreateUser, EditUser
<1>4. ASSUME NEW h \in Operators, Load(h) \/ Guard(h) \/ Solo(h) PROVE SyncAgrees' /\ MirrorExact'
  <2>1. h \in Handlers /\ tasks[h].pc \in {"load", "guard", "solo"}
    BY <1>4 DEF Load, Guard, Solo, Handlers, At
  <2>2. \/ tasks' = [tasks EXCEPT ![h] = Idle]
        \/ \E pc \in {"guard", "solo", "update", "delete"} : tasks' = [tasks EXCEPT ![h].pc = pc]
    BY <1>4 DEF Load, Guard, Solo, AfterGuard, Goto, Done
  <2>3. tasks'[h].pc # "sync"
    BY <2>1, <2>2, <1>t, <1>f, <1>i DEF Task
  <2>4. \A g \in Handlers \ {h} : tasks'[g] = tasks[g]
    BY <2>2, <1>f
  <2> QED BY <1>1, <1>4, <2>1, <2>3, <2>4 DEF Load, Guard, Solo
<1>5. ASSUME NEW h \in Handlers, Abort(h) PROVE SyncAgrees' /\ MirrorExact'
  <2>1. tasks'[h].pc # "sync" /\ \A g \in Handlers \ {h} : tasks'[g] = tasks[g]
    BY <1>5, <1>f, <1>i DEF Abort, Done
  <2> QED BY <1>1, <1>5, <2>1 DEF Abort
\* A new account has no handler yet but the one that created it.
<1>6. ASSUME NEW h \in Handlers, Insert(h) PROVE SyncAgrees' /\ MirrorExact'
  <2>1. /\ tasks'[h].pc = "sync" /\ tasks'[h].target = nextId /\ tasks'[h].role = tasks[h].role
        /\ \A g \in Handlers \ {h} : tasks'[g] = tasks[g]
    BY <1>6, <1>t, <1>f DEF Insert, Task
  <2>2. tasks[h].pc = "insert" /\ disturbed' = disturbed /\ memberships' = memberships
    BY <1>6 DEF Insert, At
  <2>3. nextId \in Ids /\ users'[nextId] = tasks[h].role
        /\ \A u \in Ids \ {nextId} : users'[u] = users[u]
    BY <1>6, <1>0, AccountsAssumption DEF Insert, TypeOK, Ids
  <2>4. \A g \in Handlers : tasks[g].target # nextId
    BY <1>0, <1>t, <2>3 DEF Targets, Ids, Task
  <2>5. SyncAgrees'
    BY <1>0, <2>1, <2>2, <2>3, <2>4 DEF SyncAgrees
  <2>6. MirrorExact'
    BY <1>0, <2>1, <2>2, <2>3, <2>4 DEF MirrorExact
  <2> QED BY <2>5, <2>6
\* The synchronization of an undisturbed account writes the role of its row.
<1>7. ASSUME NEW h \in Handlers, Sync(h) PROVE SyncAgrees' /\ MirrorExact'
  <2>1. /\ tasks[h].pc = "sync" /\ tasks'[h].pc = "idle"
        /\ \A g \in Handlers \ {h} : tasks'[g] = tasks[g]
        /\ users' = users /\ disturbed' = disturbed
    BY <1>7, <1>f, <1>i DEF Sync, At, Done
  <2>2. tasks[h].target \in Ids
    BY <2>1, <1>0 DEF Targets
  <2>3. /\ memberships'[tasks[h].target] = Mirror(tasks[h].role)
        /\ \A u \in Ids \ {tasks[h].target} : memberships'[u] = memberships[u]
    BY <1>7, <1>0, <2>2 DEF Sync, TypeOK
  <2>4. SyncAgrees'
    BY <1>0, <2>1 DEF SyncAgrees
  <2>5. ASSUME NEW u \in Ids \ disturbed,
               \A g \in Handlers : ~(tasks'[g].pc = "sync" /\ tasks'[g].target = u)
        PROVE  memberships'[u] = Mirror(users[u])
    <3>1. CASE u = tasks[h].target
      BY <3>1, <1>0, <2>1, <2>3 DEF SyncAgrees
    <3>2. CASE u # tasks[h].target
      BY <3>2, <1>0, <2>1, <2>3, <2>5 DEF MirrorExact
    <3> QED BY <3>1, <3>2
  <2>6. MirrorExact'
    BY <2>1, <2>5 DEF MirrorExact
  <2> QED BY <2>4, <2>6
\* A role is written: undisturbed afterwards only when nobody else is pending.
<1>8. ASSUME NEW h \in Operators, Update(h) PROVE SyncAgrees' /\ MirrorExact'
  <2> DEFINE u0 == tasks[h].target
  <2>0. h \in Handlers /\ tasks[h].pc = "update" /\ u0 \in Ids /\ server' = "up"
        /\ memberships' = memberships
    BY <1>8, <1>0 DEF Update, At, Targets, Handlers
  <2>1. CASE users[u0] = "none"
    <3>1. /\ tasks'[h].pc # "sync" /\ \A g \in Handlers \ {h} : tasks'[g] = tasks[g]
          /\ users' = users /\ disturbed' = disturbed
      BY <1>8, <2>0, <2>1, <1>f, <1>i DEF Update, Done
    <3> QED BY <1>1, <2>0, <3>1
  <2>2. CASE users[u0] # "none"
    <3>1. /\ tasks'[h].pc = "sync" /\ tasks'[h].target = u0 /\ tasks'[h].role = tasks[h].role
          /\ \A g \in Handlers \ {h} : tasks'[g] = tasks[g]
      BY <1>8, <2>0, <2>2, <1>f, <1>t DEF Update, Goto, Task
    <3>2. /\ users'[u0] = tasks[h].role
          /\ \A u \in Ids \ {u0} : users'[u] = users[u]
      BY <1>8, <1>0, <2>0, <2>2 DEF Update, TypeOK
    <3>3. /\ u0 \notin disturbed' => SyncPending(u0) = {}
          /\ \A u \in Ids \ {u0} : u \in disturbed' <=> u \in disturbed
      BY <1>8, <2>0, <2>2 DEF Update, Touched
    <3>4. SyncAgrees'
      BY <1>0, <2>0, <3>1, <3>2, <3>3 DEF SyncAgrees, SyncPending
    <3>5. MirrorExact'
      BY <1>0, <2>0, <3>1, <3>2, <3>3 DEF MirrorExact
    <3> QED BY <3>4, <3>5
  <2> QED BY <2>1, <2>2
\* A deleted account: no role, no membership.
<1>9. ASSUME NEW h \in Operators, Delete(h) PROVE SyncAgrees' /\ MirrorExact'
  <2> DEFINE u0 == tasks[h].target
  <2>0. h \in Handlers /\ tasks[h].pc = "delete" /\ u0 \in Ids
    BY <1>9, <1>0 DEF Delete, At, Targets, Handlers
  <2>1. tasks'[h].pc = "idle" /\ \A g \in Handlers \ {h} : tasks'[g] = tasks[g]
    BY <1>9, <2>0, <1>f, <1>i DEF Delete, Done
  <2>2. /\ users'[u0] = "none" /\ memberships'[u0] = "none"
        /\ \A u \in Ids \ {u0} : users'[u] = users[u] /\ memberships'[u] = memberships[u]
    BY <1>9, <1>0, <2>0 DEF Delete, TypeOK
  <2>3. /\ u0 \notin disturbed' => SyncPending(u0) = {}
        /\ \A u \in Ids \ {u0} : u \in disturbed' <=> u \in disturbed
    BY <1>9, <2>0 DEF Delete, Touched
  <2>4. SyncAgrees'
    BY <1>0, <2>0, <2>1, <2>2, <2>3 DEF SyncAgrees, SyncPending
  <2>5. MirrorExact'
    BY <1>0, <2>0, <2>1, <2>2, <2>3 DEF MirrorExact, Mirror
  <2> QED BY <2>4, <2>5
<1> QED BY <1>2, <1>3, <1>4, <1>5, <1>6, <1>7, <1>8, <1>9

\* So does every other step; the boot establishes them.
LEMMA StepMirror == Inv /\ [Next]_vars => SyncAgrees' /\ (server' = "up" => MirrorExact')
<1> SUFFICES ASSUME Inv, [Next]_vars PROVE SyncAgrees' /\ (server' = "up" => MirrorExact')
    OBVIOUS
<1>0. TypeOK /\ SyncAgrees /\ BootHalfway /\ (server = "up" => MirrorExact)
    BY DEF Inv
<1>i. Idle.pc = "idle"
    BY DEF Idle
<1>1. CASE \/ \E h \in Registrars : RegisterCount(h)
           \/ \E h \in Operators : \/ CreateUser(h) \/ EditUser(h) \/ Load(h) \/ Guard(h)
                                  \/ Solo(h) \/ Update(h) \/ Delete(h)
           \/ \E h \in Handlers : Insert(h) \/ Sync(h) \/ Abort(h)
  <2>1. server = "up"
    BY <1>1 DEF RegisterCount, CreateUser, EditUser, Load, Guard, Solo, Update, Delete,
                Insert, Sync, Abort, At
  <2> QED BY <1>1, <2>1, ServeMirror
<1>2. CASE Crash
    BY <1>2, <1>i DEF Crash, SyncAgrees
<1>3. CASE BootMirror
    BY <1>3, <1>0, <1>i DEF BootMirror, SyncAgrees, BootHalfway
<1>4. CASE BootPrune
  <2>1. \A h \in Handlers : tasks'[h].pc = "idle"
    BY <1>4, <1>0, <1>i DEF BootPrune, BootHalfway
  <2>2. \A u \in Ids : memberships'[u] = Mirror(users'[u])
    BY <1>4, <1>0 DEF BootPrune, BootHalfway, TypeOK, Mirror
  <2> QED BY <2>1, <2>2 DEF SyncAgrees, MirrorExact
<1>5. CASE UNCHANGED vars
    BY <1>5, <1>0 DEF vars, SyncAgrees, MirrorExact
<1> QED BY <1>1, <1>2, <1>3, <1>4, <1>5 DEF Next

-----------------------------------------------------------------------------

\* The invariant holds always.
LEMMA Invariant == Spec => []Inv
<1>1. Inv /\ [Next]_vars => Inv'
    BY StepType, StepTargets, StepBoot, StepMirror DEF Inv
<1> QED BY InitInv, <1>1, PTL DEF Spec

\* The accounts, memberships and handlers keep their types, for every number
\* of requests in flight.
THEOREM TypeCorrect == Spec => []TypeOK
<1>1. Inv => TypeOK
    BY DEF Inv
<1> QED BY <1>1, Invariant, PTL

\* A role write that was neither cut off nor overlapped, and every boot, leaves
\* an account with exactly the membership of its role.
THEOREM MirrorHolds == Spec => []MirrorUnlessDisturbed
<1>1. Inv => MirrorUnlessDisturbed
    BY DEF Inv, MirrorExact, MirrorUnlessDisturbed, SyncPending
<1> QED BY <1>1, Invariant, PTL

-----------------------------------------------------------------------------
(* Accounts: the last administrator.                                        *)

\* Taking one of several administrators leaves another.
LEMMA AnotherRemains ==
  ASSUME NEW S, NEW user, S # {}, user \in S => Cardinality(S) # 1
  PROVE  S \ {user} # {}
<1> SUFFICES ASSUME S \ {user} = {} PROVE FALSE
  OBVIOUS
<1>1. S = {user}
  OBVIOUS
<1> QED BY <1>1, FS_Singleton

\* Ids not handed out yet have no account; a registration edits nobody.
Newcomers ==
    /\ \A u \in Ids : u >= nextId => users[u] = "none"
    /\ \A h \in Registrars : tasks[h].pc \in {"idle", "insert", "sync"}

\* The request is past its guard and about to take the role of an administrator.
Demotes(t) == t.pc \in {"solo", "delete"} \/ (t.pc = "update" /\ t.role # "admin")

\* What the guard saw is still so: somebody else is an administrator.
OthersRemain ==
    \A h \in Operators :
        Demotes(tasks[h]) => users[tasks[h].target] # "admin" \/ Admins \ {tasks[h].target} # {}

AdminInv == Inv /\ Newcomers /\ OthersRemain

LEMMA AdminInit == Init => AdminInv
<1> SUFFICES ASSUME Init PROVE AdminInv
  OBVIOUS
<1>1. Newcomers /\ OthersRemain
  BY DEF Init, Idle, Newcomers, OthersRemain, Demotes, Handlers
<1> QED BY <1>1, InitInv DEF AdminInv

\* A new account takes no administrator away.
LEMMA InsertAdds ==
  ASSUME AdminInv, NEW h \in Handlers, Insert(h)
  PROVE  /\ nextId \in Ids /\ nextId' = nextId + 1
         /\ Admins \subseteq Admins'
         /\ \A u \in Ids \ {nextId} : users'[u] = users[u]
         /\ \A g \in Handlers \ {h} : tasks'[g] = tasks[g]
         /\ tasks'[h].pc = "sync"
<1>1. TypeOK /\ Newcomers
  BY DEF AdminInv, Inv
<1>2. nextId \in Ids /\ nextId' = nextId + 1
  BY <1>1, AccountsAssumption DEF Insert, TypeOK, Ids
<1>3. users[nextId] = "none"
  BY <1>1, <1>2 DEF Newcomers, Ids
<1>4. \A u \in Ids \ {nextId} : users'[u] = users[u]
  BY <1>1 DEF Insert, TypeOK
<1>5. Admins \subseteq Admins'
  BY <1>3, <1>4 DEF Admins
<1>6. /\ \A g \in Handlers \ {h} : tasks'[g] = tasks[g]
      /\ tasks'[h].pc = "sync"
  BY <1>1 DEF Insert, TypeOK, Task
<1> QED BY <1>2, <1>4, <1>5, <1>6

\* With one operator the guards are never overtaken.
LEMMA AdminStep ==
  ASSUME NEW op, Operators = {op}, AdminInv, [Next]_vars
  PROVE  AdminInv' /\ (Admins # {} => Admins' # {})
<1>0. Inv /\ TypeOK /\ Targets /\ Newcomers /\ OthersRemain
  BY DEF AdminInv, Inv
<1>i. Inv'
  BY <1>0, StepType, StepTargets, StepBoot, StepMirror DEF Inv
<1>h. op \in Handlers /\ op \notin Registrars /\ tasks[op] \in Task
  BY <1>0, AccountsAssumption DEF Handlers, TypeOK
<1>d. Idle.pc = "idle"
  BY DEF Idle
<1> SUFFICES Newcomers' /\ OthersRemain' /\ (Admins # {} => Admins' # {})
  BY <1>i DEF AdminInv
\* Steps that write no account and leave the operator where it was, or harmless.
<1>q. ASSUME users' = users, nextId' = nextId,
             \A h \in Registrars : tasks'[h] = tasks[h] \/ tasks'[h].pc \in {"idle", "insert", "sync"},
             \/ tasks'[op] = tasks[op]
             \/ ~Demotes(tasks'[op])
             \/ users[tasks'[op].target] # "admin"
             \/ Admins \ {tasks'[op].target} # {}
      PROVE  Newcomers' /\ OthersRemain' /\ (Admins # {} => Admins' # {})
  <2>1. Admins' = Admins
    BY <1>q DEF Admins
  <2>2. Newcomers'
    BY <1>q, <1>0 DEF Newcomers
  <2>3. OthersRemain'
    BY <1>q, <1>0, <2>1 DEF OthersRemain
  <2> QED BY <2>1, <2>2, <2>3
<1>1. ASSUME NEW h \in Registrars, RegisterCount(h) PROVE Newcomers' /\ OthersRemain' /\ (Admins # {} => Admins' # {})
  <2>1. tasks'[h].pc = "insert" /\ \A g \in Handlers \ {h} : tasks'[g] = tasks[g]
    BY <1>1, <1>0 DEF RegisterCount, TypeOK, Task, Handlers
  <2> QED BY <2>1, <1>1, <1>h, <1>q DEF RegisterCount, Handlers
<1>2. ASSUME NEW h \in Handlers, Insert(h) PROVE Newcomers' /\ OthersRemain' /\ (Admins # {} => Admins' # {})
  <2>1. /\ nextId \in Ids /\ nextId' = nextId + 1
        /\ Admins \subseteq Admins'
        /\ \A u \in Ids \ {nextId} : users'[u] = users[u]
        /\ \A g \in Handlers \ {h} : tasks'[g] = tasks[g]
        /\ tasks'[h].pc = "sync"
    BY <1>2, InsertAdds
  <2>2. Newcomers'
    BY <2>1, <1>0 DEF Newcomers, Ids, Handlers
  <2>3. ASSUME Demotes(tasks'[op])
        PROVE  users'[tasks'[op].target] # "admin" \/ Admins' \ {tasks'[op].target} # {}
    <3>1. tasks'[op] = tasks[op]
      BY <2>1, <2>3, <1>h DEF Demotes
    <3>2. tasks[op].target \in Ids \ {nextId}
      BY <3>1, <2>3, <1>0, <1>h, <2>1 DEF Demotes, Targets, Ids
    <3>3. users[tasks[op].target] # "admin" \/ Admins \ {tasks[op].target} # {}
      BY <3>1, <2>3, <1>0 DEF OthersRemain
    <3> QED BY <3>1, <3>2, <3>3, <2>1
  <2>4. OthersRemain'
    BY <2>3 DEF OthersRemain
  <2> QED BY <2>1, <2>2, <2>4
<1>3. ASSUME NEW h \in Handlers, Sync(h) \/ Abort(h) PROVE Newcomers' /\ OthersRemain' /\ (Admins # {} => Admins' # {})
  <2>1. tasks'[h].pc = "idle" /\ \A g \in Handlers \ {h} : tasks'[g] = tasks[g]
    BY <1>3, <1>0, <1>d DEF Sync, Abort, Done, TypeOK
  <2>2. users' = users /\ nextId' = nextId
    BY <1>3 DEF Sync, Abort
  <2>3. tasks'[op] = tasks[op] \/ ~Demotes(tasks'[op])
    BY <2>1, <1>h DEF Demotes
  <2> QED BY <2>1, <2>2, <2>3, <1>q DEF Handlers
<1>r. ASSUME NEW T, tasks' = [tasks EXCEPT ![op] = T] \/ tasks' = [tasks EXCEPT ![op].pc = T]
      PROVE  \A h \in Registrars : tasks'[h] = tasks[h]
  BY <1>r, <1>0, <1>h DEF TypeOK, Handlers
<1>4. CASE CreateUser(op) \/ EditUser(op)
  <2>1. tasks'[op].pc \in {"insert", "load"} /\ \A h \in Registrars : tasks'[h] = tasks[h]
    BY <1>4, <1>0, <1>h DEF CreateUser, EditUser, TypeOK, Handlers
  <2>2. users' = users /\ nextId' = nextId
    BY <1>4 DEF CreateUser, EditUser
  <2>3. ~Demotes(tasks'[op])
    BY <2>1 DEF Demotes
  <2> QED BY <2>1, <2>2, <2>3, <1>q
<1>t. ASSUME NEW pc, tasks' = [tasks EXCEPT ![op].pc = pc]
      PROVE  /\ tasks'[op].pc = pc
             /\ tasks'[op].target = tasks[op].target
             /\ tasks'[op].role = tasks[op].role
  BY <1>t, <1>0, <1>h DEF TypeOK, Task
<1>x. ASSUME tasks' = [tasks EXCEPT ![op] = Idle] PROVE ~Demotes(tasks'[op])
  BY <1>x, <1>0, <1>h, <1>d DEF TypeOK, Demotes
<1>5. CASE Load(op)
  <2>0. users' = users /\ nextId' = nextId
    BY <1>5 DEF Load
  <2>1. CASE tasks' = [tasks EXCEPT ![op] = Idle]
    BY <2>0, <2>1, <1>r, <1>x, <1>q
  <2>2. CASE tasks' = [tasks EXCEPT ![op].pc = "guard"]
    <3>0. tasks'[op].pc = "guard"
      BY <2>2, <1>t
    <3>1. ~Demotes(tasks'[op])
      BY <3>0 DEF Demotes
    <3> QED BY <3>1, <2>0, <2>2, <1>r, <1>q
  <2>3. CASE /\ tasks' = [tasks EXCEPT ![op].pc = AfterGuard(tasks[op])]
             /\ ~(users[tasks[op].target] = "admin" /\ (tasks[op].op = "delete" \/ tasks[op].role # "admin"))
    <3>1. tasks'[op].target = tasks[op].target /\ tasks'[op].role = tasks[op].role
          /\ tasks'[op].pc = AfterGuard(tasks[op])
      BY <2>3, <1>t
    <3>2. ~Demotes(tasks'[op]) \/ users[tasks'[op].target] # "admin"
      BY <3>1, <2>3 DEF Demotes, AfterGuard
    <3> QED BY <3>2, <2>0, <2>3, <1>r, <1>q
  <2> QED BY <1>5, <2>1, <2>2, <2>3 DEF Load, Done, Goto
<1>6. CASE Guard(op)
  <2>0. users' = users /\ nextId' = nextId
    BY <1>6 DEF Guard
  <2>1. CASE tasks' = [tasks EXCEPT ![op] = Idle]
    BY <2>0, <2>1, <1>r, <1>x, <1>q
  <2>2. CASE /\ tasks' = [tasks EXCEPT ![op].pc = AfterGuard(tasks[op])]
             /\ ~(Cardinality(Admins) <= 1)
    <3>1. tasks'[op].target = tasks[op].target
      BY <2>2, <1>t
    <3>2. Admins # {} /\ Cardinality(Admins) # 1
      BY <2>2, FS_EmptySet
    <3>3. Admins \ {tasks[op].target} # {}
      BY <3>2, AnotherRemains
    <3> QED BY <3>1, <3>3, <2>0, <2>2, <1>r, <1>q
  <2> QED BY <1>6, <2>1, <2>2 DEF Guard, Done, Goto
<1>7. CASE Solo(op)
  <2>0. users' = users /\ nextId' = nextId
    BY <1>7 DEF Solo
  <2>1. CASE tasks' = [tasks EXCEPT ![op] = Idle]
    BY <2>0, <2>1, <1>r, <1>x, <1>q
  <2>2. CASE tasks' = [tasks EXCEPT ![op].pc = "delete"]
    <3>1. tasks'[op].target = tasks[op].target
      BY <2>2, <1>t
    <3>2. users[tasks[op].target] # "admin" \/ Admins \ {tasks[op].target} # {}
      BY <1>7, <1>0 DEF Solo, At, OthersRemain, Demotes
    <3> QED BY <3>1, <3>2, <2>0, <2>2, <1>r, <1>q
  <2> QED BY <1>7, <2>1, <2>2 DEF Solo, Done, Goto
\* The two writes.
<1>w. ASSUME NEW role, nextId' = nextId,
             users' = [users EXCEPT ![tasks[op].target] = role],
             role = "admin" \/ Demotes(tasks[op]),
             tasks[op].target \in Ids, tasks[op].target < nextId,
             ~Demotes(tasks'[op]),
             \A h \in Registrars : tasks'[h] = tasks[h]
      PROVE  Newcomers' /\ OthersRemain' /\ (Admins # {} => Admins' # {})
  <2>1. \A u \in Ids \ {tasks[op].target} : users'[u] = users[u]
    BY <1>w, <1>0 DEF TypeOK
  <2>2. Newcomers'
    BY <2>1, <1>w, <1>0 DEF Newcomers, TypeOK, Ids
  <2>3. OthersRemain'
    BY <1>w DEF OthersRemain
  <2>4. Admins \ {tasks[op].target} \subseteq Admins'
    BY <2>1 DEF Admins
  <2>5. CASE role = "admin"
    <3>1. tasks[op].target \in Admins'
      BY <2>5, <1>w, <1>0 DEF Admins, TypeOK
    <3> QED BY <3>1, <2>2, <2>3
  <2>6. CASE Demotes(tasks[op])
    <3>1. users[tasks[op].target] # "admin" \/ Admins \ {tasks[op].target} # {}
      BY <2>6, <1>0 DEF OthersRemain
    <3>2. Admins # {} => Admins \ {tasks[op].target} # {}
      BY <3>1 DEF Admins
    <3> QED BY <3>2, <2>2, <2>3, <2>4
  <2> QED BY <1>w, <2>5, <2>6
<1>8. CASE Update(op)
  <2>t. tasks[op].target \in Ids /\ tasks[op].target < nextId 
    BY <1>8, <1>0, <1>h DEF Update, At, Targets
  <2>0. nextId' = nextId
    BY <1>8 DEF Update
  <2>1. CASE tasks' = [tasks EXCEPT ![op] = Idle] /\ users' = users
    BY <2>0, <2>1, <1>r, <1>x, <1>q
  <2>2. CASE /\ tasks' = [tasks EXCEPT ![op].pc = "sync"]
             /\ users' = [users EXCEPT ![tasks[op].target] = tasks[op].role]
    <3>0. tasks'[op].pc = "sync"
      BY <2>2, <1>t
    <3>1. ~Demotes(tasks'[op])
      BY <3>0 DEF Demotes
    <3>2. tasks[op].role = "admin" \/ Demotes(tasks[op])
      BY <1>8 DEF Update, At, Demotes
    <3>3. \A h \in Registrars : tasks'[h] = tasks[h]
      BY <2>2, <1>r
    <3> QED BY <3>1, <3>2, <3>3, <2>0, <2>2, <2>t, <1>w
  <2> QED BY <1>8, <2>1, <2>2 DEF Update, Done, Goto
<1>9. CASE Delete(op)
  <2>1. tasks[op].target \in Ids /\ tasks[op].target < nextId
    BY <1>9, <1>0, <1>h DEF Delete, At, Targets
  <2>2. /\ nextId' = nextId
        /\ users' = [users EXCEPT ![tasks[op].target] = "none"]
        /\ tasks' = [tasks EXCEPT ![op] = Idle]
    BY <1>9 DEF Delete, Done
  <2>3. Demotes(tasks[op])
    BY <1>9 DEF Delete, At, Demotes
  <2>4. /\ ~Demotes(tasks'[op])
        /\ \A h \in Registrars : tasks'[h] = tasks[h]
    BY <2>2, <1>r, <1>x
  <2> QED BY <2>1, <2>2, <2>3, <2>4, <1>w
<1>10. CASE Crash \/ BootMirror \/ BootPrune \/ UNCHANGED vars
  <2>1. users' = users /\ nextId' = nextId
    BY <1>10 DEF Crash, BootMirror, BootPrune, vars
  <2>2. \A h \in Handlers : tasks'[h] = tasks[h] \/ tasks'[h].pc = "idle"
    BY <1>10, <1>d DEF Crash, BootMirror, BootPrune, vars
  <2>3. tasks'[op] = tasks[op] \/ ~Demotes(tasks'[op])
    BY <2>2, <1>h DEF Demotes
  <2> QED BY <2>1, <2>2, <2>3, <1>q DEF Handlers
<1> QED BY <1>1, <1>2, <1>3, <1>4, <1>5, <1>6, <1>7, <1>8, <1>9, <1>10 DEF Next

\* A platform whose panel is used by one operator at a time keeps its last
\* administrator: the guard's count is still true when its request writes,
\* whoever registers meanwhile and wherever requests fail or the server dies.
THEOREM OneOperatorKeepsAnAdmin ==
  ASSUME NEW op, Operators = {op}
  PROVE  Spec => AdminRemains
<1>1. AdminInv /\ [Next]_vars => AdminInv' /\ [Admins # {} => Admins' # {}]_vars
  BY AdminStep
<1> QED BY AdminInit, <1>1, PTL DEF Spec, AdminRemains

-----------------------------------------------------------------------------
(* Team.                                                                    *)

\* Only grants look an account up; a grant that is checked demotes.
Formed(t) ==
    /\ t.pc # "idle" => t.user \in Users
    /\ t.pc = "find" => t.op = "grant"
    /\ t.pc = "check" /\ t.op = "grant" => t.role = "editor"

Shape ==
    /\ requests \in [Requests -> Request]
    /\ members \in [Users -> {"admin", "editor", "none"}]
    /\ accounts \subseteq Users
    /\ raced \in BOOLEAN
    /\ \A h \in Requests : Formed(requests[h])

\* A write that takes an administrator's rights, and does not take the last's.
Harmless(t) ==
    \/ t.op = "grant" /\ t.role = "admin" /\ t.user \in accounts
    \/ t.op # "account" /\ (t.op = "grant" => t.role = "editor") /\ ~SoloAdministrator(t.user)
    \/ t.op = "account" /\ ~SoloAdministrated(t.user)

StillSafe == \A h \in Requests : InStep(h, "write") /\ ~raced /\ exists => Harmless(requests[h])

NoOrphanAdmin == ~raced /\ exists => AdminRows \subseteq accounts

TeamInv == Shape /\ StillSafe /\ NoOrphanAdmin

LEMMA NoRequestTyped == NoRequest \in Request
BY DEF NoRequest, Request, Ops

\* A tenant just created has nobody to lose.
LEMMA TeamInvInit == TeamInit => TeamInv
<1> SUFFICES ASSUME TeamInit PROVE TeamInv
    OBVIOUS
<1>1. Shape
    BY NoRequestTyped DEF TeamInit, Shape, NoRequest, Formed
<1>2. StillSafe
    BY DEF TeamInit, StillSafe, InStep, NoRequest
<1>3. NoOrphanAdmin
    BY DEF TeamInit, NoOrphanAdmin, AdminRows
<1> QED BY <1>1, <1>2, <1>3 DEF TeamInv

\* A handler enters, or leaves without having written.
LEMMA Between ==
  ASSUME TeamInv, UNCHANGED <<accounts, members, exists, raced>>, Shape',
         NEW h \in Requests, \A g \in Requests : g # h => requests'[g] = requests[g],
         InStep(h, "write")' /\ ~raced /\ exists => Harmless(requests'[h])
  PROVE  TeamInv'
<1>1. StillSafe'
  BY DEF TeamInv, StillSafe, InStep, Harmless, SoloAdministrator, SoloAdministrated,
         ListedAdmins, Listed, AdminRows
<1>2. NoOrphanAdmin'
  BY DEF TeamInv, NoOrphanAdmin, AdminRows
<1> QED BY <1>1, <1>2 DEF TeamInv

\* A handler moves on to its check or to its write.
LEMMA Advance ==
  ASSUME NEW t \in Request, NEW pc \in {"check", "write"}
  PROVE  /\ [t EXCEPT !.pc = pc] \in Request
         /\ [t EXCEPT !.pc = pc].pc = pc
         /\ [t EXCEPT !.pc = pc].user = t.user
         /\ [t EXCEPT !.pc = pc].op = t.op
         /\ [t EXCEPT !.pc = pc].role = t.role
BY DEF Request

\* What a handler may become without having written.
Becomes(h, t) ==
  /\ requests' = [requests EXCEPT ![h] = t]
  /\ Formed(t)
  /\ t.pc = "write" /\ ~raced /\ exists => Harmless(t)

LEMMA Moved ==
  ASSUME TeamInv, UNCHANGED <<accounts, members, exists, raced>>,
         NEW h \in Requests, NEW t \in Request, Becomes(h, t)
  PROVE  TeamInv'
<1>0. Shape
  BY DEF TeamInv
<1>1. Shape'
  BY <1>0 DEF Shape, Becomes
<1>2. requests'[h] = t /\ \A g \in Requests : g # h => requests'[g] = requests[g]
  BY <1>0 DEF Shape, Becomes
<1>3. InStep(h, "write")' /\ ~raced /\ exists => Harmless(requests'[h])
  BY <1>2 DEF InStep, Becomes
<1> QED BY <1>1, <1>2, <1>3, Between

\* Requests come in, look up and check: nothing is written.
LEMMA Reads ==
  ASSUME TeamInv, NEW h \in Requests,
         \/ AddTenantMember(h) \/ RemoveTenantMember(h) \/ AddMember(h) \/ RemoveMember(h)
         \/ DeleteUser(h) \/ FindUser(h) \/ Check(h) \/ AbortRequest(h)
  PROVE  TeamInv' /\ UNCHANGED <<accounts, members, exists>>
<1>0. Shape
  BY DEF TeamInv
<1>1. UNCHANGED <<accounts, members, exists, raced>>
  BY DEF AddTenantMember, RemoveTenantMember, AddMember, RemoveMember, DeleteUser,
         FindUser, Check, AbortRequest
<1>3. CASE \/ AddTenantMember(h) \/ RemoveTenantMember(h) \/ AddMember(h) \/ RemoveMember(h)
           \/ DeleteUser(h)
  <2>1. PICK op \in Ops, pc \in {"find", "check"}, user \in Users, role \in {"admin", "editor"} :
            /\ Enter(h, op, pc, user, role)
            /\ (pc = "find") <=> (op = "grant")
    BY <1>0, <1>3 DEF AddTenantMember, RemoveTenantMember, AddMember, RemoveMember, DeleteUser,
                      Ops, Shape
  <2>2. [pc |-> pc, op |-> op, user |-> user, role |-> role] \in Request
    BY DEF Request
  <2>3. \E t \in Request : Becomes(h, t)
    <3>1. Becomes(h, [pc |-> pc, op |-> op, user |-> user, role |-> role])
      BY <2>1 DEF Enter, Becomes, Formed
    <3> QED BY <2>2, <3>1
  <2> QED BY <1>1, <2>3, Moved
<1>4. CASE FindUser(h)
  <2>1. requests[h] \in Request /\ requests[h].user \in Users
    BY <1>0, <1>4 DEF FindUser, InStep, Shape, Formed
  <2>2. CASE requests[h].user \notin accounts
    <3>1. requests' = [requests EXCEPT ![h] = NoRequest]
      BY <1>4, <2>2 DEF FindUser
    <3>2. Becomes(h, NoRequest)
      BY <3>1 DEF Becomes, NoRequest, Formed
    <3> QED BY <1>1, <3>2, NoRequestTyped, Moved
  <2>3. CASE requests[h].user \in accounts
    <3>1. PICK pc \in {"check", "write"} :
              /\ requests' = [requests EXCEPT ![h] = [requests[h] EXCEPT !.pc = pc]]
              /\ (pc = "write") <=> (requests[h].role = "admin")
      BY <1>4, <2>3 DEF FindUser
    <3>2. PICK t \in Request : /\ t = [requests[h] EXCEPT !.pc = pc]
                            /\ t.pc = pc /\ t.user = requests[h].user
                            /\ t.op = requests[h].op /\ t.role = requests[h].role
      BY <2>1, Advance
    <3>3. requests[h].op = "grant"
      BY <1>0, <1>4 DEF FindUser, InStep, Shape, Formed
    <3>4. requests[h].role \in {"admin", "editor"}
      BY <2>1 DEF Request
    <3>5. Becomes(h, t)
      BY <2>1, <2>3, <3>1, <3>2, <3>3, <3>4 DEF Becomes, Harmless, Formed
    <3> QED BY <1>1, <3>5, Moved
  <2> QED BY <2>2, <2>3
<1>5. CASE Check(h)
  <2>1. requests[h] \in Request /\ requests[h].user \in Users
    BY <1>0, <1>5 DEF Check, InStep, Shape, Formed
  <2>2. CASE Refused(requests[h])
    <3>1. requests' = [requests EXCEPT ![h] = NoRequest]
      BY <1>5, <2>2 DEF Check
    <3>2. Becomes(h, NoRequest)
      BY <3>1 DEF Becomes, NoRequest, Formed
    <3> QED BY <1>1, <3>2, NoRequestTyped, Moved
  <2>3. CASE ~Refused(requests[h])
    <3>1. requests' = [requests EXCEPT ![h] = [requests[h] EXCEPT !.pc = "write"]]
      BY <1>5, <2>3 DEF Check
    <3>2. PICK t \in Request : /\ t = [requests[h] EXCEPT !.pc = "write"]
                            /\ t.user = requests[h].user
                            /\ t.op = requests[h].op /\ t.role = requests[h].role
      BY <2>1, Advance
    <3>3. requests[h].op = "grant" => requests[h].role = "editor"
      BY <1>0, <1>5 DEF Check, InStep, Shape, Formed
    <3>4. Harmless(t)
      BY <2>3, <3>2, <3>3 DEF Harmless, Refused
    <3>5. Becomes(h, t)
      BY <2>1, <3>1, <3>2, <3>4 DEF Becomes, Formed
    <3> QED BY <1>1, <3>5, Moved
  <2> QED BY <2>2, <2>3
<1>6. CASE AbortRequest(h)
  <2>1. Becomes(h, NoRequest)
    BY <1>6 DEF AbortRequest, Leave, Becomes, NoRequest, Formed
  <2> QED BY <1>1, <2>1, NoRequestTyped, Moved
<1> QED BY <1>1, <1>3, <1>4, <1>5, <1>6

-----------------------------------------------------------------------------

\* A write that nothing overlapped leaves no other handler half-way, so only
\* the rows it wrote matter.
LEMMA Written ==
  ASSUME TeamInv, NEW h \in Requests, Leave(h), exists' = exists,
         raced' = (raced \/ Overlapped(h)),
         members' \in [Users -> {"admin", "editor", "none"}], accounts' \subseteq Users,
         ~raced' /\ exists => AdminRows' \subseteq accounts'
  PROVE  TeamInv'
<1>0. Shape
  BY DEF TeamInv
<1>1. requests'[h] = NoRequest /\ \A g \in Requests : g # h => requests'[g] = requests[g]
  BY <1>0 DEF Leave, Shape
<1>2. Shape'
  <2>1. requests' \in [Requests -> Request]
    BY <1>0, NoRequestTyped DEF Leave, Shape
  <2>2. raced' \in BOOLEAN
    BY <1>0 DEF Shape, Overlapped
  <2>3. \A g \in Requests : Formed(requests'[g])
    BY <1>0, <1>1 DEF Shape, NoRequest, Formed
  <2> QED BY <2>1, <2>2, <2>3 DEF Shape
<1>3. StillSafe'
  <2> SUFFICES ASSUME NEW g \in Requests, InStep(g, "write")', ~raced' PROVE FALSE
    BY DEF StillSafe
  <2>1. g # h /\ requests[g].pc = "write"
    BY <1>1 DEF InStep, NoRequest
  <2>2. Overlapped(h)
    BY <2>1 DEF Overlapped
  <2> QED BY <2>2
<1>4. NoOrphanAdmin'
  BY DEF NoOrphanAdmin
<1> QED BY <1>2, <1>3, <1>4 DEF TeamInv

\* What a write was checked for still holds when it happens.
LEMMA WriteIsHarmless ==
  ASSUME TeamInv, NEW h \in Requests, InStep(h, "write")
  PROVE  /\ requests[h] \in Request /\ requests[h].user \in Users
         /\ ~raced /\ exists => Harmless(requests[h])
BY DEF TeamInv, Shape, StillSafe, InStep, Formed

LEMMA Writes ==
  ASSUME TeamInv, NEW h \in Requests, UpsertMember(h) \/ DropMember(h) \/ DropAccount(h)
  PROVE  TeamInv' /\ AdministratorRemains
<1>0. Shape /\ NoOrphanAdmin
  BY DEF TeamInv
<1>1. /\ exists' = exists
      /\ raced' = (raced \/ Overlapped(h))
      /\ Leave(h)
      /\ InStep(h, "write")
  BY DEF UpsertMember, DropMember, DropAccount
<1>2. /\ requests[h] \in Request /\ requests[h].user \in Users
      /\ ~raced /\ exists => Harmless(requests[h])
  BY <1>1, WriteIsHarmless
<1> DEFINE t == requests[h]
<1>3. CASE UpsertMember(h)
  <2>1. /\ members' = [members EXCEPT ![t.user] = t.role]
        /\ accounts' = accounts
        /\ t.op = "grant"
    BY <1>3 DEF UpsertMember
  <2>2. t.role \in {"admin", "editor"}
    BY <1>2 DEF Request
  <2>3. members' \in [Users -> {"admin", "editor", "none"}]
    BY <1>0, <2>1, <2>2 DEF Shape
  <2>4. ~raced' /\ exists => AdminRows' \subseteq accounts'
    BY <1>0, <1>1, <1>2, <2>1, <2>2 DEF NoOrphanAdmin, AdminRows, Harmless, Shape
  <2>5. TeamInv'
    BY <1>0, <1>1, <2>1, <2>3, <2>4, Written DEF Shape
  <2>6. AdministratorRemains
    <3> SUFFICES ASSUME ListedAdmins # {}, exists, ~raced PROVE ListedAdmins' # {}
      BY <1>1 DEF AdministratorRemains
    <3>1. CASE t.role = "admin"
      BY <1>0, <1>2, <2>1, <3>1 DEF ListedAdmins, Listed, Shape
    <3>2. CASE t.role = "editor"
      <4>1. ~SoloAdministrator(t.user)
        BY <1>2, <2>1, <3>2 DEF Harmless
      <4>2. ListedAdmins \ {t.user} # {}
        BY <4>1, AnotherRemains DEF SoloAdministrator
      <4> QED BY <1>0, <2>1, <4>2 DEF ListedAdmins, Listed, Shape
    <3> QED BY <2>2, <3>1, <3>2
  <2> QED BY <2>5, <2>6
<1>4. CASE DropMember(h)
  <2>1. /\ members' = [members EXCEPT ![t.user] = "none"]
        /\ accounts' = accounts
        /\ t.op = "remove"
    BY <1>4 DEF DropMember
  <2>2. members' \in [Users -> {"admin", "editor", "none"}]
    BY <1>0, <2>1 DEF Shape
  <2>3. ~raced' /\ exists => AdminRows' \subseteq accounts'
    BY <1>0, <1>1, <2>1 DEF NoOrphanAdmin, AdminRows, Shape
  <2>4. TeamInv'
    BY <1>0, <1>1, <2>1, <2>2, <2>3, Written DEF Shape
  <2>5. AdministratorRemains
    <3> SUFFICES ASSUME ListedAdmins # {}, exists, ~raced PROVE ListedAdmins' # {}
      BY <1>1 DEF AdministratorRemains
    <3>1. ListedAdmins \ {t.user} # {}
      BY <1>2, <2>1, AnotherRemains DEF Harmless, SoloAdministrator
    <3> QED BY <1>0, <2>1, <3>1 DEF ListedAdmins, Listed, Shape
  <2> QED BY <2>4, <2>5
<1>5. CASE DropAccount(h)
  <2>1. /\ members' = [members EXCEPT ![t.user] = "none"]
        /\ accounts' = accounts \ {t.user}
        /\ t.op = "account"
    BY <1>5 DEF DropAccount
  <2>2. members' \in [Users -> {"admin", "editor", "none"}]
    BY <1>0, <2>1 DEF Shape
  <2>3. ~raced' /\ exists => AdminRows' \subseteq accounts'
    BY <1>0, <1>1, <2>1 DEF NoOrphanAdmin, AdminRows, Shape
  <2>4. TeamInv'
    BY <1>0, <1>1, <2>1, <2>2, <2>3, Written DEF Shape
  <2>5. AdministratorRemains
    <3> SUFFICES ASSUME ListedAdmins # {}, exists, ~raced PROVE ListedAdmins' # {}
      BY <1>1 DEF AdministratorRemains
    <3>1. ListedAdmins = AdminRows
      BY <1>0 DEF NoOrphanAdmin, AdminRows, ListedAdmins, Listed, Shape
    <3>2. ~SoloAdministrated(t.user)
      BY <1>2, <2>1 DEF Harmless
    <3>3. ListedAdmins \ {t.user} # {}
      BY <3>1, <3>2, AnotherRemains DEF SoloAdministrated, AdminRows
    <3> QED BY <1>0, <2>1, <3>3 DEF ListedAdmins, Listed, Shape
  <2> QED BY <2>4, <2>5
<1> QED BY <1>3, <1>4, <1>5

-----------------------------------------------------------------------------

LEMMA TeamStep == TeamInv /\ [TeamNext]_teamVars => TeamInv' /\ [AdministratorRemains]_teamVars
<1> SUFFICES ASSUME TeamInv, [TeamNext]_teamVars PROVE TeamInv' /\ [AdministratorRemains]_teamVars
  OBVIOUS
<1>1. CASE DropTenant
  BY <1>1 DEF DropTenant, TeamInv, Shape, StillSafe, NoOrphanAdmin, InStep, AdministratorRemains
<1>2. ASSUME NEW h \in Requests,
             \/ AddTenantMember(h) \/ RemoveTenantMember(h) \/ AddMember(h) \/ RemoveMember(h)
             \/ DeleteUser(h) \/ FindUser(h) \/ Check(h) \/ AbortRequest(h)
      PROVE  TeamInv' /\ [AdministratorRemains]_teamVars
  BY <1>2, Reads DEF AdministratorRemains, ListedAdmins, Listed
<1>3. ASSUME NEW h \in Requests, UpsertMember(h) \/ DropMember(h) \/ DropAccount(h)
      PROVE  TeamInv' /\ [AdministratorRemains]_teamVars
  BY <1>3, Writes
<1>4. CASE UNCHANGED teamVars
  BY <1>4 DEF teamVars, TeamInv, Shape, StillSafe, NoOrphanAdmin, InStep, Harmless, SoloAdministrator,
              SoloAdministrated, ListedAdmins, Listed, AdminRows
<1> QED BY <1>1, <1>2, <1>3, <1>4 DEF TeamNext

\* "An organization never loses its last administrator while it exists"
\* (src/src/routes/team.rs), unless a write landed between another handler's
\* check and its write.
THEOREM AdministratorKept == TeamSpec => LastAdministratorStays
<1>1. TeamSpec => []TeamInv
  BY TeamInvInit, TeamStep, PTL DEF TeamSpec
<1> QED BY <1>1, TeamStep, PTL DEF TeamSpec, LastAdministratorStays

-----------------------------------------------------------------------------
(* The four parts of MCIdentity.  What RefreshTokensProofs and              *)
(* AccessTokensProofs show of every step of their modules holds of the      *)
(* instances there, which are the same formulas (SameSessions, SameAccess). *)

SP == INSTANCE RefreshTokensProofs
    WITH Handlers <- {h1, h2}, Users <- {u1, u2}, TTL <- 1, users <- holders, task <- session

AP == INSTANCE AccessTokensProofs
    WITH Requests <- {h1, h2}, Users <- {u3}, Roles <- {"admin", "user"},
         Budget <- 1, TTL <- 1, Leeway <- 1, MaxTime <- 4, MaxTokens <- 2, MaxBoots <- 2,
         requests <- logins

LEMMA SameSessions ==
    /\ SP!Init <=> Sessions!Init
    /\ SP!Next <=> Sessions!Next
    /\ SP!TypeOK <=> Sessions!TypeOK
    /\ SP!NoSessionOutlivesAccount <=> Sessions!NoSessionOutlivesAccount
    /\ SP!ForeignRowsKept <=> Sessions!ForeignRowsKept
<1> USE DEF
    SP!Idle, Sessions!Idle, SP!Doing, Sessions!Doing, SP!NoToken, Sessions!NoToken,
    SP!Placeholder, Sessions!Placeholder, SP!Become, Sessions!Become, SP!Done,
    Sessions!Done, SP!Goto, Sessions!Goto, SP!RevokeRows, Sessions!RevokeRows,
    SP!RevokeFamily, Sessions!RevokeFamily, SP!HandOut, Sessions!HandOut, SP!Insert,
    Sessions!Insert, SP!CanInsert, Sessions!CanInsert, SP!Usable, Sessions!Usable,
    SP!Prunable, Sessions!Prunable, SP!Restrict, Sessions!Restrict
<1>1. ASSUME NEW h PROVE SP!HandlerStep(h) <=> Sessions!HandlerStep(h)
  <2>1. SP!Save(h) <=> Sessions!Save(h)
    BY DEF SP!Save, Sessions!Save
  <2>2. SP!Adopt(h) <=> Sessions!Adopt(h)
    BY DEF SP!Adopt, Sessions!Adopt
  <2>3. SP!Prune(h) <=> Sessions!Prune(h)
    BY DEF SP!Prune, Sessions!Prune
  <2>4. SP!Find(h) <=> Sessions!Find(h)
    BY DEF SP!Find, Sessions!Find
  <2>5. SP!Rotate(h) <=> Sessions!Rotate(h)
    BY DEF SP!Rotate, Sessions!Rotate
  <2>6. SP!Account(h) <=> Sessions!Account(h)
    BY DEF SP!Account, Sessions!Account
  <2>7. SP!Mint(h) <=> Sessions!Mint(h)
    BY DEF SP!Mint, Sessions!Mint
  <2>8. SP!RevokeReused(h) <=> Sessions!RevokeReused(h)
    BY DEF SP!RevokeReused, Sessions!RevokeReused
  <2>9. SP!LogoutFind(h) <=> Sessions!LogoutFind(h)
    BY DEF SP!LogoutFind, Sessions!LogoutFind
  <2>10. SP!LogoutRevoke(h) <=> Sessions!LogoutRevoke(h)
    BY DEF SP!LogoutRevoke, Sessions!LogoutRevoke
  <2>11. SP!Abort(h) <=> Sessions!Abort(h)
    BY DEF SP!Abort, Sessions!Abort
  <2> QED
    BY <2>1, <2>2, <2>3, <2>4, <2>5, <2>6, <2>7, <2>8, <2>9, <2>10, <2>11
    DEF SP!HandlerStep, Sessions!HandlerStep
<1>2. SP!Next <=> Sessions!Next
  BY <1>1
  DEF SP!Next, Sessions!Next, SP!Login, Sessions!Login, SP!Refresh, Sessions!Refresh,
      SP!Logout, Sessions!Logout, SP!LogoutAll, Sessions!LogoutAll, SP!DeleteUser,
      Sessions!DeleteUser, SP!Tick, Sessions!Tick
<1>3. SP!TypeOK <=> Sessions!TypeOK
  BY DEF SP!TypeOK, Sessions!TypeOK, SP!Tokens, Sessions!Tokens, SP!Families,
         Sessions!Families, SP!Row, Sessions!Row, SP!Task, Sessions!Task, SP!Steps,
         Sessions!Steps
<1> QED
  BY <1>2, <1>3
  DEF SP!Init, Sessions!Init, SP!NoSessionOutlivesAccount,
      Sessions!NoSessionOutlivesAccount, SP!ForeignRowsKept, Sessions!ForeignRowsKept

LEMMA SameAccess ==
    /\ AP!Init <=> Access!Init
    /\ AP!Next <=> Access!Next
    /\ AP!TypeOK <=> Access!TypeOK
    /\ AP!PowerEnds <=> Access!PowerEnds
    /\ AP!LogoutHolds <=> Access!LogoutHolds
<1> USE DEF
    AP!At, Access!At, AP!Become, Access!Become, AP!Done, Access!Done, AP!Quiet,
    Access!Quiet, AP!Idle, Access!Idle, AP!NoClaims, Access!NoClaims, AP!Configs,
    Access!Configs, AP!Scopes, Access!Scopes, AP!Minting, Access!Minting, AP!RoleRead,
    Access!RoleRead, AP!Cardinality, Access!Cardinality
<1>1. AP!Next <=> Access!Next
  BY DEF AP!Next, Access!Next, AP!Begin, Access!Begin, AP!Mint, Access!Mint, AP!Answer,
         Access!Answer, AP!Fail, Access!Fail, AP!Logout, Access!Logout, AP!Clear,
         Access!Clear, AP!Change, Access!Change, AP!Tick, Access!Tick, AP!Restart,
         Access!Restart, AP!Remember, Access!Remember
<1>2. AP!TypeOK <=> Access!TypeOK
  BY DEF AP!TypeOK, Access!TypeOK, AP!Claims, Access!Claims
<1> QED
  BY <1>1, <1>2
  DEF AP!Init, Access!Init, AP!PowerEnds, Access!PowerEnds, AP!Accepted, Access!Accepted,
      AP!LogoutHolds, Access!LogoutHolds

\* The constants of the instances are what the two modules assume.
LEMMA Instances == SP!ConstantsAssumption /\ AP!Durations /\ AP!Bounded
BY IdentityAssumption DEF SP!ConstantsAssumption, AP!Durations, AP!Bounded

-----------------------------------------------------------------------------

SessionsInv == SP!Inv /\ SP!NoSessionOutlivesAccount /\ SP!OneUser

AccessInv == AP!PowerInv /\ AP!TypeOK /\ AP!JarInv

IdentityInv ==
    /\ Inv
    /\ TeamInv
    /\ exists \in BOOLEAN
    /\ part = "sessions" => SessionsInv
    /\ part = "access" => AccessInv

identityVars == <<part, vars, teamVars, sessionVars, accessVars>>

LEMMA SessionsStep ==
    ASSUME SessionsInv, [SP!Next]_SP!vars PROVE SessionsInv' /\ SP!ForeignRowsKept
<1>1. SP!Inv'
  BY Instances, SP!TypeStep, SP!AllocatedStep, SP!AdoptionStep, SP!OneHeirStep
  DEF SessionsInv, SP!Inv
<1>2. SP!NoSessionOutlivesAccount'
  BY Instances, SP!OwnedStep DEF SessionsInv
<1>3. SP!OneUser' /\ SP!ForeignRowsKept
  BY Instances, SP!OneUserStep, SP!LogoutStep DEF SessionsInv
<1> QED BY <1>1, <1>2, <1>3 DEF SessionsInv

LEMMA AccessStep == ASSUME AccessInv, [AP!Next]_AP!vars PROVE AccessInv'
BY Instances, AP!PowerStep, AP!TypeStep, AP!JarStep DEF AccessInv

\* One part moves, the others rest.
LEMMA PartMoves ==
    ASSUME [IdentityNext]_identityVars
    PROVE  /\ part' = part
           /\ [Next]_vars
           /\ [TeamNext]_teamVars
           /\ part = "sessions" => [SP!Next]_SP!vars
           /\ part = "access" => [AP!Next]_AP!vars
BY SameSessions, SameAccess
DEF IdentityNext, identityVars, sessionVars, accessVars, SP!vars, AP!vars

LEMMA IdentityInvInit == IdentityInit => IdentityInv
<1> SUFFICES ASSUME IdentityInit PROVE IdentityInv
  OBVIOUS
<1>1. Inv /\ TeamInv /\ exists \in BOOLEAN
  BY InitInv, TeamInvInit DEF IdentityInit, TeamInit
<1>2. part = "sessions" => SessionsInv
  <2> SUFFICES ASSUME part = "sessions" PROVE SessionsInv
    OBVIOUS
  <2>1. SP!Init
    BY SameSessions DEF IdentityInit
  <2> QED
    BY <2>1, Instances, SP!InitInv
    DEF SessionsInv, SP!Init, SP!NoSessionOutlivesAccount, SP!OneUser, SP!Bound, SP!Idle,
        SP!Doing
<1>3. part = "access" => AccessInv
  <2> SUFFICES ASSUME part = "access" PROVE AccessInv
    OBVIOUS
  <2>1. AP!Init
    BY SameAccess DEF IdentityInit
  <2> QED BY <2>1, Instances, AP!PowerInit, AP!TypeInit, AP!JarInit DEF AccessInv
<1> QED BY <1>1, <1>2, <1>3 DEF IdentityInv

LEMMA IdentityStep ==
    ASSUME IdentityInv, [IdentityNext]_identityVars
    PROVE  IdentityInv' /\ (part = "sessions" => Sessions!ForeignRowsKept)
<1>1. Inv'
  BY PartMoves, StepType, StepTargets, StepBoot, StepMirror DEF IdentityInv, Inv
<1>2. TeamInv'
  BY PartMoves, TeamStep DEF IdentityInv
<1>3. exists' \in BOOLEAN
  BY PartMoves
  DEF IdentityInv, TeamNext, teamVars, DropTenant, AddTenantMember, RemoveTenantMember,
      AddMember, RemoveMember, DeleteUser, FindUser, Check, UpsertMember, DropMember,
      DropAccount, AbortRequest
<1>4. part = "sessions" => SessionsInv' /\ Sessions!ForeignRowsKept
  BY PartMoves, SessionsStep, SameSessions DEF IdentityInv
<1>5. part = "access" => AccessInv'
  BY PartMoves, AccessStep DEF IdentityInv
<1> QED BY PartMoves, <1>1, <1>2, <1>3, <1>4, <1>5 DEF IdentityInv

\* No session outlives its account, a signed role outlives the account's by no
\* more than a request, a token and the leeway, and a browser that was signed
\* out stays so, for any number of steps of the four parts.
THEOREM SessionsEndInTime == IdentitySpec => []SessionsEnd
<1>1. IdentityInv => SessionsEnd
  <2> SUFFICES ASSUME IdentityInv PROVE SessionsEnd
    OBVIOUS
  <2>1. TypeOK /\ TeamTypeOK
    BY DEF IdentityInv, Inv, TeamInv, Shape, TeamTypeOK
  <2>2. part = "sessions" => Sessions!TypeOK /\ Sessions!NoSessionOutlivesAccount
    BY SameSessions DEF IdentityInv, SessionsInv, SP!Inv
  <2>3. part = "access" => Access!TypeOK /\ Access!PowerEnds /\ Access!LogoutHolds
    BY SameAccess, Instances, AP!PowerHolds DEF IdentityInv, AccessInv, AP!JarInv
  <2> QED BY <2>1, <2>2, <2>3 DEF SessionsEnd
<1> QED BY IdentityInvInit, IdentityStep, <1>1, PTL DEF IdentitySpec, identityVars

\* A logout revokes no row of somebody else (revoke_logout_family tests the
\* owner of one row and revokes by family).
THEOREM LogoutsAreOwn == IdentitySpec => ForeignSessionsUntouched
<1>1. IdentityInv /\ [IdentityNext]_identityVars =>
          [part = "sessions" => Sessions!ForeignRowsKept]_<<part, sessionVars>>
  BY IdentityStep
<1> QED
  BY IdentityInvInit, IdentityStep, <1>1, PTL
  DEF IdentitySpec, identityVars, ForeignSessionsUntouched
=============================================================================
