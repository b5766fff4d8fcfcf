------------------------- MODULE RefreshTokensProofs -------------------------
(***************************************************************************)
(* Theorems about RefreshTokens for every set of accounts and handlers, any *)
(* TTL and any bounds.                                                      *)
(*                                                                          *)
(* SingleUsableToken and ClosedForGood rest on what the statements do to    *)
(* the rows of one family. ReplayDetectable needs more, because rows        *)
(* disappear in two ways: housekeeping deletes revoked rows, and a deleted  *)
(* account takes its rows along. Neither may thin out a family that can     *)
(* still be exchanged without having been revoked; so a family that was not *)
(* revoked is complete, or spent (CompleteOrSpent). For the deletion that   *)
(* needs all rows of a family, and all handlers bound to it, to belong to   *)
(* one account (OneUser), and for a login's late family id that nobody      *)
(* descends from a token that was not handed out (Descent). OneUser is also *)
(* what keeps a logout, which revokes by family, to its caller's rows.      *)
(***************************************************************************)
EXTENDS RefreshTokens, TLAPS

USE ConstantsAssumption
    DEF Tokens, Families, NoToken, Placeholder, Become, Doing, Done, Goto, Idle

-----------------------------------------------------------------------------
(* What the statements do to the table, in the terms the proofs use.        *)

\* The rows of S are revoked, the others unchanged.
RevokesOnly(S) ==
    /\ DOMAIN table' = DOMAIN table
    /\ table' \in [DOMAIN table -> Row]
    /\ \A t \in DOMAIN table :
          /\ table'[t].family = table[t].family
          /\ table'[t].user = table[t].user
          /\ table'[t].rotated = table[t].rotated
          /\ table'[t].revoked <=> (table[t].revoked \/ t \in S)
          /\ t \notin S => table'[t] = table[t]

\* Revoking changes the revoked flag of existing rows and nothing else.
LEMMA RevokeRowsEffect ==
  ASSUME TypeOK, NEW S, RevokeRows(S)
  PROVE  RevokesOnly(S)
<1>1. DOMAIN table' = DOMAIN table
  BY DEF RevokeRows
<1>2. ASSUME NEW t \in DOMAIN table
      PROVE  /\ table'[t] \in Row
             /\ table'[t].family = table[t].family
             /\ table'[t].user = table[t].user
             /\ table'[t].rotated = table[t].rotated
             /\ table'[t].revoked <=> (table[t].revoked \/ t \in S)
             /\ t \notin S => table'[t] = table[t]
  <2>1. table[t] \in Row /\ table[t].revoked \in BOOLEAN
    BY DEF TypeOK, Row
  <2>2. CASE t \in S
    <3>1. table'[t] = [table[t] EXCEPT !.revoked = TRUE]
      BY <2>2 DEF RevokeRows
    <3>2. table'[t] \in Row
      BY <2>1, <3>1 DEF Row
    <3>3. /\ table'[t].family = table[t].family
          /\ table'[t].user = table[t].user
          /\ table'[t].rotated = table[t].rotated
          /\ table'[t].revoked = TRUE
      BY <2>1, <3>1 DEF Row
    <3>4. QED
      BY <2>1, <2>2, <3>2, <3>3
  <2>3. CASE t \notin S
    BY <2>1, <2>3 DEF RevokeRows
  <2>4. QED
    BY <2>2, <2>3
<1>3. table' \in [DOMAIN table -> Row]
  BY <1>2 DEF RevokeRows
<1>4. QED
  BY <1>1, <1>2, <1>3 DEF RevokesOnly

\* Row t is retired, the others unchanged.
RetiresOnly(t) ==
    /\ DOMAIN table' = DOMAIN table
    /\ table' \in [DOMAIN table -> Row]
    /\ \A s \in DOMAIN table :
          /\ table'[s].family = table[s].family
          /\ table'[s].user = table[s].user
          /\ table'[s].rotated <=> (table[s].rotated \/ s = t)
          /\ table'[s].revoked = table[s].revoked

\* Retiring a row changes the rotated flag of that row and nothing else.
LEMMA RotateRowEffect ==
  ASSUME TypeOK, NEW t \in DOMAIN table,
         table' = [table EXCEPT ![t].rotated = TRUE]
  PROVE  RetiresOnly(t)
<1>1. table[t] \in Row
  BY DEF TypeOK
<1>2. /\ DOMAIN table' = DOMAIN table
      /\ table'[t] = [table[t] EXCEPT !.rotated = TRUE]
      /\ \A s \in DOMAIN table : s # t => table'[s] = table[s]
  BY DEF TypeOK
<1>3. \A s \in DOMAIN table : table[s].rotated \in BOOLEAN
  BY DEF TypeOK, Row
<1>4. /\ table'[t] \in Row
      /\ table'[t].family = table[t].family
      /\ table'[t].user = table[t].user
      /\ table'[t].rotated = TRUE
      /\ table'[t].revoked = table[t].revoked
  BY <1>1, <1>2 DEF Row
<1>5. \A s \in DOMAIN table : table'[s] \in Row
  BY <1>2, <1>4 DEF TypeOK
<1>6. table' \in [DOMAIN table -> Row]
  BY <1>2, <1>5
<1>7. QED
  BY <1>2, <1>3, <1>4, <1>6 DEF RetiresOnly

\* An insert takes an id that no row and no client had.
InsertsOnly(f) ==
    /\ lastId' = lastId + 1 /\ lastId' \in Tokens /\ lastId \in Nat
    /\ lastId' \notin DOMAIN table /\ lastId' \notin DOMAIN issued
    /\ DOMAIN table' = DOMAIN table \cup {lastId'}
    /\ \A s \in DOMAIN table : table'[s] = table[s] /\ table[s].family \in Nat
    /\ table'[lastId'].family = f
    /\ table'[lastId'].rotated = FALSE
    /\ ended' = ended

LEMMA SaveEffect ==
  ASSUME TypeOK, Allocated, NEW h \in Handlers, Save(h)
  PROVE  /\ InsertsOnly(Placeholder)
         /\ issued' = issued
         /\ task'[h] = Doing("adopt", lastId', Placeholder, task[h].user, 0)
         /\ \A g \in Handlers : g # h => task'[g] = task[g]
  BY DEF Save, CanInsert, Insert, TypeOK, Allocated, InsertsOnly, Row

LEMMA MintEffect ==
  ASSUME TypeOK, Allocated, NEW h \in Handlers, Mint(h)
  PROVE  /\ InsertsOnly(task[h].family)
         /\ DOMAIN issued' = DOMAIN issued \cup {lastId'}
         /\ issued'[lastId'] = task[h].family
         /\ \A s \in DOMAIN issued : issued'[s] = issued[s]
         /\ task[h].step = "mint"
         /\ task'[h] = Idle
         /\ \A g \in Handlers : g # h => task'[g] = task[g]
  BY DEF Mint, CanInsert, Insert, HandOut, TypeOK, Allocated, InsertsOnly, Row

\* Writing a family id back changes the family of one row at most.
AdoptsOnly(h) ==
    /\ DOMAIN table' = DOMAIN table
    /\ \A s \in DOMAIN table :
          /\ table'[s].family =
                IF s = task[h].token THEN s ELSE table[s].family
          /\ table'[s].user = table[s].user
          /\ table'[s].rotated = table[s].rotated
          /\ table'[s].revoked = table[s].revoked
    /\ DOMAIN issued' = DOMAIN issued \cup {task[h].token}
    /\ issued'[task[h].token] = task[h].token
    /\ \A t \in DOMAIN issued : t # task[h].token => issued'[t] = issued[t]
    /\ task[h].step = "adopt"
    /\ task'[h] = Idle
    /\ \A g \in Handlers : g # h => task'[g] = task[g]
    /\ lastId' = lastId /\ ended' = ended

LEMMA AdoptEffect ==
  ASSUME TypeOK, NEW h \in Handlers, Adopt(h)
  PROVE  AdoptsOnly(h)
<1>1. DOMAIN table' = DOMAIN table
  BY DEF Adopt
<1>2. ASSUME NEW s \in DOMAIN table
      PROVE  /\ table'[s].family =
                     IF s = task[h].token THEN s ELSE table[s].family
             /\ table'[s].user = table[s].user
             /\ table'[s].rotated = table[s].rotated
             /\ table'[s].revoked = table[s].revoked
  <2>1. table[s] \in Row
    BY DEF TypeOK
  <2>2. CASE s = task[h].token
    <3>1. table'[s] = [table[s] EXCEPT !.family = s]
      BY <2>2 DEF Adopt
    <3>2. QED
      BY <2>1, <2>2, <3>1 DEF Row
  <2>3. CASE s # task[h].token
    BY <2>1, <2>3 DEF Adopt
  <2>4. QED
    BY <2>2, <2>3
<1>3. /\ DOMAIN issued' = DOMAIN issued \cup {task[h].token}
      /\ issued'[task[h].token] = task[h].token
      /\ \A t \in DOMAIN issued : t # task[h].token => issued'[t] = issued[t]
      /\ task[h].step = "adopt"
      /\ task'[h] = Idle
      /\ \A g \in Handlers : g # h => task'[g] = task[g]
      /\ lastId' = lastId /\ ended' = ended
  BY DEF Adopt, HandOut, TypeOK
<1>4. QED
  BY <1>1, <1>2, <1>3 DEF AdoptsOnly

-----------------------------------------------------------------------------
(* The inductive invariant.                                                 *)

\* The initial state satisfies every part of the inductive invariant.
LEMMA InitInv == Init => Inv
<1> SUFFICES ASSUME Init PROVE Inv
  OBVIOUS
<1> USE DEF Init
<1>1. TypeOK
  BY DEF TypeOK, Task, Steps
<1>2. Allocated
  BY DEF Allocated
<1>3. AdoptionPrivate
  BY DEF AdoptionPrivate
<1>4. OneHeir
  BY DEF OneHeir, Minting, InFlight
<1>5. QED
  BY <1>1, <1>2, <1>3, <1>4 DEF Inv

\* Every action keeps the variables in their types.
LEMMA TypeStep == Inv /\ [Next]_vars => TypeOK'
<1> SUFFICES ASSUME Inv, [Next]_vars PROVE TypeOK'
  OBVIOUS
<1>0. TypeOK /\ Allocated /\ AdoptionPrivate
  BY DEF Inv
<1> USE <1>0 DEF TypeOK
<1>1. ASSUME NEW h \in Handlers, Save(h) PROVE TypeOK'
  BY <1>1 DEF Save, CanInsert, Insert, Row, Task, Steps
<1>2. ASSUME NEW h \in Handlers, Adopt(h) PROVE TypeOK'
  BY <1>2 DEF Adopt, HandOut, Row, Task, Steps, AdoptionPrivate
<1>3. ASSUME NEW h \in Handlers, Prune(h) PROVE TypeOK'
  BY <1>3 DEF Prune, Restrict, Task, Steps
<1>4. ASSUME NEW h \in Handlers, Find(h) PROVE TypeOK'
  BY <1>4 DEF Find, Usable, Row, Task, Steps
<1>5. ASSUME NEW h \in Handlers, Rotate(h) PROVE TypeOK'
  BY <1>5, RotateRowEffect DEF Rotate, Usable, Task, Steps, RetiresOnly
<1>6. ASSUME NEW h \in Handlers, Account(h) PROVE TypeOK'
  BY <1>6 DEF Account, Task, Steps
<1>7. ASSUME NEW h \in Handlers, Mint(h) PROVE TypeOK'
  BY <1>7 DEF Mint, CanInsert, Insert, HandOut, Row, Task, Steps,
              Allocated
<1>8. ASSUME NEW h \in Handlers, RevokeReused(h) PROVE TypeOK'
  BY <1>8, RevokeRowsEffect DEF RevokeReused, RevokeFamily, Task, Steps, RevokesOnly
<1>9. ASSUME NEW h \in Handlers, LogoutFind(h) PROVE TypeOK'
  BY <1>9 DEF LogoutFind, Row, Task, Steps
<1>10. ASSUME NEW h \in Handlers, LogoutRevoke(h) PROVE TypeOK'
  BY <1>10, RevokeRowsEffect DEF LogoutRevoke, RevokeFamily, Task, Steps, RevokesOnly
<1>11. ASSUME NEW h \in Handlers, Abort(h) PROVE TypeOK'
  BY <1>11 DEF Abort, Task, Steps
<1>12. ASSUME NEW h \in Handlers, NEW u \in Users, Login(h, u) PROVE TypeOK'
  BY <1>12 DEF Login, Task, Steps
<1>13. ASSUME NEW h \in Handlers, NEW t \in DOMAIN issued, Refresh(h, t)
       PROVE TypeOK'
  BY <1>13 DEF Refresh, Task, Steps
<1>14. ASSUME NEW h \in Handlers, NEW u \in Users, NEW t \in DOMAIN issued,
              Logout(h, u, t)
       PROVE TypeOK'
  BY <1>14 DEF Logout, Task, Steps
<1>15. ASSUME NEW u \in Users, LogoutAll(u) PROVE TypeOK'
  BY <1>15, RevokeRowsEffect DEF LogoutAll, Row, RevokesOnly
<1>16. ASSUME NEW u \in Users, DeleteUser(u) PROVE TypeOK'
  BY <1>16 DEF DeleteUser, Restrict
<1>17. CASE Tick
  BY <1>17 DEF Tick
<1>18. CASE UNCHANGED vars
  BY <1>18 DEF vars
<1>19. QED
  BY <1>1, <1>2, <1>3, <1>4, <1>5, <1>6, <1>7, <1>8, <1>9, <1>10, <1>11, <1>12,
     <1>13, <1>14, <1>15, <1>16, <1>17, <1>18 DEF Next, HandlerStep

\* Every action keeps ids, families and remembered rows consistent.
LEMMA AllocatedStep == Inv /\ [Next]_vars => Allocated'
<1> SUFFICES ASSUME Inv, [Next]_vars PROVE Allocated'
  OBVIOUS
<1>0. TypeOK /\ Allocated /\ AdoptionPrivate
  BY DEF Inv
<1>a. /\ lastId \in Nat /\ ended \subseteq Nat
      /\ DOMAIN table \subseteq Nat /\ DOMAIN issued \subseteq Nat
      /\ \A h \in Handlers : task[h] \in Task
  BY <1>0 DEF TypeOK
<1>1. ASSUME NEW h \in Handlers, Save(h) PROVE Allocated'
  <2>1. /\ InsertsOnly(Placeholder)
        /\ issued' = issued
        /\ task'[h] = Doing("adopt", lastId', Placeholder, task[h].user, 0)
        /\ \A g \in Handlers : g # h => task'[g] = task[g]
    BY <1>0, <1>1, SaveEffect
  <2>2. /\ \A t \in DOMAIN table' : t <= lastId' /\ table'[t].family <= lastId'
        /\ \A t \in DOMAIN table' \cap DOMAIN issued' : table'[t].family = issued'[t]
    BY <1>0, <1>a, <2>1 DEF Allocated, InsertsOnly
  <2>3. /\ \A t \in DOMAIN issued' : t <= lastId'
        /\ \A f \in ended' : f <= lastId'
    BY <1>0, <1>a, <2>1 DEF Allocated, InsertsOnly
  <2>4. \A g \in Handlers :
          /\ task'[g].token <= lastId'
          /\ task'[g].family <= lastId'
          /\ task'[g].step \notin {"idle", "save", "adopt"} =>
                task'[g].token \in DOMAIN issued'
          /\ task'[g].step \in {"rotate", "account", "mint", "revoke",
                                "logout_revoke"} =>
                task'[g].family = issued'[task'[g].token]
    <3>1. \A g \in Handlers : task[g].token \in Nat /\ task[g].family \in Nat
      BY <1>a DEF Task
    <3>2. QED
      BY <1>0, <2>1, <3>1 DEF Allocated, InsertsOnly
  <2>5. QED
    BY <2>2, <2>3, <2>4 DEF Allocated
<1>2. ASSUME NEW h \in Handlers, Adopt(h) PROVE Allocated'
  <2>1. AdoptsOnly(h)
    BY <1>0, <1>2, AdoptEffect
  <2>2. /\ task[h].token \in Tokens /\ task[h].token <= lastId
        /\ task[h].token \notin DOMAIN issued
    BY <1>0, <2>1 DEF AdoptsOnly, AdoptionPrivate
  <2>3. QED
    BY <1>0, <1>a, <2>1, <2>2 DEF Allocated, AdoptsOnly, Task
<1>3. ASSUME NEW h \in Handlers, Prune(h) PROVE Allocated'
  BY <1>0, <1>3 DEF TypeOK, Allocated, Prune, Restrict, Task
<1>4. ASSUME NEW h \in Handlers, Find(h) PROVE Allocated'
  BY <1>0, <1>4 DEF TypeOK, Allocated, Find, Usable, Task
<1>5. ASSUME NEW h \in Handlers, Rotate(h) PROVE Allocated'
  <2>1. \/ RetiresOnly(task[h].token)
        \/ table' = table
    BY <1>0, <1>5, RotateRowEffect DEF Rotate, Usable
  <2>2. \A t \in DOMAIN table' : t \in DOMAIN table /\ table'[t].family = table[t].family
    BY <2>1 DEF RetiresOnly
  <2>3. QED
    BY <1>0, <1>5, <2>2 DEF TypeOK, Allocated, Rotate, Task
<1>6. ASSUME NEW h \in Handlers, Account(h) PROVE Allocated'
  BY <1>0, <1>6 DEF TypeOK, Allocated, Account, Task
<1>7. ASSUME NEW h \in Handlers, Mint(h) PROVE Allocated'
  <2>1. /\ InsertsOnly(task[h].family)
        /\ DOMAIN issued' = DOMAIN issued \cup {lastId'}
        /\ issued'[lastId'] = task[h].family
        /\ \A s \in DOMAIN issued : issued'[s] = issued[s]
        /\ task'[h] = Idle
        /\ \A g \in Handlers : g # h => task'[g] = task[g]
    BY <1>0, <1>7, MintEffect
  <2>2. \A t \in DOMAIN table' \cap DOMAIN issued' : table'[t].family = issued'[t]
    BY <1>0, <2>1 DEF Allocated, InsertsOnly
  <2>3. task[h].family \in Nat /\ task[h].family <= lastId
    BY <1>0, <1>a DEF Allocated, Task
  <2>b. \A t \in DOMAIN table' : t <= lastId' /\ table'[t].family <= lastId'
    BY <1>0, <1>a, <2>1, <2>3 DEF Allocated, InsertsOnly
  <2>c. /\ \A t \in DOMAIN issued' : t <= lastId'
        /\ \A f \in ended' : f <= lastId'
    BY <1>0, <1>a, <2>1 DEF Allocated, InsertsOnly
  <2>4. \A g \in Handlers :
          /\ task'[g].token <= lastId'
          /\ task'[g].family <= lastId'
          /\ task'[g].step \notin {"idle", "save", "adopt"} =>
                task'[g].token \in DOMAIN issued'
          /\ task'[g].step \in {"rotate", "account", "mint", "revoke",
                                "logout_revoke"} =>
                task'[g].family = issued'[task'[g].token]
    BY <1>0, <1>a, <2>1 DEF Allocated, InsertsOnly, Task
  <2>5. QED
    BY <2>2, <2>b, <2>c, <2>4 DEF Allocated
<1>8. ASSUME NEW h \in Handlers, RevokeReused(h) \/ LogoutRevoke(h)
      PROVE Allocated'
  <2>1. \E S : RevokesOnly(S)
    BY <1>0, <1>8, RevokeRowsEffect DEF RevokeReused, LogoutRevoke, RevokeFamily
  <2>2. /\ \A t \in DOMAIN table' :
              t \in DOMAIN table /\ table'[t].family = table[t].family
        /\ lastId' = lastId /\ issued' = issued
        /\ ended' = ended \cup {task[h].family}
        /\ task'[h] = Idle
        /\ \A g \in Handlers : g # h => task'[g] = task[g]
    BY <1>0, <1>8, <2>1
       DEF TypeOK, RevokesOnly, RevokeReused, LogoutRevoke, RevokeFamily
  <2>3. QED
    BY <1>0, <1>a, <2>2 DEF Allocated, Task
<1>9. ASSUME NEW h \in Handlers, LogoutFind(h) PROVE Allocated'
  BY <1>0, <1>9 DEF TypeOK, Allocated, LogoutFind, Task
<1>10. ASSUME NEW h \in Handlers, Abort(h) PROVE Allocated'
  BY <1>0, <1>10 DEF TypeOK, Allocated, Abort, Task
<1>11. ASSUME NEW h \in Handlers, NEW u \in Users, Login(h, u) PROVE Allocated'
  BY <1>0, <1>11 DEF TypeOK, Allocated, Login, Task
<1>12. ASSUME NEW h \in Handlers, NEW t \in DOMAIN issued, Refresh(h, t)
       PROVE Allocated'
  BY <1>0, <1>12 DEF TypeOK, Allocated, Refresh, Task
<1>13. ASSUME NEW h \in Handlers, NEW u \in Users, NEW t \in DOMAIN issued,
              Logout(h, u, t)
       PROVE Allocated'
  BY <1>0, <1>13 DEF TypeOK, Allocated, Logout, Task
<1>14. ASSUME NEW u \in Users, LogoutAll(u) PROVE Allocated'
  <2>1. RevokesOnly({t \in DOMAIN table : table[t].user = u})
    BY <1>0, <1>14, RevokeRowsEffect DEF LogoutAll
  <2>2. QED
    BY <1>0, <1>14, <2>1 DEF Allocated, RevokesOnly, LogoutAll
<1>15. ASSUME NEW u \in Users, DeleteUser(u) PROVE Allocated'
  BY <1>0, <1>15 DEF Allocated, DeleteUser, Restrict
<1>16. CASE Tick \/ UNCHANGED vars
  BY <1>0, <1>16 DEF Allocated, Tick, vars
<1>17. QED
  BY <1>1, <1>2, <1>3, <1>4, <1>5, <1>6, <1>7, <1>8, <1>9, <1>10, <1>11, <1>12,
     <1>13, <1>14, <1>15, <1>16 DEF Next, HandlerStep

\* A row that waits for its family id stays private to its login.
LEMMA AdoptionStep == Inv /\ [Next]_vars => AdoptionPrivate'
<1> SUFFICES ASSUME Inv, [Next]_vars PROVE AdoptionPrivate'
  OBVIOUS
<1>0. TypeOK /\ Allocated /\ AdoptionPrivate
  BY DEF Inv
<1>a. /\ lastId \in Nat /\ ended \subseteq Nat
      /\ DOMAIN table \subseteq Nat /\ DOMAIN issued \subseteq Nat
      /\ \A h \in Handlers : task[h] \in Task
  BY <1>0 DEF TypeOK
<1>1. ASSUME NEW h \in Handlers, Save(h) PROVE AdoptionPrivate'
  <2>1. /\ InsertsOnly(Placeholder)
        /\ issued' = issued
        /\ task'[h] = Doing("adopt", lastId', Placeholder, task[h].user, 0)
        /\ \A g \in Handlers : g # h => task'[g] = task[g]
    BY <1>0, <1>1, SaveEffect
  <2>2. ASSUME NEW g \in Handlers, g # h, task[g].step = "adopt"
        PROVE  /\ task[g].token \in Tokens /\ task[g].token <= lastId'
               /\ task[g].token \notin DOMAIN issued'
               /\ task[g].token \notin ended'
               /\ \A s \in DOMAIN table' : table'[s].family # task[g].token
               /\ \A k \in Handlers : task'[k].family # task[g].token
               /\ \A k \in Handlers : task'[k].token = task[g].token => k = g
    BY <1>0, <1>a, <2>1, <2>2 DEF AdoptionPrivate, InsertsOnly
  <2>3. /\ lastId' \in Tokens
        /\ lastId' \notin DOMAIN issued'
        /\ lastId' \notin ended'
        /\ \A s \in DOMAIN table' : table'[s].family # lastId'
        /\ \A k \in Handlers : task'[k].family # lastId'
        /\ \A k \in Handlers : task'[k].token = lastId' => k = h
    BY <1>0, <1>a, <2>1 DEF Allocated, InsertsOnly
  <2>4. QED
    BY <2>1, <2>2, <2>3 DEF AdoptionPrivate
<1>2. ASSUME NEW h \in Handlers, Adopt(h) PROVE AdoptionPrivate'
  <2>1. AdoptsOnly(h)
    BY <1>0, <1>2, AdoptEffect
  <2>2. QED
    BY <1>0, <1>a, <2>1 DEF AdoptsOnly, AdoptionPrivate
<1>3. ASSUME NEW h \in Handlers, Prune(h) PROVE AdoptionPrivate'
  BY <1>0, <1>3 DEF TypeOK, AdoptionPrivate, Prune, Restrict, Task
<1>4. ASSUME NEW h \in Handlers, Find(h) PROVE AdoptionPrivate'
  BY <1>0, <1>4 DEF TypeOK, AdoptionPrivate, Find, Usable, Task
<1>5. ASSUME NEW h \in Handlers, Rotate(h) PROVE AdoptionPrivate'
  <2>1. \/ RetiresOnly(task[h].token)
        \/ table' = table
    BY <1>0, <1>5, RotateRowEffect DEF Rotate, Usable
  <2>2. \A t \in DOMAIN table' : t \in DOMAIN table /\ table'[t].family = table[t].family
    BY <2>1 DEF RetiresOnly
  <2>3. QED
    BY <1>0, <1>5, <2>2 DEF TypeOK, AdoptionPrivate, Rotate, Task
<1>6. ASSUME NEW h \in Handlers, Account(h) PROVE AdoptionPrivate'
  BY <1>0, <1>6 DEF TypeOK, AdoptionPrivate, Account, Task
<1>7. ASSUME NEW h \in Handlers, Mint(h) PROVE AdoptionPrivate'
  <2>1. /\ InsertsOnly(task[h].family)
        /\ DOMAIN issued' = DOMAIN issued \cup {lastId'}
        /\ task'[h] = Idle
        /\ \A g \in Handlers : g # h => task'[g] = task[g]
    BY <1>0, <1>7, MintEffect
  <2>2. QED
    BY <1>0, <1>a, <2>1 DEF AdoptionPrivate, InsertsOnly
<1>8. ASSUME NEW h \in Handlers, RevokeReused(h) \/ LogoutRevoke(h)
      PROVE AdoptionPrivate'
  <2>1. \E S : RevokesOnly(S)
    BY <1>0, <1>8, RevokeRowsEffect DEF RevokeReused, LogoutRevoke, RevokeFamily
  <2>2. /\ \A t \in DOMAIN table' :
              t \in DOMAIN table /\ table'[t].family = table[t].family
        /\ lastId' = lastId /\ issued' = issued
        /\ ended' = ended \cup {task[h].family}
        /\ task'[h] = Idle
        /\ \A g \in Handlers : g # h => task'[g] = task[g]
    BY <1>0, <1>8, <2>1
       DEF TypeOK, RevokesOnly, RevokeReused, LogoutRevoke, RevokeFamily
  <2>3. QED
    BY <1>0, <1>a, <2>2 DEF AdoptionPrivate, Task
<1>9. ASSUME NEW h \in Handlers, LogoutFind(h) PROVE AdoptionPrivate'
  BY <1>0, <1>9 DEF TypeOK, AdoptionPrivate, LogoutFind, Task
<1>10. ASSUME NEW h \in Handlers, Abort(h) PROVE AdoptionPrivate'
  BY <1>0, <1>10 DEF TypeOK, AdoptionPrivate, Abort, Task
<1>11. ASSUME NEW h \in Handlers, NEW u \in Users, Login(h, u)
       PROVE AdoptionPrivate'
  BY <1>0, <1>11 DEF TypeOK, AdoptionPrivate, Login, Task
<1>12. ASSUME NEW h \in Handlers, NEW t \in DOMAIN issued, Refresh(h, t)
       PROVE AdoptionPrivate'
  BY <1>0, <1>12 DEF TypeOK, AdoptionPrivate, Refresh, Task
<1>13. ASSUME NEW h \in Handlers, NEW u \in Users, NEW t \in DOMAIN issued,
              Logout(h, u, t)
       PROVE AdoptionPrivate'
  BY <1>0, <1>13 DEF TypeOK, AdoptionPrivate, Logout, Task
<1>14. ASSUME NEW u \in Users, LogoutAll(u) PROVE AdoptionPrivate'
  <2>1. RevokesOnly({t \in DOMAIN table : table[t].user = u})
    BY <1>0, <1>14, RevokeRowsEffect DEF LogoutAll
  <2>2. QED
    BY <1>0, <1>14, <2>1 DEF AdoptionPrivate, RevokesOnly, LogoutAll
<1>15. ASSUME NEW u \in Users, DeleteUser(u) PROVE AdoptionPrivate'
  BY <1>0, <1>15 DEF AdoptionPrivate, DeleteUser, Restrict
<1>16. CASE Tick \/ UNCHANGED vars
  BY <1>0, <1>16 DEF AdoptionPrivate, Tick, vars
<1>17. QED
  BY <1>1, <1>2, <1>3, <1>4, <1>5, <1>6, <1>7, <1>8, <1>9, <1>10, <1>11, <1>12,
     <1>13, <1>14, <1>15, <1>16 DEF Next, HandlerStep

\* A step that adds no unrotated row and no winner keeps OneHeir.
LEMMA HeirMonotone ==
  ASSUME OneHeir,
         \A t \in DOMAIN table' :
            /\ t \in DOMAIN table
            /\ table'[t].family = table[t].family
            /\ table[t].rotated => table'[t].rotated,
         \A g \in Handlers :
            task'[g].step \in {"account", "mint"} =>
               /\ task[g].step \in {"account", "mint"}
               /\ task'[g].family = task[g].family
  PROVE  OneHeir'
  BY DEF OneHeir, InFlight, Minting

\* Racing refreshes never leave a family with two heirs.
LEMMA OneHeirStep == Inv /\ [Next]_vars => OneHeir'
<1> SUFFICES ASSUME Inv, [Next]_vars PROVE OneHeir'
  OBVIOUS
<1>0. TypeOK /\ Allocated /\ AdoptionPrivate /\ OneHeir
  BY DEF Inv
<1>a. /\ lastId \in Nat
      /\ DOMAIN table \subseteq Nat
      /\ \A h \in Handlers : task[h] \in Task
  BY <1>0 DEF TypeOK
<1>1. ASSUME NEW h \in Handlers, Save(h) PROVE OneHeir'
  <2>1. /\ InsertsOnly(Placeholder)
        /\ task'[h] = Doing("adopt", lastId', Placeholder, task[h].user, 0)
        /\ \A g \in Handlers : g # h => task'[g] = task[g]
    BY <1>0, <1>1, SaveEffect
  <2>2. QED
    BY <1>0, <1>a, <2>1 DEF OneHeir, InFlight, Minting, InsertsOnly
<1>2. ASSUME NEW h \in Handlers, Adopt(h) PROVE OneHeir'
  <2>1. AdoptsOnly(h)
    BY <1>0, <1>2, AdoptEffect
  <2>2. /\ \A s \in DOMAIN table : table[s].family # task[h].token
        /\ \A g \in Handlers : task[g].family # task[h].token
        /\ task[h].token # 0
    BY <1>0, <2>1 DEF AdoptsOnly, AdoptionPrivate
  <2>3. QED
    BY <1>0, <1>a, <2>1, <2>2 DEF AdoptsOnly, OneHeir, InFlight, Minting
<1>3. ASSUME NEW h \in Handlers, Prune(h) PROVE OneHeir'
  BY <1>0, <1>3, HeirMonotone DEF TypeOK, Prune, Restrict, Task
<1>4. ASSUME NEW h \in Handlers, Find(h) PROVE OneHeir'
  BY <1>0, <1>4, HeirMonotone DEF TypeOK, Find, Usable, Task
<1>5. ASSUME NEW h \in Handlers, Rotate(h) PROVE OneHeir'
  <2> DEFINE t == task[h].token
  <2>0. task[h].step = "rotate"
    BY <1>5 DEF Rotate
  <2>1. CASE Usable(t)
    <3>1. RetiresOnly(t)
      BY <1>0, <1>5, <2>1, RotateRowEffect DEF Rotate, Usable
    <3>2. /\ t \in DOMAIN table /\ ~table[t].rotated
          /\ table[t].family = task[h].family
      BY <1>0, <2>0, <2>1 DEF Usable, Allocated
    <3>3. /\ task'[h].step = "account"
          /\ task'[h].family = task[h].family
          /\ \A g \in Handlers : g # h => task'[g] = task[g]
      BY <1>0, <1>5, <2>1 DEF Rotate, TypeOK, Task
    <3>4. QED
      BY <1>0, <3>1, <3>2, <3>3 DEF RetiresOnly, OneHeir, InFlight, Minting
  <2>2. CASE ~Usable(t)
    BY <1>0, <1>5, <2>2, HeirMonotone DEF Rotate, TypeOK, Task
  <2>3. QED
    BY <2>1, <2>2
<1>6. ASSUME NEW h \in Handlers, Account(h) PROVE OneHeir'
  BY <1>0, <1>6, HeirMonotone DEF TypeOK, Account, Task
<1>7. ASSUME NEW h \in Handlers, Mint(h) PROVE OneHeir'
  <2>1. /\ InsertsOnly(task[h].family)
        /\ task[h].step = "mint"
        /\ task'[h] = Idle
        /\ \A g \in Handlers : g # h => task'[g] = task[g]
    BY <1>0, <1>7, MintEffect
  <2>2. QED
    BY <1>0, <1>a, <2>1 DEF OneHeir, InFlight, Minting, InsertsOnly
<1>8. ASSUME NEW h \in Handlers, RevokeReused(h) \/ LogoutRevoke(h)
      PROVE OneHeir'
  <2>1. \E S : RevokesOnly(S)
    BY <1>0, <1>8, RevokeRowsEffect DEF RevokeReused, LogoutRevoke, RevokeFamily
  <2>2. QED
    BY <1>0, <1>8, <2>1, HeirMonotone
       DEF TypeOK, RevokesOnly, RevokeReused, LogoutRevoke
<1>9. ASSUME NEW h \in Handlers, LogoutFind(h) PROVE OneHeir'
  BY <1>0, <1>9, HeirMonotone DEF TypeOK, LogoutFind, Task
<1>10. ASSUME NEW h \in Handlers, Abort(h) PROVE OneHeir'
  BY <1>0, <1>10, HeirMonotone DEF TypeOK, Abort, Task
<1>11. ASSUME NEW h \in Handlers, NEW u \in Users, Login(h, u) PROVE OneHeir'
  BY <1>0, <1>11, HeirMonotone DEF TypeOK, Login, Task
<1>12. ASSUME NEW h \in Handlers, NEW t \in DOMAIN issued, Refresh(h, t)
       PROVE OneHeir'
  BY <1>0, <1>12, HeirMonotone DEF TypeOK, Refresh, Task
<1>13. ASSUME NEW h \in Handlers, NEW u \in Users, NEW t \in DOMAIN issued,
              Logout(h, u, t)
       PROVE OneHeir'
  BY <1>0, <1>13, HeirMonotone DEF TypeOK, Logout, Task
<1>14. ASSUME NEW u \in Users, LogoutAll(u) PROVE OneHeir'
  <2>1. RevokesOnly({t \in DOMAIN table : table[t].user = u})
    BY <1>0, <1>14, RevokeRowsEffect DEF LogoutAll
  <2>2. QED
    BY <1>0, <1>14, <2>1, HeirMonotone DEF RevokesOnly, LogoutAll
<1>15. ASSUME NEW u \in Users, DeleteUser(u) PROVE OneHeir'
  BY <1>0, <1>15, HeirMonotone DEF DeleteUser, Restrict
<1>16. CASE Tick \/ UNCHANGED vars
  BY <1>0, <1>16, HeirMonotone DEF Tick, vars
<1>17. QED
  BY <1>1, <1>2, <1>3, <1>4, <1>5, <1>6, <1>7, <1>8, <1>9, <1>10, <1>11, <1>12,
     <1>13, <1>14, <1>15, <1>16 DEF Next, HandlerStep

LEMMA Inductive == Spec => []Inv
<1>1. Inv /\ [Next]_vars => Inv'
  BY TypeStep, AllocatedStep, AdoptionStep, OneHeirStep DEF Inv
<1>2. QED
  BY InitInv, <1>1, PTL DEF Spec

-----------------------------------------------------------------------------
(* The theorems.                                                            *)

\* Rows, tasks and history variables always have their types.
THEOREM TypeCorrect == Spec => []TypeOK
<1>1. Inv => TypeOK
  BY DEF Inv
<1>2. QED
  BY Inductive, <1>1, PTL

\* However many refreshes, logouts, deletions and failures interleave, a
\* family never holds two tokens that could both still be exchanged.
THEOREM SingleUse == Spec => []SingleUsableToken
<1>1. Inv => SingleUsableToken
  <2> SUFFICES ASSUME Inv, NEW s \in DOMAIN table, NEW t \in DOMAIN table,
                      table[s].family = table[t].family,
                      table[s].family # Placeholder,
                      Usable(s), Usable(t)
               PROVE  s = t
    BY DEF SingleUsableToken
  <2>1. table[s].family \in Tokens
    BY DEF Inv, TypeOK, Row
  <2>2. ~table[s].rotated /\ ~table[t].rotated
    BY DEF Usable
  <2>3. QED
    BY <2>1, <2>2 DEF Inv, OneHeir
<1>2. QED
  BY Inductive, <1>1, PTL

\* A step that adds no usable row and no winner keeps a closed family closed.
LEMMA ClosedMonotone ==
  ASSUME NEW f \in Tokens, Closed(f),
         ended \subseteq ended',
         \A t \in DOMAIN table' :
            /\ t \in DOMAIN table
            /\ table'[t].family = table[t].family
            /\ table[t].rotated => table'[t].rotated
            /\ table[t].revoked => table'[t].revoked,
         \A g \in Handlers :
            task'[g].step \in {"account", "mint"} =>
               /\ task[g].step \in {"account", "mint"}
               /\ task'[g].family = task[g].family
  PROVE  Closed(f)'
  BY DEF Closed, InFlight, Minting, Usable

LEMMA ClosedStep ==
  ASSUME Inv, [Next]_vars, NEW f \in Tokens, Closed(f)
  PROVE  Closed(f)'
<1>0. TypeOK /\ Allocated /\ AdoptionPrivate /\ OneHeir
  BY DEF Inv
<1>a. f # 0 /\ \A h \in Handlers : task[h] \in Task
  BY <1>0 DEF TypeOK
<1>1. ASSUME NEW h \in Handlers, Save(h) PROVE Closed(f)'
  <2>1. /\ InsertsOnly(Placeholder)
        /\ task'[h] = Doing("adopt", lastId', Placeholder, task[h].user, 0)
        /\ \A g \in Handlers : g # h => task'[g] = task[g]
    BY <1>0, <1>1, SaveEffect
  <2>2. QED
    BY <1>a, <2>1 DEF Closed, InFlight, Minting, Usable, InsertsOnly
<1>2. ASSUME NEW h \in Handlers, Adopt(h) PROVE Closed(f)'
  <2>1. AdoptsOnly(h)
    BY <1>0, <1>2, AdoptEffect
  <2>2. f # task[h].token
    BY <1>0, <2>1 DEF AdoptsOnly, AdoptionPrivate, Closed
  <2>3. QED
    BY <2>1, <2>2 DEF AdoptsOnly, Closed, InFlight, Minting, Usable
<1>3. ASSUME NEW h \in Handlers, Prune(h) PROVE Closed(f)'
  BY <1>0, <1>3, ClosedMonotone DEF TypeOK, Prune, Restrict, Task
<1>4. ASSUME NEW h \in Handlers, Find(h) PROVE Closed(f)'
  <2>1. /\ table' = table /\ ended' = ended
        /\ task'[h].step \in {"idle", "revoke", "rotate"}
        /\ \A g \in Handlers : g # h => task'[g] = task[g]
    BY <1>0, <1>4 DEF TypeOK, Find
  <2>2. QED
    BY <2>1, ClosedMonotone
<1>5. ASSUME NEW h \in Handlers, Rotate(h) PROVE Closed(f)'
  <2> DEFINE t == task[h].token
  <2>0. task[h].step = "rotate"
    BY <1>5 DEF Rotate
  <2>1. CASE Usable(t)
    <3>1. RetiresOnly(t)
      BY <1>0, <1>5, <2>1, RotateRowEffect DEF Rotate, Usable
    <3>2. t \in DOMAIN table /\ table[t].family = task[h].family
      BY <1>0, <2>0, <2>1 DEF Usable, Allocated
    <3>3. task[h].family # f
      BY <2>1, <3>2 DEF Closed
    <3>4. /\ task'[h].family = task[h].family
          /\ \A g \in Handlers : g # h => task'[g] = task[g]
          /\ ended' = ended
      BY <1>0, <1>5, <2>1 DEF Rotate, TypeOK, Task
    <3>5. QED
      BY <3>1, <3>2, <3>3, <3>4 DEF RetiresOnly, Closed, InFlight, Minting, Usable
  <2>2. CASE ~Usable(t)
    BY <1>0, <1>5, <2>2, ClosedMonotone DEF Rotate, TypeOK, Task
  <2>3. QED
    BY <2>1, <2>2
<1>6. ASSUME NEW h \in Handlers, Account(h) PROVE Closed(f)'
  BY <1>0, <1>6, ClosedMonotone DEF TypeOK, Account, Task
<1>7. ASSUME NEW h \in Handlers, Mint(h) PROVE Closed(f)'
  <2>1. /\ InsertsOnly(task[h].family)
        /\ task[h].step = "mint"
        /\ task'[h] = Idle
        /\ \A g \in Handlers : g # h => task'[g] = task[g]
    BY <1>0, <1>7, MintEffect
  <2>2. QED
    BY <1>a, <2>1 DEF Closed, InFlight, Minting, Usable, InsertsOnly
<1>8. ASSUME NEW h \in Handlers, RevokeReused(h) \/ LogoutRevoke(h)
      PROVE Closed(f)'
  <2>1. \E S : RevokesOnly(S)
    BY <1>0, <1>8, RevokeRowsEffect DEF RevokeReused, LogoutRevoke, RevokeFamily
  <2>2. QED
    BY <1>0, <1>8, <2>1, ClosedMonotone
       DEF TypeOK, RevokesOnly, RevokeReused, LogoutRevoke, RevokeFamily
<1>9. ASSUME NEW h \in Handlers, LogoutFind(h) PROVE Closed(f)'
  BY <1>0, <1>9, ClosedMonotone DEF TypeOK, LogoutFind, Task
<1>10. ASSUME NEW h \in Handlers, Abort(h) PROVE Closed(f)'
  BY <1>0, <1>10, ClosedMonotone DEF TypeOK, Abort, Task
<1>11. ASSUME NEW h \in Handlers, NEW u \in Users, Login(h, u) PROVE Closed(f)'
  BY <1>0, <1>11, ClosedMonotone DEF TypeOK, Login, Task
<1>12. ASSUME NEW h \in Handlers, NEW t \in DOMAIN issued, Refresh(h, t)
       PROVE Closed(f)'
  BY <1>0, <1>12, ClosedMonotone DEF TypeOK, Refresh, Task
<1>13. ASSUME NEW h \in Handlers, NEW u \in Users, NEW t \in DOMAIN issued,
              Logout(h, u, t)
       PROVE Closed(f)'
  BY <1>0, <1>13, ClosedMonotone DEF TypeOK, Logout, Task
<1>14. ASSUME NEW u \in Users, LogoutAll(u) PROVE Closed(f)'
  <2>1. RevokesOnly({t \in DOMAIN table : table[t].user = u})
    BY <1>0, <1>14, RevokeRowsEffect DEF LogoutAll
  <2>2. QED
    BY <1>0, <1>14, <2>1, ClosedMonotone DEF RevokesOnly, LogoutAll
<1>15. ASSUME NEW u \in Users, DeleteUser(u) PROVE Closed(f)'
  BY <1>0, <1>15, ClosedMonotone DEF DeleteUser, Restrict
<1>16. CASE Tick \/ UNCHANGED vars
  BY <1>0, <1>16, ClosedMonotone DEF Tick, vars
<1>17. QED
  BY <1>1, <1>2, <1>3, <1>4, <1>5, <1>6, <1>7, <1>8, <1>9, <1>10, <1>11, <1>12,
     <1>13, <1>14, <1>15, <1>16 DEF Next, HandlerStep

\* A family that was revoked and has no usable token and no winner in flight
\* stays that way: no interleaving brings an ended session back.
THEOREM EndedStaysEnded == Spec => ClosedForGood
<1>1. Inv /\ [Next]_vars => [\A f \in Tokens : Closed(f) => Closed(f)']_vars
  BY ClosedStep
<1>2. QED
  BY Inductive, <1>1, PTL DEF Spec, ClosedForGood

-----------------------------------------------------------------------------
(* No session outlives its account.                                         *)

LEMMA OwnedStep ==
  ASSUME Inv, NoSessionOutlivesAccount, [Next]_vars
  PROVE  NoSessionOutlivesAccount'
<1>0. TypeOK /\ Allocated
  BY DEF Inv
<1>a. ASSUME users' = users,
             \A t \in DOMAIN table' : t \in DOMAIN table /\ table'[t].user = table[t].user
      PROVE  NoSessionOutlivesAccount'
  BY <1>a DEF NoSessionOutlivesAccount
<1>1. ASSUME NEW h \in Handlers, Save(h) \/ Mint(h) PROVE NoSessionOutlivesAccount'
  <2>1. /\ users' = users /\ task[h].user \in users
        /\ DOMAIN table' = DOMAIN table \cup {lastId + 1}
        /\ table'[lastId + 1].user = task[h].user
        /\ \A t \in DOMAIN table : t # lastId + 1 => table'[t] = table[t]
    BY <1>1 DEF Save, Mint, CanInsert, Insert
  <2> QED BY <2>1 DEF NoSessionOutlivesAccount
<1>2. ASSUME NEW h \in Handlers, Adopt(h) PROVE NoSessionOutlivesAccount'
  <2>1. AdoptsOnly(h) /\ users' = users
    BY <1>0, <1>2, AdoptEffect DEF Adopt
  <2> QED BY <2>1, <1>a DEF AdoptsOnly
<1>3. ASSUME NEW h \in Handlers, Prune(h) PROVE NoSessionOutlivesAccount'
  BY <1>3, <1>a DEF Prune, Restrict
<1>4. ASSUME NEW h \in Handlers, Rotate(h) PROVE NoSessionOutlivesAccount'
  <2>1. CASE Usable(task[h].token)
    <3>1. RetiresOnly(task[h].token) /\ users' = users
      BY <1>0, <1>4, <2>1, RotateRowEffect DEF Rotate, Usable
    <3> QED BY <3>1, <1>a DEF RetiresOnly
  <2>2. CASE ~Usable(task[h].token)
    BY <1>4, <2>2, <1>a DEF Rotate
  <2> QED BY <2>1, <2>2
<1>5. ASSUME NEW h \in Handlers, RevokeReused(h) \/ LogoutRevoke(h)
      PROVE NoSessionOutlivesAccount'
  <2>1. users' = users /\ \E S : RevokesOnly(S)
    BY <1>0, <1>5, RevokeRowsEffect DEF RevokeReused, LogoutRevoke, RevokeFamily
  <2> QED BY <2>1, <1>a DEF RevokesOnly
<1>6. ASSUME NEW u \in Users, LogoutAll(u) PROVE NoSessionOutlivesAccount'
  <2>1. users' = users /\ \E S : RevokesOnly(S)
    BY <1>0, <1>6, RevokeRowsEffect DEF LogoutAll
  <2> QED BY <2>1, <1>a DEF RevokesOnly
<1>7. ASSUME NEW u \in Users, DeleteUser(u) PROVE NoSessionOutlivesAccount'
  BY <1>7 DEF DeleteUser, Restrict, NoSessionOutlivesAccount
<1>8. ASSUME UNCHANGED <<table, users>> PROVE NoSessionOutlivesAccount'
  BY <1>8 DEF NoSessionOutlivesAccount
<1>9. ASSUME NEW h \in Handlers, Find(h) \/ Account(h) \/ LogoutFind(h) \/ Abort(h)
      PROVE NoSessionOutlivesAccount'
  BY <1>9, <1>8 DEF Find, Account, LogoutFind, Abort
<1>10. ASSUME NEW h \in Handlers, NEW u \in Users, NEW t \in DOMAIN issued,
              Logout(h, u, t)
       PROVE NoSessionOutlivesAccount'
  BY <1>10, <1>8 DEF Logout
<1>11. ASSUME NEW h \in Handlers, NEW u \in Users, Login(h, u)
       PROVE NoSessionOutlivesAccount'
  BY <1>11, <1>8 DEF Login
<1>12. ASSUME NEW h \in Handlers, NEW t \in DOMAIN issued, Refresh(h, t)
       PROVE NoSessionOutlivesAccount'
  BY <1>12, <1>8 DEF Refresh
<1>13. CASE Tick \/ UNCHANGED vars
  BY <1>13, <1>8 DEF Tick, vars
<1> QED
  BY <1>1, <1>2, <1>3, <1>4, <1>5, <1>6, <1>7, <1>9, <1>10, <1>11, <1>12, <1>13
  DEF Next, HandlerStep

\* Whatever a login or refresh was about to insert when its account was
\* deleted, the row does not come (the foreign key of refresh_tokens).
THEOREM SessionsOwned == Spec => []NoSessionOutlivesAccount
<1>1. Init => NoSessionOutlivesAccount
  BY DEF Init, NoSessionOutlivesAccount
<1>2. Inv /\ NoSessionOutlivesAccount /\ [Next]_vars => NoSessionOutlivesAccount'
  BY OwnedStep
<1> QED BY Inductive, <1>1, <1>2, PTL DEF Spec

-----------------------------------------------------------------------------
(* A family belongs to one account.                                         *)

\* A handler that acts in the name of the account whose family it remembers:
\* it may still add a token to that family, or end it for a logout.
Bound(h) == task[h].step \in {"rotate", "account", "mint", "logout_revoke"}

OneUser ==
    /\ \A s, t \in DOMAIN table :
          table[s].family = table[t].family /\ table[s].family # Placeholder
              => table[s].user = table[t].user
    /\ \A h \in Handlers : Bound(h) =>
          \A t \in DOMAIN table :
              table[t].family = task[h].family => table[t].user = task[h].user
    /\ \A g, h \in Handlers :
          Bound(g) /\ Bound(h) /\ task[g].family = task[h].family
              => task[g].user = task[h].user

\* The head of a family was handed out before its descendants.
Descent == \A s \in DOMAIN issued : issued[s] \in DOMAIN issued

LEMMA BoundFamily == ASSUME Inv, NEW h \in Handlers, Bound(h) PROVE task[h].family \in Tokens
BY DEF Inv, TypeOK, Allocated, Bound

\* Steps that add neither a row nor a bound handler, and move nothing between families.
LEMMA OneUserStays ==
  ASSUME OneUser,
         \A t \in DOMAIN table' :
            /\ t \in DOMAIN table
            /\ table'[t].family = table[t].family
            /\ table'[t].user = table[t].user,
         \A g \in Handlers :
            task'[g].step \in {"rotate", "account", "mint", "logout_revoke"} =>
               /\ task[g].step \in {"rotate", "account", "mint", "logout_revoke"}
               /\ task'[g].family = task[g].family
               /\ task'[g].user = task[g].user
  PROVE  OneUser'
BY DEF OneUser, Bound

\* A handler takes family and account from the row of a token handed out.
LEMMA OneUserBinds ==
  ASSUME TypeOK, Allocated, OneUser, NEW h \in Handlers,
         NEW t \in DOMAIN table \cap DOMAIN issued,
         table' = table,
         task'[h].family = table[t].family, task'[h].user = table[t].user,
         \A g \in Handlers : g # h => task'[g] = task[g]
  PROVE  OneUser'
<1>1. table[t].family # Placeholder
  BY DEF Allocated, TypeOK
<1>2. \A g \in Handlers : Bound(g)' => g = h \/ (Bound(g) /\ task'[g] = task[g])
  BY DEF Bound
<1>3. \A g \in Handlers : Bound(g)' =>
          \A s \in DOMAIN table' :
              table'[s].family = task'[g].family => table'[s].user = task'[g].user
  BY <1>1, <1>2 DEF OneUser
<1>4. \A g, k \in Handlers :
          Bound(g)' /\ Bound(k)' /\ task'[g].family = task'[k].family
              => task'[g].user = task'[k].user
  BY <1>2 DEF OneUser
<1> QED BY <1>3, <1>4 DEF OneUser

LEMMA OneUserStep ==
  ASSUME Inv, OneUser, [Next]_vars
  PROVE  OneUser'
<1>0. TypeOK /\ Allocated /\ AdoptionPrivate /\ \A h \in Handlers : task[h] \in Task
  BY DEF Inv, TypeOK
<1>1. ASSUME NEW h \in Handlers, Save(h) PROVE OneUser'
  <2>1. /\ InsertsOnly(Placeholder)
        /\ task'[h] = Doing("adopt", lastId', Placeholder, task[h].user, 0)
        /\ \A g \in Handlers : g # h => task'[g] = task[g]
    BY <1>0, <1>1, SaveEffect
  <2>2. \A g \in Handlers : Bound(g)' => g # h /\ Bound(g) /\ task'[g] = task[g]
    BY <2>1 DEF Bound
  <2>3. \A g \in Handlers : Bound(g) => task[g].family # 0
    BY BoundFamily
  <2>4. \A s, t \in DOMAIN table' :
            table'[s].family = table'[t].family /\ table'[s].family # Placeholder
                => table'[s].user = table'[t].user
    BY <2>1 DEF InsertsOnly, OneUser
  <2>5. \A g \in Handlers : Bound(g)' =>
            \A t \in DOMAIN table' :
                table'[t].family = task'[g].family => table'[t].user = task'[g].user
    BY <2>1, <2>2, <2>3 DEF InsertsOnly, OneUser
  <2> QED BY <2>2, <2>4, <2>5 DEF OneUser
<1>2. ASSUME NEW h \in Handlers, Adopt(h) PROVE OneUser'
  <2>1. AdoptsOnly(h)
    BY <1>0, <1>2, AdoptEffect
  <2>2. /\ \A s \in DOMAIN table : table[s].family # task[h].token
        /\ \A g \in Handlers : task[g].family # task[h].token
    BY <1>0, <2>1 DEF AdoptsOnly, AdoptionPrivate
  <2>3. \A g \in Handlers : Bound(g)' => Bound(g) /\ task'[g] = task[g]
    BY <2>1 DEF AdoptsOnly, Bound
  <2>4. \A s, t \in DOMAIN table' :
            table'[s].family = table'[t].family /\ table'[s].family # Placeholder
                => table'[s].user = table'[t].user
    BY <2>1, <2>2 DEF AdoptsOnly, OneUser
  <2>5. \A g \in Handlers : Bound(g)' =>
            \A t \in DOMAIN table' :
                table'[t].family = task'[g].family => table'[t].user = task'[g].user
    BY <2>1, <2>2, <2>3 DEF AdoptsOnly, OneUser
  <2> QED BY <2>3, <2>4, <2>5 DEF OneUser
<1>3. ASSUME NEW h \in Handlers, Prune(h) PROVE OneUser'
  BY <1>0, <1>3, OneUserStays DEF TypeOK, Prune, Restrict, Task
<1>4. ASSUME NEW h \in Handlers, Find(h) PROVE OneUser'
  <2> DEFINE t == task[h].token
  <2>1. CASE task'[h].step # "rotate"
    <3>1. /\ table' = table /\ task'[h].step \in {"idle", "revoke"}
          /\ \A g \in Handlers : g # h => task'[g] = task[g]
      BY <1>0, <1>4, <2>1 DEF TypeOK, Find
    <3> QED BY <3>1, OneUserStays
  <2>2. CASE task'[h].step = "rotate"
    <3>1. /\ table' = table /\ t \in DOMAIN table
          /\ task'[h].family = table[t].family /\ task'[h].user = table[t].user
          /\ \A g \in Handlers : g # h => task'[g] = task[g]
      BY <1>0, <1>4, <2>2 DEF TypeOK, Find, Usable
    <3>2. t \in DOMAIN issued
      BY <1>0, <1>4 DEF Find, Allocated
    <3> QED BY <1>0, <3>1, <3>2, OneUserBinds
  <2> QED BY <2>1, <2>2
<1>5. ASSUME NEW h \in Handlers, Rotate(h) PROVE OneUser'
  <2>1. CASE Usable(task[h].token)
    <3>1. RetiresOnly(task[h].token)
      BY <1>0, <1>5, <2>1, RotateRowEffect DEF Rotate, Usable
    <3>2. /\ task[h].step = "rotate"
          /\ task'[h].family = task[h].family /\ task'[h].user = task[h].user
          /\ \A g \in Handlers : g # h => task'[g] = task[g]
      BY <1>0, <1>5, <2>1 DEF Rotate, TypeOK, Task
    <3> QED BY <3>1, <3>2, OneUserStays DEF RetiresOnly
  <2>2. CASE ~Usable(task[h].token)
    BY <1>0, <1>5, <2>2, OneUserStays DEF Rotate, TypeOK, Task
  <2> QED BY <2>1, <2>2
<1>6. ASSUME NEW h \in Handlers, Account(h) PROVE OneUser'
  BY <1>0, <1>6, OneUserStays DEF TypeOK, Account, Task
<1>7. ASSUME NEW h \in Handlers, Mint(h) PROVE OneUser'
  <2>1. /\ InsertsOnly(task[h].family) /\ task'[h] = Idle /\ task[h].step = "mint"
        /\ \A g \in Handlers : g # h => task'[g] = task[g]
    BY <1>0, <1>7, MintEffect
  <2>2. table'[lastId'].user = task[h].user
    BY <1>7 DEF Mint, Insert
  <2>3. \A g \in Handlers : Bound(g)' => Bound(g) /\ task'[g] = task[g]
    BY <2>1 DEF Bound
  <2>4. \A s, t \in DOMAIN table' :
            table'[s].family = table'[t].family /\ table'[s].family # Placeholder
                => table'[s].user = table'[t].user
    BY <2>1, <2>2 DEF InsertsOnly, OneUser, Bound
  <2>5. \A g \in Handlers : Bound(g)' =>
            \A t \in DOMAIN table' :
                table'[t].family = task'[g].family => table'[t].user = task'[g].user
    BY <2>1, <2>2, <2>3 DEF InsertsOnly, OneUser, Bound
  <2> QED BY <2>3, <2>4, <2>5 DEF OneUser
<1>8. ASSUME NEW h \in Handlers, RevokeReused(h) \/ LogoutRevoke(h)
      PROVE OneUser'
  <2>1. \E S : RevokesOnly(S)
    BY <1>0, <1>8, RevokeRowsEffect DEF RevokeReused, LogoutRevoke, RevokeFamily
  <2> QED
    BY <1>0, <1>8, <2>1, OneUserStays
       DEF TypeOK, RevokesOnly, RevokeReused, LogoutRevoke
<1>9. ASSUME NEW h \in Handlers, LogoutFind(h) PROVE OneUser'
  <2> DEFINE t == task[h].token
  <2>1. CASE ~(t \in DOMAIN table /\ table[t].user = task[h].user)
    BY <1>0, <1>9, <2>1, OneUserStays DEF TypeOK, LogoutFind, Task
  <2>2. CASE t \in DOMAIN table /\ table[t].user = task[h].user
    <3>1. /\ table' = table /\ t \in DOMAIN table
          /\ task'[h].family = table[t].family /\ task'[h].user = table[t].user
          /\ \A g \in Handlers : g # h => task'[g] = task[g]
      BY <1>0, <1>9, <2>2 DEF TypeOK, LogoutFind
    <3>2. t \in DOMAIN issued
      BY <1>0, <1>9 DEF LogoutFind, Allocated
    <3> QED BY <1>0, <3>1, <3>2, OneUserBinds
  <2> QED BY <2>1, <2>2
<1>10. ASSUME NEW h \in Handlers, Abort(h) PROVE OneUser'
  BY <1>0, <1>10, OneUserStays DEF TypeOK, Abort, Task
<1>11. ASSUME NEW h \in Handlers, NEW u \in Users, Login(h, u) PROVE OneUser'
  BY <1>0, <1>11, OneUserStays DEF TypeOK, Login, Task
<1>12. ASSUME NEW h \in Handlers, NEW t \in DOMAIN issued, Refresh(h, t) PROVE OneUser'
  BY <1>0, <1>12, OneUserStays DEF TypeOK, Refresh, Task
<1>13. ASSUME NEW h \in Handlers, NEW u \in Users, NEW t \in DOMAIN issued,
              Logout(h, u, t)
       PROVE OneUser'
  BY <1>0, <1>13, OneUserStays DEF TypeOK, Logout, Task
<1>14. ASSUME NEW u \in Users, LogoutAll(u) PROVE OneUser'
  <2>1. RevokesOnly({t \in DOMAIN table : table[t].user = u})
    BY <1>0, <1>14, RevokeRowsEffect DEF LogoutAll
  <2> QED BY <1>14, <2>1, OneUserStays DEF RevokesOnly, LogoutAll
<1>15. ASSUME NEW u \in Users, DeleteUser(u) PROVE OneUser'
  BY <1>15, OneUserStays DEF DeleteUser, Restrict
<1>16. CASE Tick \/ UNCHANGED vars
  BY <1>16, OneUserStays DEF Tick, vars
<1> QED
  BY <1>1, <1>2, <1>3, <1>4, <1>5, <1>6, <1>7, <1>8, <1>9, <1>10, <1>11, <1>12,
     <1>13, <1>14, <1>15, <1>16 DEF Next, HandlerStep

\* Only a logout's own statements bring it to its end, and its UPDATE reaches
\* the rows of the family it remembers.
LEMMA LogoutStep ==
  ASSUME Inv, OneUser, [Next]_vars
  PROVE  ForeignRowsKept
<1> SUFFICES ASSUME NEW h \in Handlers, NEW t \in DOMAIN table,
                    task[h].step = "logout_revoke", task'[h].step = "idle",
                    table[t].user # task[h].user
             PROVE  t \in DOMAIN table' /\ table'[t] = table[t]
  BY DEF ForeignRowsKept
<1>0. TypeOK
  BY DEF Inv
<1>1. CASE LogoutRevoke(h)
  <2>1. RevokesOnly({s \in DOMAIN table : table[s].family = task[h].family})
    BY <1>0, <1>1, RevokeRowsEffect DEF LogoutRevoke, RevokeFamily
  <2>2. table[t].family # task[h].family
    BY DEF OneUser, Bound
  <2> QED BY <2>1, <2>2 DEF RevokesOnly
<1>2. CASE Abort(h)
  BY <1>2 DEF Abort
<1>3. ASSUME NEW g \in Handlers,
             \/ HandlerStep(g)
             \/ \E u \in Users : Login(g, u)
             \/ \E s \in DOMAIN issued : Refresh(g, s)
             \/ \E u \in Users, s \in DOMAIN issued : Logout(g, u, s)
      PROVE  LogoutRevoke(h) \/ Abort(h)
  <2>1. CASE g # h
    <3>1. task'[h] = task[h]
      BY <1>0, <1>3, <2>1
      DEF TypeOK, HandlerStep, Save, Adopt, Prune, Find, Rotate, Account, Mint,
          RevokeReused, LogoutFind, LogoutRevoke, Abort, Login, Refresh, Logout
    <3> QED BY <3>1
  <2>2. CASE g = h
    BY <1>3, <2>2
    DEF HandlerStep, Save, Adopt, Prune, Find, Rotate, Account, Mint, RevokeReused,
        LogoutFind, Login, Refresh, Logout
  <2> QED BY <2>1, <2>2
<1>4. \/ \E u \in Users : LogoutAll(u) \/ DeleteUser(u)
      \/ Tick \/ UNCHANGED vars
      => task' = task
  BY DEF LogoutAll, DeleteUser, Tick, vars
<1> QED BY <1>1, <1>2, <1>3, <1>4 DEF Next

\* A logout ends the caller's session and nobody else's, although it tests the
\* owner of one row and revokes a whole family a statement later.
THEOREM LogoutTouchesOwnSession == Spec => ForeignSessionsUntouched
<1>1. Init => OneUser
  BY DEF Init, OneUser, Bound
<1>2. Inv /\ OneUser /\ [Next]_vars => OneUser'
  BY OneUserStep
<1>3. Inv /\ OneUser /\ [Next]_vars => [ForeignRowsKept]_vars
  BY LogoutStep
<1> QED BY Inductive, <1>1, <1>2, <1>3, PTL DEF Spec, ForeignSessionsUntouched

LEMMA DescentStep ==
  ASSUME Inv, Descent, [Next]_vars
  PROVE  Descent'
<1>0. TypeOK /\ Allocated
  BY DEF Inv
<1>a. ASSUME issued' = issued PROVE Descent'
  BY <1>a DEF Descent
<1>1. ASSUME NEW h \in Handlers, Adopt(h) PROVE Descent'
  <2>1. AdoptsOnly(h)
    BY <1>0, <1>1, AdoptEffect
  <2> QED BY <2>1 DEF AdoptsOnly, Descent
<1>2. ASSUME NEW h \in Handlers, Mint(h) PROVE Descent'
  <2>1. /\ DOMAIN issued' = DOMAIN issued \cup {lastId'}
        /\ issued'[lastId'] = task[h].family
        /\ \A s \in DOMAIN issued : issued'[s] = issued[s]
        /\ task[h].step = "mint"
    BY <1>0, <1>2, MintEffect
  <2>2. task[h].family \in DOMAIN issued
    BY <1>0, <2>1 DEF Allocated, Descent
  <2> QED BY <2>1, <2>2 DEF Descent
<1>3. ASSUME NEW h \in Handlers,
             \/ Save(h) \/ Prune(h) \/ Find(h) \/ Rotate(h) \/ Account(h)
             \/ RevokeReused(h) \/ LogoutFind(h) \/ LogoutRevoke(h) \/ Abort(h)
      PROVE Descent'
  BY <1>3, <1>a DEF Save, Prune, Find, Rotate, Account, RevokeReused, LogoutFind,
                    LogoutRevoke, Abort
<1>4. ASSUME NEW h \in Handlers, NEW u \in Users, Login(h, u) PROVE Descent'
  BY <1>4, <1>a DEF Login
<1>5. ASSUME NEW h \in Handlers, NEW t \in DOMAIN issued, Refresh(h, t) PROVE Descent'
  BY <1>5, <1>a DEF Refresh
<1>6. ASSUME NEW h \in Handlers, NEW u \in Users, NEW t \in DOMAIN issued,
             Logout(h, u, t)
      PROVE Descent'
  BY <1>6, <1>a DEF Logout
<1>7. ASSUME NEW u \in Users, LogoutAll(u) \/ DeleteUser(u) PROVE Descent'
  BY <1>7, <1>a DEF LogoutAll, DeleteUser
<1>8. CASE Tick \/ UNCHANGED vars
  BY <1>8, <1>a DEF Tick, vars
<1> QED
  BY <1>1, <1>2, <1>3, <1>4, <1>5, <1>6, <1>7, <1>8 DEF Next, HandlerStep

-----------------------------------------------------------------------------
(* A family is complete or spent until it is revoked.                       *)

\* Every token of the family is in the table, unrevoked.
Complete(f) ==
    \A s \in DOMAIN issued : issued[s] = f => s \in DOMAIN table /\ ~table[s].revoked

\* Nothing of the family can be exchanged, nor will be: a winner in flight is
\* of a deleted account.
Spent(f) ==
    /\ \A t \in DOMAIN table : table[t].family = f => ~Usable(t)
    /\ \A h \in Handlers : Minting(h) /\ task[h].family = f => task[h].user \notin users

CompleteOrSpent == \A f \in Tokens \ ended : Complete(f) \/ Spent(f)

\* Steps that touch no live row of the family, and add no winner.
LEMMA FamilyStays ==
  ASSUME Inv, NEW f \in Tokens, Complete(f) \/ Spent(f),
         issued' = issued, users' \subseteq users,
         \A t \in DOMAIN table' :
            /\ t \in DOMAIN table
            /\ table'[t].family = table[t].family
            /\ table[t].rotated => table'[t].rotated
            /\ table[t].revoked => table'[t].revoked,
         \A t \in DOMAIN table :
            table[t].family = f /\ ~table[t].revoked
                => t \in DOMAIN table' /\ ~table'[t].revoked,
         \A g \in Handlers :
            task'[g].step \in {"account", "mint"} =>
               /\ task[g].step \in {"account", "mint"}
               /\ task'[g].family = task[g].family
               /\ task'[g].user = task[g].user
  PROVE  Complete(f)' \/ Spent(f)'
<1>1. CASE Complete(f)
  <2>1. Complete(f)'
    BY <1>1 DEF Complete, Inv, Allocated
  <2> QED BY <2>1
<1>2. CASE Spent(f)
  <2>1. Spent(f)'
    BY <1>2 DEF Spent, Usable, Minting
  <2> QED BY <2>1
<1> QED BY <1>1, <1>2

LEMMA CompleteStep ==
  ASSUME Inv, OneUser, Descent, NoSessionOutlivesAccount, CompleteOrSpent, [Next]_vars,
         NEW f \in Tokens \ ended'
  PROVE  Complete(f)' \/ Spent(f)'
<1>0. TypeOK /\ Allocated /\ AdoptionPrivate /\ OneHeir /\ f # 0
  BY DEF Inv
<1>a. \A h \in Handlers : task[h] \in Task
  BY <1>0 DEF TypeOK
<1>b. ended \subseteq ended'
  BY DEF Next, HandlerStep, vars, Save, Adopt, Prune, Find, Rotate, Account, Mint,
         RevokeReused, LogoutFind, LogoutRevoke, Abort, RevokeFamily, Login, Refresh,
         Logout, LogoutAll, DeleteUser, Tick
<1>c. Complete(f) \/ Spent(f)
  BY <1>b DEF CompleteOrSpent
<1>1. ASSUME NEW h \in Handlers, Save(h) PROVE Complete(f)' \/ Spent(f)'
  <2>1. /\ InsertsOnly(Placeholder) /\ issued' = issued /\ users' = users
        /\ task'[h] = Doing("adopt", lastId', Placeholder, task[h].user, 0)
        /\ \A g \in Handlers : g # h => task'[g] = task[g]
    BY <1>0, <1>1, SaveEffect DEF Save
  <2>2. Complete(f) => Complete(f)'
    BY <2>1 DEF Complete, InsertsOnly
  <2>3. Spent(f) => Spent(f)'
    BY <1>0, <2>1 DEF Spent, Usable, Minting, InsertsOnly
  <2> QED BY <1>c, <2>2, <2>3
<1>2. ASSUME NEW h \in Handlers, Adopt(h) PROVE Complete(f)' \/ Spent(f)'
  <2> DEFINE t == task[h].token
  <2>1. AdoptsOnly(h) /\ users' = users
    BY <1>0, <1>2, AdoptEffect DEF Adopt
  <2>2. /\ t \notin DOMAIN issued
        /\ \A s \in DOMAIN table : table[s].family # t
        /\ \A g \in Handlers : task[g].family # t
    BY <1>0, <2>1 DEF AdoptsOnly, AdoptionPrivate
  <2>3. CASE f # t
    <3>1. Complete(f) => Complete(f)'
      BY <2>1, <2>3 DEF Complete, AdoptsOnly
    <3>2. Spent(f) => Spent(f)'
      BY <2>1, <2>3 DEF Spent, Usable, Minting, AdoptsOnly
    <3> QED BY <1>c, <3>1, <3>2
  <2>4. CASE f = t
    <3>1. \A s \in DOMAIN issued' : issued'[s] = t => s = t
      BY <2>1, <2>2 DEF AdoptsOnly, Descent
    <3>2. CASE t \in DOMAIN table /\ ~table[t].revoked
      <4>1. Complete(f)'
        BY <2>1, <2>4, <3>1, <3>2 DEF Complete, AdoptsOnly
      <4> QED BY <4>1
    <3>3. CASE ~(t \in DOMAIN table /\ ~table[t].revoked)
      <4>1. Spent(f)'
        BY <2>1, <2>2, <2>4, <3>3 DEF Spent, Usable, Minting, AdoptsOnly
      <4> QED BY <4>1
    <3> QED BY <3>2, <3>3
  <2> QED BY <2>3, <2>4
<1>3. ASSUME NEW h \in Handlers, Prune(h) PROVE Complete(f)' \/ Spent(f)'
  BY <1>0, <1>3, <1>c, FamilyStays DEF TypeOK, Prune, Prunable, Restrict, Task
<1>4. ASSUME NEW h \in Handlers, Find(h) PROVE Complete(f)' \/ Spent(f)'
  <2>1. /\ table' = table /\ issued' = issued /\ users' = users
        /\ task'[h].step \in {"idle", "revoke", "rotate"}
        /\ \A g \in Handlers : g # h => task'[g] = task[g]
    BY <1>0, <1>4 DEF TypeOK, Find
  <2> QED BY <2>1, <1>c, FamilyStays
<1>5. ASSUME NEW h \in Handlers, Rotate(h) PROVE Complete(f)' \/ Spent(f)'
  <2> DEFINE t == task[h].token
  <2>0. task[h].step = "rotate" /\ issued' = issued /\ users' = users
    BY <1>5 DEF Rotate
  <2>1. CASE Usable(t)
    <3>1. RetiresOnly(t)
      BY <1>0, <1>5, <2>1, RotateRowEffect DEF Rotate, Usable
    <3>2. t \in DOMAIN table /\ table[t].family = task[h].family
      BY <1>0, <2>0, <2>1 DEF Usable, Allocated
    <3>3. /\ task'[h].family = task[h].family
          /\ \A g \in Handlers : g # h => task'[g] = task[g]
      BY <1>0, <1>5, <2>1 DEF Rotate, TypeOK, Task
    <3>4. Complete(f) => Complete(f)'
      BY <2>0, <3>1 DEF Complete, RetiresOnly
    <3>5. Spent(f) => Spent(f)'
      BY <2>0, <2>1, <3>1, <3>2, <3>3 DEF Spent, RetiresOnly, Usable, Minting
    <3> QED BY <1>c, <3>4, <3>5
  <2>2. CASE ~Usable(t)
    BY <1>0, <1>5, <1>c, <2>2, FamilyStays DEF Rotate, TypeOK, Task
  <2> QED BY <2>1, <2>2
<1>6. ASSUME NEW h \in Handlers, Account(h) PROVE Complete(f)' \/ Spent(f)'
  BY <1>0, <1>6, <1>c, FamilyStays DEF TypeOK, Account, Task
<1>7. ASSUME NEW h \in Handlers, Mint(h) PROVE Complete(f)' \/ Spent(f)'
  <2>1. /\ InsertsOnly(task[h].family)
        /\ DOMAIN issued' = DOMAIN issued \cup {lastId'}
        /\ issued'[lastId'] = task[h].family
        /\ \A s \in DOMAIN issued : issued'[s] = issued[s]
        /\ task[h].step = "mint" /\ task'[h] = Idle
        /\ \A g \in Handlers : g # h => task'[g] = task[g]
    BY <1>0, <1>7, MintEffect
  <2>2. /\ users' = users /\ task[h].user \in users
        /\ table'[lastId'].revoked = FALSE
    BY <1>7 DEF Mint, CanInsert, Insert
  <2>3. Complete(f) => Complete(f)'
    BY <2>1, <2>2 DEF Complete, InsertsOnly
  <2>4. Spent(f) => task[h].family # f
    BY <2>1, <2>2 DEF Spent, Minting
  <2>5. Spent(f) => Spent(f)'
    BY <2>1, <2>2, <2>4 DEF Spent, Usable, Minting, InsertsOnly
  <2> QED BY <1>c, <2>3, <2>5
<1>8. ASSUME NEW h \in Handlers, RevokeReused(h) \/ LogoutRevoke(h)
      PROVE Complete(f)' \/ Spent(f)'
  <2>1. /\ RevokesOnly({t \in DOMAIN table : table[t].family = task[h].family})
        /\ ended' = ended \cup {task[h].family}
        /\ issued' = issued /\ users' = users
        /\ task'[h] = Idle /\ \A g \in Handlers : g # h => task'[g] = task[g]
    BY <1>0, <1>8, RevokeRowsEffect DEF RevokeReused, LogoutRevoke, RevokeFamily, TypeOK
  <2>2. f # task[h].family
    BY <2>1
  <2> QED BY <2>1, <2>2, <1>c, FamilyStays DEF RevokesOnly
<1>9. ASSUME NEW h \in Handlers, LogoutFind(h) PROVE Complete(f)' \/ Spent(f)'
  BY <1>0, <1>9, <1>c, FamilyStays DEF TypeOK, LogoutFind, Task
<1>10. ASSUME NEW h \in Handlers, Abort(h) PROVE Complete(f)' \/ Spent(f)'
  BY <1>0, <1>10, <1>c, FamilyStays DEF TypeOK, Abort, Task
<1>11. ASSUME NEW h \in Handlers, NEW u \in Users, Login(h, u)
       PROVE Complete(f)' \/ Spent(f)'
  BY <1>0, <1>11, <1>c, FamilyStays DEF TypeOK, Login, Task
<1>12. ASSUME NEW h \in Handlers, NEW t \in DOMAIN issued, Refresh(h, t)
       PROVE Complete(f)' \/ Spent(f)'
  BY <1>0, <1>12, <1>c, FamilyStays DEF TypeOK, Refresh, Task
<1>13. ASSUME NEW h \in Handlers, NEW u \in Users, NEW t \in DOMAIN issued,
              Logout(h, u, t)
       PROVE Complete(f)' \/ Spent(f)'
  BY <1>0, <1>13, <1>c, FamilyStays DEF TypeOK, Logout, Task
<1>14. ASSUME NEW u \in Users, LogoutAll(u) PROVE Complete(f)' \/ Spent(f)'
  <2> DEFINE own == {t \in DOMAIN table : table[t].user = u}
  <2>1. /\ RevokesOnly(own) /\ ended' = ended \cup {table[t].family : t \in own}
        /\ issued' = issued /\ users' = users /\ task' = task
    BY <1>0, <1>14, RevokeRowsEffect DEF LogoutAll
  <2>2. \A t \in own : table[t].family # f
    BY <2>1
  <2> QED BY <2>1, <2>2, <1>c, FamilyStays DEF RevokesOnly
<1>15. ASSUME NEW u \in Users, DeleteUser(u) PROVE Complete(f)' \/ Spent(f)'
  <2>1. /\ users' = users \ {u} /\ issued' = issued /\ task' = task
        /\ \A t \in DOMAIN table : t \in DOMAIN table' <=> table[t].user # u
        /\ \A t \in DOMAIN table' : t \in DOMAIN table /\ table'[t] = table[t]
    BY <1>15 DEF DeleteUser, Restrict
  <2>2. CASE Spent(f) \/ \A t \in DOMAIN table : table[t].family = f => table[t].user # u
    BY <2>1, <2>2, <1>c, FamilyStays DEF Complete, Spent, Usable, Minting
  <2>3. CASE \E t \in DOMAIN table : table[t].family = f /\ table[t].user = u
    <3> PICK t \in DOMAIN table : table[t].family = f /\ table[t].user = u
      BY <2>3
    <3>1. \A s \in DOMAIN table : table[s].family = f => table[s].user = u
      BY <1>0 DEF OneUser
    <3>2. \A h \in Handlers : Minting(h) /\ task[h].family = f => task[h].user = u
      BY DEF OneUser, Bound, Minting
    <3>3. Spent(f)'
      BY <2>1, <3>1, <3>2 DEF Spent, Usable, Minting
    <3> QED BY <3>3
  <2> QED BY <2>2, <2>3
<1>16. CASE Tick \/ UNCHANGED vars
  BY <1>16, <1>c, FamilyStays DEF Tick, vars
<1> QED
  BY <1>1, <1>2, <1>3, <1>4, <1>5, <1>6, <1>7, <1>8, <1>9, <1>10, <1>11, <1>12,
     <1>13, <1>14, <1>15, <1>16 DEF Next, HandlerStep

\* While a family can be exchanged and was never revoked, whoever replays one
\* of its retired tokens is noticed: housekeeping and deletions of accounts
\* never take a retired row of such a family.
THEOREM TheftIsNoticed == Spec => []ReplayDetectable
<1> DEFINE LineageInv == OneUser /\ Descent /\ NoSessionOutlivesAccount /\ CompleteOrSpent
<1>1. Init => LineageInv
  BY DEF Init, OneUser, Bound, Descent, NoSessionOutlivesAccount, CompleteOrSpent, Complete
<1>2. Inv /\ LineageInv /\ [Next]_vars => LineageInv'
  BY OneUserStep, DescentStep, OwnedStep, CompleteStep DEF CompleteOrSpent
<1>3. Inv /\ LineageInv => ReplayDetectable
  <2> SUFFICES ASSUME Inv, LineageInv,
                      NEW t \in DOMAIN table, Usable(t),
                      table[t].family \notin ended \cup {Placeholder},
                      NEW s \in DOMAIN issued \ {t}, issued[s] = table[t].family
               PROVE  s \in DOMAIN table /\ table[s].rotated
    BY DEF ReplayDetectable
  <2>1. table[t].family \in Tokens
    BY DEF Inv, TypeOK, Row
  <2>2. Complete(table[t].family)
    BY <2>1 DEF CompleteOrSpent, Spent
  <2>3. s \in DOMAIN table /\ table[s].family = table[t].family
    BY <2>2 DEF Complete, Inv, Allocated
  <2>4. ~table[t].rotated /\ s # t
    BY DEF Usable
  <2> QED BY <2>1, <2>3, <2>4 DEF Inv, OneHeir
<1> QED BY Inductive, <1>1, <1>2, <1>3, PTL DEF Spec
=============================================================================
