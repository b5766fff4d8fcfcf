-------------------------- MODULE AccessTokensProofs ---------------------------
(* How long a signed role lasts, and that a browser that was signed out stays *)
(* so, for any number of accounts, requests, tokens and restarts and for all  *)
(* durations.                                                                 *)
(*                                                                            *)
(* PowerEnds speaks of tokens that are presented.  What makes it inductive is *)
(* the way there: a request is never older than its budget (Timely), it read  *)
(* its role when the account had it (Read), and what it signs therefore       *)
(* expires soon enough after that (Signed).  LogoutHolds rests on the browser *)
(* having no cookie but the one a clear addresses (OneScope).  That types and *)
(* bounds hold needs the same invariant: only complete claims are handed out. *)
EXTENDS AccessTokens, TLAPS

\* What the constants are: durations.
Durations == Budget \in Nat /\ TTL \in Nat /\ Leeway \in Nat /\ MaxTime \in Nat

\* A token with these claims expires no later than this.
Bound(c) == held[c.sub][c.role] + Budget + TTL

Shape ==
    /\ clock \in Nat
    /\ roles \in [Users -> Roles \cup {"gone"}]
    /\ held \in [Users -> [Roles -> Nat]]
    /\ \A u \in Users, role \in Roles : held[u][role] <= clock
    /\ requests = [r \in Requests |-> requests[r]]
    /\ boots \in Nat /\ config.key \in Nat

IsClaims(c) == c \in [sub : Users, role : Roles, exp : Nat, key : Nat]

IsRequest(q) ==
    /\ q \in [pc : {"idle", "mint", "answer", "clear"}, began : Nat,
              claims : [sub : Users, role : Roles, exp : Nat, key : Nat] \cup {NoClaims}]
    /\ q.pc \in {"mint", "answer"} => IsClaims(q.claims)

Timely(q) == q.pc # "idle" => clock <= q.began + Budget

Read(q) == q.pc = "mint" => q.began <= held[q.claims.sub][q.claims.role]

Signed(c) == IsClaims(c) /\ c.exp <= Bound(c)

RequestInv(q) ==
    IsRequest(q) /\ Timely(q) /\ Read(q) /\ (q.pc = "answer" => Signed(q.claims))

PowerInv ==
    /\ Shape
    /\ \A t \in tokens : Signed(t)
    /\ \A r \in Requests : RequestInv(requests[r])

LEMMA IdleInv == ASSUME Durations PROVE RequestInv(Idle)
BY DEF RequestInv, IsRequest, Timely, Read, Idle

LEMMA PowerInit == ASSUME Durations, Init PROVE PowerInv
<1>1. Shape
  BY DEF Init, Shape, Configs
<1>2. \A r \in Requests : RequestInv(requests[r])
  BY IdleInv DEF Init
<1> QED BY <1>1, <1>2 DEF PowerInv, Init

\* The history only moves on, and never past the clock.
LEMMA HeldGrows ==
    ASSUME Shape, Remember
    PROVE  /\ held' \in [Users -> [Roles -> Nat]]
           /\ \A u \in Users, role \in Roles :
                 /\ held[u][role] <= held'[u][role] /\ held'[u][role] <= clock
                 /\ roles[u] = role => held'[u][role] = clock
<1>1. \A u \in Users, role \in Roles :
          held'[u][role] = IF role \in {roles[u], roles'[u]} THEN clock ELSE held[u][role]
  BY DEF Remember, Shape
<1>2. held' \in [Users -> [Roles -> Nat]]
  BY DEF Remember, Shape
<1> QED BY <1>1, <1>2 DEF Shape

\* What was signed in time stays so.
LEMMA SignedStays ==
    ASSUME Durations, Shape, Remember, NEW c, Signed(c)
    PROVE  Signed(c)'
BY HeldGrows DEF Signed, IsClaims, Bound, Durations, Shape

\* A request that nothing happens to, while the clock stands.
LEMMA RequestStays ==
    ASSUME Durations, Shape, Remember, clock' = clock, NEW q, RequestInv(q)
    PROVE  RequestInv(q)'
<1>1. IsRequest(q)' /\ Timely(q)'
  BY DEF RequestInv, IsRequest, Timely, IsClaims
<1>2. Read(q)'
  BY HeldGrows DEF RequestInv, IsRequest, IsClaims, Read, Shape
<1>3. q.pc = "answer" => Signed(q.claims)'
  BY SignedStays DEF RequestInv
<1> QED BY <1>1, <1>2, <1>3 DEF RequestInv

\* An action of one request, by what it leaves of it.
LEMMA OneMoves ==
    ASSUME Durations, PowerInv, Remember, NEW r \in Requests, NEW q,
           UNCHANGED <<clock, roles, config, boots>>, requests' = [requests EXCEPT ![r] = q],
           RequestInv(q)', \A t \in tokens' : Signed(t)'
    PROVE  PowerInv'
<1>1. Shape'
  BY HeldGrows DEF PowerInv, Shape
<1>2. ASSUME NEW o \in Requests PROVE RequestInv(requests[o])'
  <2> PICK old : old = requests[o]
    OBVIOUS
  <2>1. CASE o = r
    <3>1. requests'[o] = q
      BY <2>1 DEF PowerInv, Shape
    <3> QED BY <3>1 DEF RequestInv, IsRequest, IsClaims, Timely, Read, Signed, Bound
  <2>2. CASE o # r
    <3>1. requests'[o] = old /\ RequestInv(old)
      BY <2>2 DEF PowerInv, Shape
    <3>2. RequestInv(old)'
      BY <3>1, RequestStays DEF PowerInv
    <3> QED BY <3>1, <3>2 DEF RequestInv, IsRequest, IsClaims, Timely, Read, Signed, Bound
  <2> QED BY <2>1, <2>2
<1> QED BY <1>1, <1>2 DEF PowerInv

LEMMA BeginKeeps ==
    ASSUME Durations, PowerInv, Remember, NEW r \in Requests, Begin(r)
    PROVE  PowerInv'
<1>1. PICK u \in Users :
        /\ roles[u] # "gone"
        /\ requests' = [requests EXCEPT ![r] =
              [pc |-> "mint", began |-> clock,
               claims |-> [sub |-> u, role |-> roles[u], exp |-> 0, key |-> 0]]]
  BY DEF Begin, RoleRead
<1>2. PICK q : q = [pc |-> "mint", began |-> clock,
                    claims |-> [sub |-> u, role |-> roles[u], exp |-> 0, key |-> 0]]
  OBVIOUS
<1>3. UNCHANGED <<clock, roles, tokens, config, boots>>
  BY DEF Begin, Quiet
<1>4. roles[u] \in Roles /\ clock \in Nat
  BY <1>1 DEF PowerInv, Shape
<1>5. RequestInv(q)'
  <2>1. IsRequest(q)' /\ Timely(q)'
    BY <1>2, <1>3, <1>4 DEF IsRequest, IsClaims, Timely, Durations
  <2>2. Read(q)'
    BY <1>2, <1>4, HeldGrows DEF Read, PowerInv
  <2> QED BY <2>1, <2>2, <1>2 DEF RequestInv
<1>6. \A t \in tokens' : Signed(t)'
  BY <1>3, SignedStays DEF PowerInv
<1> QED BY <1>1, <1>2, <1>3, <1>5, <1>6, OneMoves

LEMMA MintKeeps ==
    ASSUME Durations, PowerInv, Remember, NEW r \in Requests, Mint(r)
    PROVE  PowerInv'
<1> PICK old : old = requests[r]
  OBVIOUS
<1> PICK claims : claims = [old.claims EXCEPT !.exp = clock + TTL, !.key = config.key]
  OBVIOUS
<1> PICK q : q = [old EXCEPT !.pc = "answer", !.claims = claims]
  OBVIOUS
<1>1. RequestInv(old) /\ old.pc = "mint" /\ UNCHANGED <<clock, roles, tokens, config, boots>>
  BY DEF PowerInv, Mint, At, Quiet
<1>2. clock \in Nat /\ config.key \in Nat /\ IsClaims(old.claims)
  BY <1>1 DEF PowerInv, Shape, RequestInv, IsRequest
<1>3. /\ claims.sub = old.claims.sub /\ claims.role = old.claims.role
      /\ claims.exp = clock + TTL /\ IsClaims(claims)
  <2> PICK c, e, k : c = old.claims /\ e = clock + TTL /\ k = config.key
    OBVIOUS
  <2>1. IsClaims(c) /\ e \in Nat /\ k \in Nat
    BY <1>2 DEF Durations
  <2>2. claims = [c EXCEPT !.exp = e, !.key = k]
    OBVIOUS
  <2>3. IsClaims(claims) /\ claims.sub = c.sub /\ claims.role = c.role /\ claims.exp = e
    BY <2>1, <2>2 DEF IsClaims
  <2> QED BY <2>3
<1>4. q.pc = "answer" /\ q.began = old.began /\ q.claims = claims /\ IsRequest(q)
  BY <1>1, <1>3 DEF RequestInv, IsRequest, IsClaims
<1>5. requests' = [requests EXCEPT ![r] = q]
  BY <1>1 DEF Mint, Become
<1>6. Signed(claims)'
  <2>1. clock <= old.began + Budget /\ old.began <= held[claims.sub][claims.role]
    BY <1>1, <1>3 DEF RequestInv, Timely, Read
  <2>2. held[claims.sub][claims.role] \in Nat /\ old.began \in Nat
    BY <1>1, <1>3 DEF PowerInv, Shape, IsClaims, RequestInv, IsRequest
  <2>3. Signed(claims)
    BY <2>1, <2>2, <1>2, <1>3 DEF Signed, Bound, Durations
  <2> QED BY <2>3, SignedStays DEF PowerInv
<1>7. RequestInv(q)'
  BY <1>1, <1>4, <1>6 DEF RequestInv, IsRequest, Timely, Read, IsClaims
<1>8. \A t \in tokens' : Signed(t)'
  BY <1>1, SignedStays DEF PowerInv
<1> QED BY <1>1, <1>5, <1>7, <1>8, OneMoves

\* Fail, Clear and Answer leave the request at rest; Answer hands out a token
\* that was signed in time.
LEMMA RestKeeps ==
    ASSUME Durations, PowerInv, Remember, NEW r \in Requests,
           Answer(r) \/ Fail(r) \/ Clear(r)
    PROVE  PowerInv'
<1>1. UNCHANGED <<clock, roles, config, boots>> /\ requests' = [requests EXCEPT ![r] = Idle]
  BY DEF Answer, Fail, Clear, Quiet, Done
<1>2. RequestInv(Idle)'
  BY DEF RequestInv, IsRequest, Timely, Read, Idle
<1>3. \A t \in tokens' : Signed(t)'
  <2>1. \A t \in tokens : Signed(t)'
    BY SignedStays DEF PowerInv
  <2>2. CASE Answer(r)
    <3> PICK claims : claims = requests[r].claims
      OBVIOUS
    <3>1. Signed(claims)
      BY <2>2 DEF Answer, At, PowerInv, RequestInv
    <3>2. Signed(claims)'
      BY <3>1, SignedStays DEF PowerInv
    <3>3. tokens' = tokens \cup {claims}
      BY <2>2 DEF Answer
    <3> QED BY <2>1, <3>2, <3>3
  <2>3. CASE Fail(r) \/ Clear(r)
    BY <2>1, <2>3 DEF Fail, Clear
  <2> QED BY <2>2, <2>3
<1> QED BY <1>1, <1>2, <1>3, OneMoves

LEMMA LogoutKeeps ==
    ASSUME Durations, PowerInv, Remember, NEW r \in Requests, Logout(r)
    PROVE  PowerInv'
<1> PICK q : q = [pc |-> "clear", began |-> clock, claims |-> NoClaims]
  OBVIOUS
<1>1. UNCHANGED <<clock, roles, tokens, config, boots>> /\ requests' = [requests EXCEPT ![r] = q]
  BY DEF Logout, Quiet
<1>2. RequestInv(q)'
  BY <1>1 DEF RequestInv, IsRequest, Timely, Read, PowerInv, Shape, Durations
<1>3. \A t \in tokens' : Signed(t)'
  BY <1>1, SignedStays DEF PowerInv
<1> QED BY <1>1, <1>2, <1>3, OneMoves

\* A tick drops the requests that are out of time and forgets tokens.
LEMMA TickKeeps ==
    ASSUME Durations, PowerInv, Remember, Tick
    PROVE  PowerInv'
<1>1. clock' = clock + 1 /\ clock' \in Nat /\ roles' = roles /\ tokens' \subseteq tokens
  BY DEF Tick, PowerInv, Shape
<1>2. Shape'
  BY <1>1, HeldGrows DEF PowerInv, Shape, Tick
<1>3. \A t \in tokens' : Signed(t)'
  BY <1>1, SignedStays DEF PowerInv
<1>4. ASSUME NEW o \in Requests PROVE RequestInv(requests[o])'
  <2> PICK old : old = requests[o]
    OBVIOUS
  <2>1. RequestInv(old) /\ old.began \in Nat /\ clock \in Nat
    BY DEF PowerInv, Shape, RequestInv, IsRequest
  <2>2. CASE clock < old.began + Budget
    <3>1. requests'[o] = old
      BY <2>2 DEF Tick
    <3>2. IsRequest(old) /\ clock' <= old.began + Budget
      BY <2>1, <2>2, <1>1 DEF RequestInv, Durations
    <3>3. old.pc = "mint" => old.began <= held'[old.claims.sub][old.claims.role]
      BY <2>1, HeldGrows DEF PowerInv, Shape, RequestInv, IsRequest, IsClaims, Read
    <3>4. old.pc = "answer" => Signed(old.claims)'
      BY <2>1, SignedStays DEF PowerInv, RequestInv
    <3> QED BY <3>1, <3>2, <3>3, <3>4
            DEF RequestInv, IsRequest, IsClaims, Timely, Read, Signed, Bound
  <2>3. CASE ~(clock < old.began + Budget)
    <3>1. requests'[o] = Idle
      BY <2>3 DEF Tick
    <3> QED BY <3>1 DEF RequestInv, IsRequest, Timely, Read, Idle
  <2> QED BY <2>2, <2>3
<1> QED BY <1>2, <1>3, <1>4 DEF PowerInv

\* A change of role and a restart sign nothing.
LEMMA QuietKeeps ==
    ASSUME Durations, PowerInv, Remember, Restart \/ \E u \in Users : Change(u)
    PROVE  PowerInv'
<1>1. clock' = clock /\ tokens' = tokens
  BY DEF Restart, Change, Quiet
<1>2. roles' \in [Users -> Roles \cup {"gone"}]
  BY DEF Restart, Change, PowerInv, Shape
<1>3. requests' = [r \in Requests |-> Idle] \/ requests' = requests
  BY DEF Restart, Change
<1>4. Shape'
  <2>1. boots' \in Nat /\ config'.key \in Nat
    BY DEF Restart, Change, Quiet, Configs, PowerInv, Shape
  <2> QED BY <2>1, <1>1, <1>2, <1>3, HeldGrows DEF PowerInv, Shape
<1>5. \A t \in tokens' : Signed(t)'
  BY <1>1, SignedStays DEF PowerInv
<1>6. ASSUME NEW o \in Requests PROVE RequestInv(requests[o])'
  <2> PICK old : old = requests[o]
    OBVIOUS
  <2>1. RequestInv(old)'
    BY <1>1, RequestStays DEF PowerInv
  <2>2. requests'[o] = old \/ requests'[o] = Idle
    BY <1>3
  <2> QED BY <2>1, <2>2 DEF RequestInv, IsRequest, IsClaims, Timely, Read, Signed, Bound, Idle
<1> QED BY <1>4, <1>5, <1>6 DEF PowerInv

LEMMA PowerStep == ASSUME Durations, PowerInv, [Next]_vars PROVE PowerInv'
<1>1. CASE Next
  <2>1. Remember
    BY <1>1 DEF Next
  <2>2. \/ \E r \in Requests :
             Begin(r) \/ Mint(r) \/ Answer(r) \/ Fail(r) \/ Logout(r) \/ Clear(r)
        \/ \E u \in Users : Change(u)
        \/ Tick \/ Restart
    BY <1>1 DEF Next
  <2> QED BY <2>1, <2>2, BeginKeeps, MintKeeps, RestKeeps, LogoutKeeps, TickKeeps, QuietKeeps
<1>2. CASE UNCHANGED vars
  BY <1>2 DEF vars, PowerInv, Shape, RequestInv, IsRequest, IsClaims, Timely, Read, Signed, Bound
<1> QED BY <1>1, <1>2

LEMMA PowerHolds == ASSUME Durations, PowerInv PROVE PowerEnds
<1> SUFFICES ASSUME NEW t \in tokens, Accepted(t)
             PROVE clock <= held[t.sub][t.role] + Budget + TTL + Leeway
  BY DEF PowerEnds
<1>1. Signed(t) /\ clock \in Nat /\ held[t.sub][t.role] \in Nat
  BY DEF PowerInv, Shape, Signed, IsClaims
<1> QED BY <1>1 DEF Accepted, Signed, IsClaims, Bound, Durations

\* However logins, refreshes, role changes, deletions and restarts cross, the
\* server acts on a role for a request, a token and the leeway at most after
\* the account let it go (AuthUser and AdminUser trust the claims).
THEOREM PowerIsBounded == ASSUME Durations PROVE Spec => []PowerEnds
<1>1. Init => PowerInv
  BY PowerInit
<1>2. PowerInv /\ [Next]_vars => PowerInv'
  BY PowerStep
<1>3. PowerInv => PowerEnds
  BY PowerHolds
<1> QED BY <1>1, <1>2, <1>3, PTL DEF Spec

-----------------------------------------------------------------------------

\* While cookie_domain stands, the browser has no cookie but under it.
OneScope == ~moved => jar \subseteq {config.scope}

JarInv == OneScope /\ LogoutHolds

LEMMA JarInit == Init => JarInv
BY DEF Init, JarInv, OneScope, LogoutHolds

LEMMA JarStep == ASSUME JarInv, [Next]_vars PROVE JarInv'
<1> USE DEF JarInv
<1>1. ASSUME NEW r \in Requests, Answer(r) PROVE JarInv'
  BY <1>1 DEF Answer, Quiet, OneScope, LogoutHolds
<1>2. ASSUME NEW r \in Requests, Clear(r) PROVE JarInv'
  BY <1>2 DEF Clear, Quiet, OneScope, LogoutHolds
<1>3. CASE Restart
  BY <1>3 DEF Restart, OneScope, LogoutHolds
<1>4. ASSUME UNCHANGED <<config, jar, signedOut, moved>> PROVE JarInv'
  BY <1>4 DEF OneScope, LogoutHolds
<1>5. ASSUME NEW r \in Requests, Begin(r) \/ Mint(r) \/ Fail(r) \/ Logout(r)
      PROVE JarInv'
  BY <1>5, <1>4 DEF Begin, Mint, Fail, Logout, Quiet
<1>6. CASE Tick \/ \E u \in Users : Change(u)
  BY <1>6, <1>4 DEF Tick, Change, Quiet
<1>7. CASE UNCHANGED vars
  BY <1>7, <1>4 DEF vars
<1> QED BY <1>1, <1>2, <1>3, <1>5, <1>6, <1>7 DEF Next

\* A browser that was signed out stays signed out until it signs in again
\* (clear_cookie_value carries the domain of set_cookie_value).
THEOREM SignedOut == Spec => []LogoutHolds
<1>1. JarInv => LogoutHolds
  BY DEF JarInv
<1> QED BY JarInit, JarStep, <1>1, PTL DEF Spec

-----------------------------------------------------------------------------
(* Types, with the bounds of clock, boots and claims.                        *)

\* What the constants are: durations, and at least one start.
Bounded == Durations /\ MaxBoots \in Nat \ {0}

TypedRequest(q) ==
    /\ q.pc \in {"idle", "mint", "answer", "clear"}
    /\ q.began \in 0..clock
    /\ q.claims \in Claims \cup {NoClaims}

LEMMA TypedUnfolded ==
    TypeOK <=> /\ clock \in 0..MaxTime /\ boots \in 1..MaxBoots
               /\ roles \in [Users -> Roles \cup {"gone"}]
               /\ config \in [key : 0..MaxBoots, scope : Scopes]
               /\ tokens \subseteq Claims
               /\ jar \subseteq Scopes
               /\ \A r \in Requests : TypedRequest(requests[r])
               /\ held \in [Users -> [Roles -> 0..MaxTime]]
               /\ signedOut \in BOOLEAN /\ moved \in BOOLEAN
BY DEF TypeOK, TypedRequest

\* The claims of a request that mints or answers are complete, and a token
\* that is signed now expires within the bounds.
LEMMA ClaimsTyped ==
    ASSUME Bounded, PowerInv, TypeOK, NEW r \in Requests, At(r, "mint") \/ At(r, "answer")
    PROVE  /\ requests[r].claims \in Claims
           /\ [requests[r].claims EXCEPT !.exp = clock + TTL, !.key = config.key] \in Claims
<1> PICK c, e, k : c = requests[r].claims /\ e = clock + TTL /\ k = config.key
  OBVIOUS
<1>1. IsClaims(c) /\ (c \in Claims \/ c = NoClaims)
  BY DEF PowerInv, RequestInv, IsRequest, At, TypeOK
<1>2. e \in 0..MaxTime + TTL /\ k \in 0..MaxBoots
  BY DEF TypeOK, Bounded, Durations
<1>3. 0 \in 0..MaxTime + TTL /\ 0 \in 0..MaxBoots
  BY DEF Bounded, Durations
<1>4. c \in Claims
  BY <1>1, <1>3 DEF IsClaims, NoClaims, Claims
<1>5. [c EXCEPT !.exp = e, !.key = k] \in Claims
  BY <1>2, <1>4 DEF Claims
<1> QED BY <1>4, <1>5

LEMMA HeldTyped ==
    ASSUME Shape, TypeOK, Remember
    PROVE  held' \in [Users -> [Roles -> 0..MaxTime]]
BY DEF Shape, TypeOK, Remember

\* An action of one request, by what becomes of it.
LEMMA TypeMoves ==
    ASSUME Shape, TypeOK, Remember, NEW r \in Requests, NEW q, TypedRequest(q),
           requests' = [requests EXCEPT ![r] = q],
           UNCHANGED <<clock, config, boots, roles, moved>>,
           tokens' \subseteq Claims, jar' \subseteq Scopes, signedOut' \in BOOLEAN
    PROVE  TypeOK'
<1>1. \A o \in Requests : requests'[o] = q \/ requests'[o] = requests[o]
  BY DEF Shape
<1>2. \A o \in Requests : TypedRequest(requests[o])'
  BY <1>1 DEF TypeOK, TypedRequest
<1>3. held' \in [Users -> [Roles -> 0..MaxTime]]
  BY HeldTyped
<1> QED BY <1>2, <1>3 DEF TypeOK, TypedRequest

LEMMA TypeStep ==
    ASSUME Bounded, PowerInv, TypeOK, [Next]_vars
    PROVE  TypeOK'
<1> USE DEF PowerInv
<1>0. /\ Durations
      /\ clock \in 0..MaxTime /\ clock \in Nat /\ MaxTime \in Nat
      /\ roles \in [Users -> Roles \cup {"gone"}]
      /\ tokens \subseteq Claims /\ jar \subseteq Scopes /\ config.scope \in Scopes
      /\ signedOut \in BOOLEAN /\ moved \in BOOLEAN
  BY DEF TypeOK, Bounded, Durations, Shape
<1>1. TypedRequest(Idle)
  BY <1>0 DEF TypedRequest, Idle
<1>2. ASSUME NEW r \in Requests, Remember, Begin(r) PROVE TypeOK'
  <2>1. PICK u \in Users :
          /\ roles[u] # "gone"
          /\ requests' = [requests EXCEPT ![r] =
                [pc |-> "mint", began |-> clock,
                 claims |-> [sub |-> u, role |-> roles[u], exp |-> 0, key |-> 0]]]
    BY <1>2 DEF Begin, RoleRead
  <2> PICK c : c = [sub |-> u, role |-> roles[u], exp |-> 0, key |-> 0]
    OBVIOUS
  <2>2. c \in Claims
    <3>1. 0 \in 0..MaxBoots /\ 0 \in 0..MaxTime + TTL
      BY DEF Bounded, Durations
    <3> QED BY <2>1, <3>1, <1>0 DEF Claims
  <2>3. TypedRequest([pc |-> "mint", began |-> clock, claims |-> c])
    BY <2>2, <1>0 DEF TypedRequest
  <2> QED BY <2>1, <2>3, <1>0, <1>2, TypeMoves DEF Begin, Quiet
<1>3. ASSUME NEW r \in Requests, Remember, Mint(r) PROVE TypeOK'
  <2> PICK c : c = [requests[r].claims EXCEPT !.exp = clock + TTL, !.key = config.key]
    OBVIOUS
  <2> PICK q : q = [requests[r] EXCEPT !.pc = "answer", !.claims = c]
    OBVIOUS
  <2>1. c \in Claims
    BY <1>3, ClaimsTyped DEF Mint
  <2>2. TypedRequest(q)
    <3> PICK old : old = requests[r]
      OBVIOUS
    <3>1. RequestInv(old) /\ old.began \in 0..clock
      BY DEF TypeOK
    <3>2. q.pc = "answer" /\ q.began = old.began /\ q.claims = c
      BY <3>1 DEF RequestInv, IsRequest
    <3> QED BY <2>1, <3>1, <3>2 DEF TypedRequest
  <2>3. requests' = [requests EXCEPT ![r] = q]
    BY <1>3 DEF Mint, Become, Shape
  <2> QED BY <2>2, <2>3, <1>0, <1>3, TypeMoves DEF Mint, Quiet
<1>4. ASSUME NEW r \in Requests, Remember, Answer(r) \/ Fail(r) \/ Clear(r) PROVE TypeOK'
  <2>1. tokens' \subseteq Claims
    <3>1. tokens' \subseteq tokens \cup {requests[r].claims}
      BY <1>4 DEF Answer, Fail, Clear
    <3>2. Answer(r) => requests[r].claims \in Claims
      BY ClaimsTyped DEF Answer
    <3>3. Fail(r) \/ Clear(r) => tokens' = tokens
      BY DEF Fail, Clear
    <3> QED BY <1>0, <1>4, <3>1, <3>2, <3>3
  <2>2. jar' \subseteq Scopes /\ signedOut' \in BOOLEAN
    BY <1>0, <1>4 DEF Answer, Fail, Clear
  <2> QED BY <2>1, <2>2, <1>1, <1>4, TypeMoves DEF Answer, Fail, Clear, Done, Quiet
<1>5. ASSUME NEW r \in Requests, Remember, Logout(r) PROVE TypeOK'
  <2>1. TypedRequest([pc |-> "clear", began |-> clock, claims |-> NoClaims])
    BY <1>0 DEF TypedRequest
  <2> QED BY <2>1, <1>0, <1>5, TypeMoves DEF Logout, Quiet
<1>6. ASSUME NEW u \in Users, Remember, Change(u) PROVE TypeOK'
  BY <1>6, HeldTyped DEF Change, Quiet, TypeOK
<1>7. CASE Remember /\ Tick
  <2>1. clock' = clock + 1 /\ clock' \in 0..MaxTime
    BY <1>0, <1>7 DEF Tick
  <2>2. \A o \in Requests : requests'[o] = requests[o] \/ requests'[o] = Idle
    BY <1>7 DEF Tick
  <2>3. \A o \in Requests : TypedRequest(requests[o])'
    BY <2>1, <2>2, <1>0 DEF TypeOK, TypedRequest, Idle
  <2> QED BY <2>1, <2>3, <1>7, HeldTyped DEF Tick, TypeOK, TypedRequest
<1>8. CASE Remember /\ Restart
  <2>1. boots' \in 1..MaxBoots /\ config' \in [key : 0..MaxBoots, scope : Scopes]
    BY <1>8 DEF Restart, Configs, TypeOK, Bounded
  <2>2. \A o \in Requests : TypedRequest(requests[o])'
    BY <1>0, <1>8 DEF Restart, TypedRequest, Idle
  <2>3. moved' \in BOOLEAN
    BY <1>8 DEF Restart
  <2> QED BY <2>1, <2>2, <2>3, <1>8, HeldTyped DEF Restart, TypeOK, TypedRequest
<1>9. CASE UNCHANGED vars
  BY <1>9 DEF vars, TypeOK
<1> QED BY <1>2, <1>3, <1>4, <1>5, <1>6, <1>7, <1>8, <1>9 DEF Next

LEMMA TypeInit == ASSUME Bounded, Init PROVE TypeOK
<1>1. /\ clock \in 0..MaxTime /\ boots \in 1..MaxBoots
      /\ config \in [key : 0..MaxBoots, scope : Scopes]
  BY DEF Init, Configs, Bounded, Durations
<1>2. \A r \in Requests : TypedRequest(requests[r])
  BY <1>1 DEF Init, TypedRequest, Idle
<1>3. held \in [Users -> [Roles -> 0..MaxTime]]
  BY <1>1 DEF Init
<1> QED BY <1>1, <1>2, <1>3, TypedUnfolded DEF Init

\* Clock, boots, claims and what a request holds stay within their bounds.
THEOREM TypeCorrect == ASSUME Bounded PROVE Spec => []TypeOK
<1>1. Init => PowerInv /\ TypeOK
  BY PowerInit, TypeInit DEF Bounded
<1>2. PowerInv /\ TypeOK /\ [Next]_vars => PowerInv' /\ TypeOK'
  BY PowerStep, TypeStep DEF Bounded
<1> QED BY <1>1, <1>2, PTL DEF Spec
================================================================================
