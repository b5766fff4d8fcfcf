----------------------------- MODULE AccessTokens -----------------------------
(* The stateless side of a session (src/src/auth.rs, src/src/session.rs,     *)
(* src/src/extractors.rs, src/src/routes/auth.rs): JWT access tokens that     *)
(* carry the role of an account, and the cookie that mirrors them in a        *)
(* browser.  Nothing is asked of the database when a token is presented, so   *)
(* what was true when it was signed is acted upon until it expires.           *)
(*                                                                            *)
(* The refresh tokens behind refresh and logout are RefreshTokens'; passwords *)
(* are right or wrong.  A request lasts for the budget of the timeout         *)
(* middleware at most.                                                        *)
EXTENDS Naturals, FiniteSets

CONSTANTS Users, Requests, Roles,
          Budget,    \* server.request_timeout_secs
          TTL,       \* auth.token_ttl_secs
          Leeway,    \* TOKEN_LEEWAY_SECS
          MaxTime,   \* bound: the clock
          MaxTokens, \* bound: tokens in use or on their way
          MaxBoots   \* bound: starts of the server

VARIABLES clock,
          roles,     \* the accounts' rows, "gone" after the deletion
          config,    \* of this process: the signing key and cookie_domain
          boots,
          tokens,    \* the signed tokens that clients still have a use for
          jar,       \* one browser's session cookies: host-only, under cookie_domain
          requests,  \* the stage, when it began and the claims it works on
          held,      \* history: when an account last had a role
          signedOut, \* history: the browser's last session answer was a clear
          moved      \* history: cookie_domain changed while the browser had a cookie

vars == <<clock, roles, config, boots, tokens, jar, requests, held, signedOut, moved>>

Scopes == {"host", "domain"}
Claims == [sub : Users, role : Roles, exp : 0..MaxTime + TTL, key : 0..MaxBoots]
NoClaims == [sub |-> "none", role |-> "none", exp |-> 0, key |-> 0]
Idle == [pc |-> "idle", began |-> 0, claims |-> NoClaims]

TypeOK ==
    /\ clock \in 0..MaxTime /\ boots \in 1..MaxBoots
    /\ roles \in [Users -> Roles \cup {"gone"}]
    /\ config \in [key : 0..MaxBoots, scope : Scopes]
    /\ tokens \subseteq Claims
    /\ jar \subseteq Scopes
    /\ \A r \in Requests :
          /\ requests[r].pc \in {"idle", "mint", "answer", "clear"}
          /\ requests[r].began \in 0..clock
          /\ requests[r].claims \in Claims \cup {NoClaims}
    /\ held \in [Users -> [Roles -> 0..MaxTime]]
    /\ signedOut \in BOOLEAN /\ moved \in BOOLEAN

\* A process signs with the configured secret (0), or with one of its own when
\* the configuration still has the published placeholder.
Configs(boot) == [key : {0, boot}, scope : Scopes]

Init ==
    /\ clock = 0 /\ boots = 1
    /\ roles \in [Users -> Roles]
    /\ config \in Configs(1)
    /\ tokens = {}
    /\ jar = {}
    /\ requests = [r \in Requests |-> Idle]
    /\ held = [u \in Users |-> [role \in Roles |-> 0]]
    /\ signedOut = FALSE /\ moved = FALSE

At(r, pc) == requests[r].pc = pc
Minting == {r \in Requests : At(r, "mint") \/ At(r, "answer")}
Become(r, pc, claims) ==
    requests' = [requests EXCEPT ![r].pc = pc, ![r].claims = claims]
Done(r) == requests' = [requests EXCEPT ![r] = Idle]
Quiet == UNCHANGED <<clock, config, boots>>

\* A token that is presented is checked against the key and the clock alone.
Accepted(t) == t.key = config.key /\ clock <= t.exp + Leeway

-----------------------------------------------------------------------------
(* Getting a token.                                                          *)

\* Slip: a refresh copies the role of a token it replaces.
RoleCarriedOver(u) ==
    LET old == {t \in tokens : t.sub = u}
    IN  IF old = {} THEN roles[u] ELSE (CHOOSE t \in old : TRUE).role

\* The role is the row's, for a refresh as for a login.
RoleRead(u) == roles[u]

\* login (find_by_username, then Argon2) or refresh (a refresh token, then
\* find_by_id): the account is read, and what follows works on that copy.
Begin(r) ==
    /\ At(r, "idle")
    /\ Cardinality(tokens) + Cardinality(Minting) < MaxTokens
    /\ \E u \in {v \in Users : roles[v] # "gone"} :
          requests' = [requests EXCEPT ![r] =
              [pc |-> "mint", began |-> clock,
               claims |-> [sub |-> u, role |-> RoleRead(u), exp |-> 0, key |-> 0]]]
    /\ Quiet /\ UNCHANGED <<roles, tokens, jar, signedOut, moved>>

\* issue_token, on the clock of now.
Mint(r) ==
    /\ At(r, "mint")
    /\ Become(r, "answer",
              [requests[r].claims EXCEPT !.exp = clock + TTL, !.key = config.key])
    /\ Quiet /\ UNCHANGED <<roles, tokens, jar, signedOut, moved>>

\* The answer, JSON or a redirect, hands the token out and sets the cookie (the
\* other clients, who have no jar, are the browser's other tokens).
Answer(r) ==
    /\ At(r, "answer")
    /\ tokens' = tokens \cup {requests[r].claims}
    /\ jar' = jar \cup {config.scope}
    /\ signedOut' = FALSE
    /\ Done(r)
    /\ Quiet /\ UNCHANGED <<roles, moved>>

\* A statement fails (the refresh token's row refers to the account), or the
\* client leaves.
Fail(r) ==
    /\ ~At(r, "idle")
    /\ Done(r)
    /\ Quiet /\ UNCHANGED <<roles, tokens, jar, signedOut, moved>>

-----------------------------------------------------------------------------
(* Ending a session.                                                         *)

\* logout by form or API, and logout_all; a form's login whose password is
\* wrong ends the browser's session too.
Logout(r) ==
    /\ At(r, "idle") \/ At(r, "mint")
    /\ requests' = [requests EXCEPT ![r] =
                       [pc |-> "clear", began |-> clock, claims |-> NoClaims]]
    /\ Quiet /\ UNCHANGED <<roles, tokens, jar, signedOut, moved>>

\* The browser takes the clear, which addresses the cookie as the set did; the
\* token itself stays good.
Clear(r) ==
    /\ At(r, "clear")
    /\ jar' = jar \ {config.scope}
    /\ signedOut' = TRUE
    /\ Done(r)
    /\ Quiet /\ UNCHANGED <<roles, tokens, moved>>

-----------------------------------------------------------------------------
(* What happens meanwhile.                                                   *)

\* The panel changes the role of an account, or deletes it.
Change(u) ==
    /\ roles[u] # "gone"
    /\ \E role \in Roles \cup {"gone"} : roles' = [roles EXCEPT ![u] = role]
    /\ Quiet /\ UNCHANGED <<tokens, jar, requests, signedOut, moved>>

\* Time passes; a request past its budget is dropped where it stands, and a
\* token that no process will accept again is of no use.
Tick ==
    /\ clock < MaxTime
    /\ clock' = clock + 1
    /\ requests' = [r \in Requests |->
                       IF clock < requests[r].began + Budget THEN requests[r] ELSE Idle]
    /\ tokens' = {t \in tokens : clock < t.exp + Leeway /\ t.key \in {0, boots}}
    /\ UNCHANGED <<roles, config, boots, jar, signedOut, moved>>

\* A restart, maybe on another configuration; requests in flight are lost.
Restart ==
    /\ boots < MaxBoots
    /\ boots' = boots + 1
    /\ config' \in Configs(boots + 1)
    /\ moved' = (moved \/ (config'.scope # config.scope /\ jar # {}))
    /\ requests' = [r \in Requests |-> Idle]
    /\ UNCHANGED <<clock, roles, tokens, jar, signedOut>>

-----------------------------------------------------------------------------

\* The history: while an account has a role, this instant counts.
Remember ==
    held' = [u \in Users |->
                [role \in Roles |-> IF role \in {roles[u], roles'[u]} THEN clock ELSE held[u][role]]]

Next ==
    /\ \/ \E r \in Requests :
             Begin(r) \/ Mint(r) \/ Answer(r) \/ Fail(r) \/ Logout(r) \/ Clear(r)
       \/ \E u \in Users : Change(u)
       \/ Tick \/ Restart
    /\ Remember

Spec == Init /\ [][Next]_vars

-----------------------------------------------------------------------------
(* Properties.                                                               *)

\* "access tokens die with their lifetime": however logins, refreshes, role
\* changes and deletions cross, the server acts on a role no longer after the
\* account let it go than a request, a token and the leeway last.
PowerEnds ==
    \A t \in tokens :
        Accepted(t) => \/ roles[t.sub] = t.role
                       \/ clock <= held[t.sub][t.role] + Budget + TTL + Leeway

\* A browser whose last session answer was a clear has no session, also after
\* a login that the logout overtook; unless cookie_domain changed meanwhile,
\* when a clear no longer addresses the older cookie.
LogoutHolds == signedOut /\ ~moved => jar = {}
=============================================================================
