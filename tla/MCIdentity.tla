----------------------------- MODULE MCIdentity ------------------------------
(* Who is who and may do what: a behaviour shows one of four, the accounts    *)
(* of the platform with the CMS memberships that mirror them (Accounts), the  *)
(* team of an organization (Team), the sessions of two accounts               *)
(* (RefreshTokens) or the signed tokens and cookies of one (AccessTokens),    *)
(* with the others at rest.                                                   *)
EXTENDS Accounts, Team, TLC

CONSTANTS r1, r2, o1,               \* Accounts: registrations and an operator
          h1, h2, u1, u2, u3,       \* Team: requests in flight and accounts
          NoUser, MaxTokens, MaxTime   \* RefreshTokens, with h1, h2, u1, u2

VARIABLES part,
          table, lastId, holders, now, session, issued, ended,
          clock, roles, config, boots, tokens, jar, logins, held, signedOut, moved

sessionVars == <<table, lastId, holders, now, session, issued, ended>>

accessVars == <<clock, roles, config, boots, tokens, jar, logins, held, signedOut, moved>>

ASSUME IdentityAssumption ==
    NoUser \notin {u1, u2} /\ MaxTokens \in Nat /\ MaxTime \in Nat

TwoRegistrars == {r1, r2}
OneOperator == {o1}
TwoRequests == {h1, h2}
ThreeUsers == {u1, u2, u3}

Sessions == INSTANCE RefreshTokens
    WITH Handlers <- {h1, h2}, Users <- {u1, u2}, TTL <- 1, users <- holders, task <- session

Access == INSTANCE AccessTokens
    WITH Requests <- {h1, h2}, Users <- {u3}, Roles <- {"admin", "user"},
         Budget <- 1, TTL <- 1, Leeway <- 1, MaxTime <- 4, MaxTokens <- 2, MaxBoots <- 2,
         requests <- logins

Symmetry == Permutations(Registrars) \cup Permutations({h1, h2}) \cup Permutations({u1, u2})

SessionsIdle ==
    /\ table = "unused" /\ lastId = "unused" /\ holders = "unused" /\ now = "unused"
    /\ session = "unused" /\ issued = "unused" /\ ended = "unused"

AccessIdle ==
    /\ clock = "unused" /\ roles = "unused" /\ config = "unused" /\ boots = "unused"
    /\ tokens = "unused" /\ jar = "unused" /\ logins = "unused" /\ held = "unused"
    /\ signedOut = "unused" /\ moved = "unused"

IdentityInit ==
    /\ Init
    /\ TeamInit
    /\ \/ part \in {"accounts", "team"} /\ SessionsIdle /\ AccessIdle
       \/ part = "sessions" /\ Sessions!Init /\ AccessIdle
       \/ part = "access" /\ Access!Init /\ SessionsIdle

IdentityNext ==
    /\ UNCHANGED part
    /\ \/ part = "accounts" /\ Next /\ UNCHANGED <<teamVars, sessionVars, accessVars>>
       \/ part = "team" /\ TeamNext /\ UNCHANGED <<vars, sessionVars, accessVars>>
       \/ part = "sessions" /\ Sessions!Next /\ UNCHANGED <<vars, teamVars, accessVars>>
       \/ part = "access" /\ Access!Next /\ UNCHANGED <<vars, teamVars, sessionVars>>

IdentitySpec == IdentityInit /\ [][IdentityNext]_<<part, vars, teamVars, sessionVars, accessVars>>

\* On well-typed states of all four: no session outlives its account, a signed
\* role outlives the account's by no more than a request, a token and the leeway,
\* and a browser that has been signed out stays so.
SessionsEnd ==
    /\ TypeOK /\ TeamTypeOK
    /\ part = "sessions" => Sessions!TypeOK /\ Sessions!NoSessionOutlivesAccount
    /\ part = "access" => Access!TypeOK /\ Access!PowerEnds /\ Access!LogoutHolds

\* RefreshTokens': a logout never touches a session of somebody else.
ForeignSessionsUntouched ==
    [][part = "sessions" => Sessions!ForeignRowsKept]_<<part, sessionVars>>
=============================================================================
