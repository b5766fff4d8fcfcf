--------------------------------- MODULE Team ----------------------------------
(***************************************************************************)
(* The members of one tenant organization.  The tenant edits them on its     *)
(* Team page (src/src/routes/team.rs), the platform on the Tenants page      *)
(* (src/src/routes/tenants.rs) and by deleting accounts                      *)
(* (src/src/routes/cms.rs); "an organization never loses its last            *)
(* administrator while it exists" is their common law.                       *)
(*                                                                          *)
(* A handler is admitted, checks and writes in steps of its own.  The law is *)
(* a count followed by a write, so it is stated for checks that nothing      *)
(* overlapped.                                                              *)
(***************************************************************************)
EXTENDS Naturals, FiniteSets

CONSTANTS Requests, \* requests in flight that edit members or delete accounts
          Users     \* the accounts that ever exist

VARIABLES
    accounts,    \* the rows of users
    members,     \* the organization's rows: user -> role, "none" without one
    exists,      \* the organization's row is there
    requests,    \* the handlers in flight
    raced        \* a write landed between another handler's check and its write

teamVars == <<accounts, members, exists, requests, raced>>

Ops == {"grant", "remove", "account"}
Request == [pc   : {"idle", "find", "check", "write"},
            op   : Ops,
            user : Users \cup {"none"},
            role : {"admin", "editor"}]

NoRequest == [pc |-> "idle", op |-> "grant", user |-> "none", role |-> "editor"]

TeamTypeOK ==
    /\ accounts \subseteq Users
    /\ members \in [Users -> {"admin", "editor", "none"}]
    /\ exists \in BOOLEAN
    /\ requests \in [Requests -> Request]
    /\ raced \in BOOLEAN

\* A tenant just created: an organization without members.
TeamInit ==
    /\ accounts = Users
    /\ members = [u \in Users |-> "none"]
    /\ exists = TRUE
    /\ requests = [h \in Requests |-> NoRequest]
    /\ raced = FALSE

-----------------------------------------------------------------------------

\* OrganizationRepository::members joins the accounts: a row whose account is
\* gone is not listed.
Listed == {u \in accounts : members[u] # "none"}
ListedAdmins == {u \in Listed : members[u] = "admin"}

\* The rows themselves, which solo_administrated_orgs counts.
AdminRows == {u \in Users : members[u] = "admin"}

\* solo_administrator: the only administrator among the listed members.
SoloAdministrator(user) == user \in ListedAdmins /\ Cardinality(ListedAdmins) = 1

\* solo_administrated_orgs, asked when an account is deleted.
SoloAdministrated(user) == exists /\ members[user] = "admin" /\ Cardinality(AdminRows) = 1

InStep(h, pc) == requests[h].pc = pc

Enter(h, op, pc, user, role) ==
    requests' = [requests EXCEPT ![h] = [pc |-> pc, op |-> op, user |-> user, role |-> role]]

Leave(h) == requests' = [requests EXCEPT ![h] = NoRequest]

\* Another handler that has checked and not written yet.
Overlapped(h) == \E g \in Requests \ {h} : requests[g].pc = "write"

-----------------------------------------------------------------------------
(* The requests.  The platform's administrators may always edit; the Team    *)
(* page admits whoever is an administrator of the organization then.         *)

\* add_tenant_member: no tenant, no page; the CMS organization is refused.
AddTenantMember(h) ==
    /\ InStep(h, "idle") /\ exists
    /\ \E user \in Users, role \in {"admin", "editor"} : Enter(h, "grant", "find", user, role)
    /\ UNCHANGED <<accounts, members, exists, raced>>

\* remove_tenant_member: the id comes from the page; nobody looks it up.
RemoveTenantMember(h) ==
    /\ InStep(h, "idle") /\ exists
    /\ \E user \in Users : Enter(h, "remove", "check", user, "editor")
    /\ UNCHANGED <<accounts, members, exists, raced>>

\* CmsAdmin on the tenant's host: the membership is read, not the token's role.
TeamAdmins == {u \in accounts : members[u] = "admin"}

AddMember(h) == exists /\ TeamAdmins # {} /\ AddTenantMember(h)
RemoveMember(h) == exists /\ TeamAdmins # {} /\ RemoveTenantMember(h)

\* delete_user of the platform's panel (its own guards are in Accounts).
DeleteUser(h) ==
    /\ InStep(h, "idle")
    /\ \E user \in accounts : Enter(h, "account", "check", user, "editor")
    /\ UNCHANGED <<accounts, members, exists, raced>>

\* Slip: the demotion through a grant is not checked.
FindUserUnchecked(h) ==
    /\ InStep(h, "find")
    /\ requests' = [requests EXCEPT ![h] = IF @.user \notin accounts THEN NoRequest
                                           ELSE [@ EXCEPT !.pc = "write"]]
    /\ UNCHANGED <<accounts, members, exists, raced>>

\* find_by_username; granting "admin" demotes nobody and is not checked.
FindUser(h) ==
    /\ InStep(h, "find")
    /\ requests' = [requests EXCEPT ![h] =
                    IF @.user \notin accounts THEN NoRequest
                    ELSE [@ EXCEPT !.pc = IF requests[h].role = "admin" THEN "write" ELSE "check"]]
    /\ UNCHANGED <<accounts, members, exists, raced>>

\* The last-administrator law.
Refused(t) == IF t.op = "account" THEN SoloAdministrated(t.user) ELSE SoloAdministrator(t.user)

Check(h) ==
    /\ InStep(h, "check")
    /\ requests' = [requests EXCEPT ![h] = IF Refused(@) THEN NoRequest ELSE [@ EXCEPT !.pc = "write"]]
    /\ UNCHANGED <<accounts, members, exists, raced>>

-----------------------------------------------------------------------------
(* The writes.                                                              *)

\* upsert_member: by the ids found before, whatever became of their rows.
UpsertMember(h) ==
    /\ InStep(h, "write") /\ requests[h].op = "grant"
    /\ members' = [members EXCEPT ![requests[h].user] = requests[h].role]
    /\ raced' = (raced \/ Overlapped(h))
    /\ Leave(h)
    /\ UNCHANGED <<accounts, exists>>

DropMember(h) ==
    /\ InStep(h, "write") /\ requests[h].op = "remove"
    /\ members' = [members EXCEPT ![requests[h].user] = "none"]
    /\ raced' = (raced \/ Overlapped(h))
    /\ Leave(h)
    /\ UNCHANGED <<accounts, exists>>

\* UserRepository::delete: the memberships and the account in one transaction.
DropAccount(h) ==
    /\ InStep(h, "write") /\ requests[h].op = "account"
    /\ accounts' = accounts \ {requests[h].user}
    /\ members' = [members EXCEPT ![requests[h].user] = "none"]
    /\ raced' = (raced \/ Overlapped(h))
    /\ Leave(h)
    /\ UNCHANGED exists

\* OrganizationRepository::delete takes the memberships along.
DropTenant ==
    /\ exists
    /\ exists' = FALSE
    /\ members' = [u \in Users |-> "none"]
    /\ UNCHANGED <<accounts, requests, raced>>

AbortRequest(h) ==
    /\ ~InStep(h, "idle")
    /\ Leave(h)
    /\ UNCHANGED <<accounts, members, exists, raced>>

TeamNext ==
    \/ DropTenant
    \/ \E h \in Requests :
        \/ AddTenantMember(h) \/ RemoveTenantMember(h) \/ AddMember(h) \/ RemoveMember(h)
        \/ DeleteUser(h) \/ FindUser(h) \/ Check(h)
        \/ UpsertMember(h) \/ DropMember(h) \/ DropAccount(h) \/ AbortRequest(h)

TeamSpec == TeamInit /\ [][TeamNext]_teamVars

-----------------------------------------------------------------------------
(* Properties.                                                              *)

AdministratorRemains == ListedAdmins # {} /\ exists' /\ ~raced' => ListedAdmins' # {}

\* "An organization never loses its last administrator while it exists",
\* whichever of the three pages asks: no demotion, removal or deletion of an
\* account takes it, unless a write landed between its check and its write.
LastAdministratorStays == [][AdministratorRemains]_teamVars
===============================================================================
