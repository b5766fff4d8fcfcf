-------------------------------- MODULE Tenants --------------------------------
(***************************************************************************)
(* Organizations, the host names mapped to them, the content they own and    *)
(* the live snapshot that routes a request to an organization's tree: the    *)
(* Tenants pages (src/src/routes/tenants.rs), the organization repository    *)
(* and the boot seeders (src/src/db.rs), the trees (src/src/routes/mod.rs)   *)
(* and the snapshot (src/src/state.rs).                                      *)
(*                                                                          *)
(* A handler loads the organization, runs its statement on the loaded id,    *)
(* reads the host mapping back and replaces the shared snapshot: one action  *)
(* each, interleaved with the other handlers and cut off by a failure, a     *)
(* client that left or a crash.  A refused request changes nothing: the      *)
(* refusals are the guards.                                                  *)
(***************************************************************************)
EXTENDS Naturals, Sequences, FiniteSets

CONSTANTS Handlers,    \* requests of the Tenants pages in flight
          Tenants,     \* the keys validate_tenant_key accepts
          Hosts,       \* the host names validate_hostname accepts
          Roots,       \* the document roots validate_document_root accepts
          HostLists,   \* the [cms] hosts lists the server is started with
          MaxOrgs      \* bound: organizations ever created

ASSUME TenantsAssumption ==
    /\ MaxOrgs \in Nat \ {0, 1}
    /\ HostLists \subseteq Seq(Hosts)
    /\ Tenants \cap {"main", "cms", "none"} = {}

VARIABLES
    server,   \* "down", "seeding" or "up"
    hostList, \* the [cms] hosts of this run of the server
    claimed,  \* how many of them the seeder has upserted
    orgs,     \* id -> [key, root], NoOrg without a row
    nextOrg,  \* AUTOINCREMENT: ids are never used again
    domains,  \* the rows: [host, org, source], host is their key
    content,  \* the ids in the organization_id column of pages, menus, media
    snapshot, \* [bindings, trees]: what requests are routed by
    tasks,    \* the handlers in flight
    adrift    \* a refresh was cut off, or an older read was installed last

vars == <<server, hostList, claimed, orgs, nextOrg, domains, content, snapshot,
          tasks, adrift>>
boot == <<server, hostList, claimed>>

Keys == Tenants \cup {"main", "cms"}
OrgIds == 1..MaxOrgs
MainId == 1
CmsId == 2
NoOrg == [key |-> "none", root |-> "none"]
Seeded == {"main", "cms"}

Org == [key : Tenants, root : Roots] \cup [key : Seeded, root : Seeded]
Domain == [host : Hosts, org : OrgIds, source : {"config", "manual"}]
Binding == [host : Hosts, key : Tenants, root : Roots]
             \cup [host : Hosts, key : Seeded, root : Seeded]
Tree == [key : Tenants, root : Roots]

Task == [pc   : {"idle", "update", "count", "delete", "insert", "remove", "read", "replace"},
         key  : Keys \cup {"none"},
         org  : OrgIds \cup {0},
         host : Hosts \cup {"none"},
         root : Roots \cup {"none"},
         read : SUBSET Binding,
         fresh : BOOLEAN]

Idle == [pc |-> "idle", key |-> "none", org |-> 0, host |-> "none", root |-> "none",
         read |-> {}, fresh |-> FALSE]

TypeOK ==
    /\ server \in {"down", "seeding", "up"}
    /\ hostList \in HostLists
    /\ claimed \in 0..Len(hostList)
    /\ orgs \in [OrgIds -> Org \cup {NoOrg}]
    /\ nextOrg \in 3..MaxOrgs + 1
    /\ domains \subseteq Domain
    /\ \A d, e \in domains : d.host = e.host => d = e
    /\ content \subseteq OrgIds
    /\ snapshot \in [bindings : SUBSET Binding, trees : SUBSET Tree]
    /\ tasks \in [Handlers -> Task]
    /\ adrift \in BOOLEAN

-----------------------------------------------------------------------------
(* The rows and what they amount to.                                        *)

Listed == {hostList[i] : i \in 1..Len(hostList)}
Existing == {id \in OrgIds : orgs[id] # NoOrg}
Find(key) == {id \in Existing : orgs[id].key = key}

\* load_host_bindings: the rows joined with their organizations; a row without
\* an organization does not load.  A host has one row: their order is left out.
BindingsOf(rows) ==
    {[host |-> d.host, key |-> orgs[d.org].key, root |-> orgs[d.org].root] :
        d \in {x \in rows : x.org \in Existing}}
Bindings == BindingsOf(domains)

\* tenant_trees: one tree per tenant the bindings name, at its root.
Trees(bindings) == {[key |-> b.key, root |-> b.root] :
                       b \in {x \in bindings : x.key \in Tenants}}

\* VhostData and VhostSnapshot: the table and its trees change together.
Snapshot(bindings) == [bindings |-> bindings, trees |-> Trees(bindings)]

\* Slip: INTEGER PRIMARY KEY alone: one past the largest id in the table.
FreshIdReused == CHOOSE id \in OrgIds \cup {MaxOrgs + 1} :
    /\ \A e \in Existing : id > e
    /\ \A other \in OrgIds : (\A e \in Existing : other > e) => id <= other

\* The id AUTOINCREMENT hands out.
FreshId == nextOrg

-----------------------------------------------------------------------------
(* The boot: seed_organizations, seed_domains, the loads, vhost_routes.      *)

Init ==
    /\ server = "down"
    /\ hostList \in HostLists
    /\ claimed = 0
    /\ orgs = [id \in OrgIds |-> CASE id = MainId -> [key |-> "main", root |-> "main"]
                                   [] id = CmsId -> [key |-> "cms", root |-> "cms"]
                                   [] OTHER -> NoOrg]
    /\ nextOrg = 3
    /\ domains = {}
    /\ content = {}
    /\ snapshot = Snapshot({})
    /\ tasks = [h \in Handlers |-> Idle]
    /\ adrift = FALSE

\* build_state reaches the seeders (the two organizations have their rows
\* from the first boot on; later boots rewrite the same data).
Boot ==
    /\ server = "down"
    /\ server' = "seeding"
    /\ hostList' \in HostLists
    /\ claimed' = 0
    /\ UNCHANGED <<orgs, nextOrg, domains, content, snapshot, tasks, adrift>>

\* Slip: a name that is already mapped is left to its owner.
ClaimFreeHost ==
    /\ server = "seeding"
    /\ claimed < Len(hostList)
    /\ LET host == hostList[claimed + 1]
       IN  domains' = IF \E d \in domains : d.host = host THEN domains
                      ELSE domains \cup {[host |-> host, org |-> CmsId, source |-> "config"]}
    /\ claimed' = claimed + 1
    /\ UNCHANGED <<server, hostList, orgs, nextOrg, content, snapshot, tasks, adrift>>

\* seed_domains, one upsert: a listed name becomes the CMS organization's
\* config row, also when a manual row held it.
ClaimHost ==
    /\ server = "seeding"
    /\ claimed < Len(hostList)
    /\ LET row == [host |-> hostList[claimed + 1], org |-> CmsId, source |-> "config"]
       IN  domains' = {d \in domains : d.host # row.host} \cup {row}
    /\ claimed' = claimed + 1
    /\ UNCHANGED <<server, hostList, orgs, nextOrg, content, snapshot, tasks, adrift>>

\* seed_domains, the prune: the seeder's own rows that the list dropped.
Kept == {d \in domains : d.source = "config" => d.host \in Listed}

\* The prune and the loads: no request is served before.
Serve ==
    /\ server = "seeding"
    /\ claimed = Len(hostList)
    /\ server' = "up"
    /\ domains' = Kept
    /\ snapshot' = Snapshot(BindingsOf(Kept))
    /\ adrift' = FALSE
    /\ UNCHANGED <<hostList, claimed, orgs, nextOrg, content, tasks>>

Crash ==
    /\ server # "down"
    /\ server' = "down"
    /\ claimed' = 0
    /\ snapshot' = Snapshot({})
    /\ adrift' = FALSE
    /\ tasks' = [h \in Handlers |-> Idle]
    /\ UNCHANGED <<hostList, orgs, nextOrg, domains, content>>

-----------------------------------------------------------------------------
(* The handlers of the Tenants pages, up to their statement.                *)

At(h, pc) == server = "up" /\ tasks[h].pc = pc

Enter(h, pc, id, host, root) ==
    tasks' = [tasks EXCEPT ![h] = [pc |-> pc, key |-> orgs[id].key, org |-> id, host |-> host,
                                   root |-> root, read |-> {}, fresh |-> FALSE]]

\* A write that moves the mapping outdates what the others have read.
Outdate(h, pc) ==
    tasks' = [g \in Handlers |-> IF g = h THEN [tasks[h] EXCEPT !.pc = pc]
                                 ELSE [tasks[g] EXCEPT !.fresh = FALSE]]

\* create_tenant: a taken key is refused, nothing is mapped yet.
CreateTenant(h) ==
    /\ At(h, "idle")
    /\ FreshId \in OrgIds
    /\ \E key \in Tenants, root \in Roots :
        /\ Find(key) = {}
        /\ orgs' = [orgs EXCEPT ![FreshId] = [key |-> key, root |-> root]]
    /\ nextOrg' = FreshId + 1
    /\ UNCHANGED <<boot, domains, content, snapshot, tasks, adrift>>

\* update_tenant and delete_tenant refuse the bootstrap organizations.
UpdateTenant(h) ==
    /\ At(h, "idle")
    /\ \E id \in Existing, root \in Roots :
        orgs[id].key \notin Seeded /\ Enter(h, "update", id, "none", root)
    /\ UNCHANGED <<boot, orgs, nextOrg, domains, content, snapshot, adrift>>

DeleteTenant(h) ==
    /\ At(h, "idle")
    /\ \E id \in Existing : orgs[id].key \notin Seeded /\ Enter(h, "count", id, "none", "none")
    /\ UNCHANGED <<boot, orgs, nextOrg, domains, content, snapshot, adrift>>

AddTenantDomain(h) ==
    /\ At(h, "idle")
    /\ \E id \in Existing, host \in Hosts : Enter(h, "insert", id, host, "none")
    /\ UNCHANGED <<boot, orgs, nextOrg, domains, content, snapshot, adrift>>

RemoveTenantDomain(h) ==
    /\ At(h, "idle")
    /\ \E id \in Existing, host \in Hosts : Enter(h, "remove", id, host, "none")
    /\ UNCHANGED <<boot, orgs, nextOrg, domains, content, snapshot, adrift>>

-----------------------------------------------------------------------------
(* Their statements.                                                        *)

\* OrganizationRepository::update: by key.  No row: the handler redirects.
Update(h) ==
    LET t == tasks[h]
        id == CHOOSE x \in Find(t.key) : TRUE
    IN
    /\ At(h, "update")
    /\ IF Find(t.key) = {}
       THEN /\ tasks' = [tasks EXCEPT ![h] = Idle]
            /\ orgs' = orgs
       ELSE /\ orgs' = [orgs EXCEPT ![id].root = t.root]
            /\ Outdate(h, "read")
    /\ UNCHANGED <<boot, nextOrg, domains, content, snapshot, adrift>>

\* content_counts: by key; an organization that is gone counts as empty.
CountContent(h) ==
    /\ At(h, "count")
    /\ tasks' = IF Find(tasks[h].key) \cap content # {}
                THEN [tasks EXCEPT ![h] = Idle]
                ELSE [tasks EXCEPT ![h].pc = "delete"]
    /\ UNCHANGED <<boot, orgs, nextOrg, domains, content, snapshot, adrift>>

\* Slip: the deletion leaves the refresh to the next edit.
DeleteUnrefreshed(h) ==
    LET gone == Find(tasks[h].key)
    IN
    /\ At(h, "delete")
    /\ orgs' = [id \in OrgIds |-> IF id \in gone THEN NoOrg ELSE orgs[id]]
    /\ domains' = {d \in domains : d.org \notin gone}
    /\ tasks' = [g \in Handlers |-> IF g = h THEN Idle ELSE [tasks[g] EXCEPT !.fresh = FALSE]]
    /\ UNCHANGED <<boot, nextOrg, content, snapshot, adrift>>

\* OrganizationRepository::delete: one transaction, by key.
Delete(h) ==
    LET gone == Find(tasks[h].key)
    IN
    /\ At(h, "delete")
    /\ IF gone = {}
       THEN /\ tasks' = [tasks EXCEPT ![h] = Idle]
            /\ UNCHANGED <<orgs, domains>>
       ELSE /\ orgs' = [id \in OrgIds |-> IF id \in gone THEN NoOrg ELSE orgs[id]]
            /\ domains' = {d \in domains : d.org \notin gone}
            /\ Outdate(h, "read")
    /\ UNCHANGED <<boot, nextOrg, content, snapshot, adrift>>

\* add_domain: with the id loaded before; nothing ties it to an existing row.
\* A mapped name is refused, the name of its owner in the message.
InsertDomain(h) ==
    LET t == tasks[h]
    IN
    /\ At(h, "insert")
    /\ IF \E d \in domains : d.host = t.host
       THEN /\ tasks' = [tasks EXCEPT ![h] = Idle]
            /\ domains' = domains
       ELSE /\ domains' = domains \cup {[host |-> t.host, org |-> t.org, source |-> "manual"]}
            /\ Outdate(h, "read")
    /\ UNCHANGED <<boot, orgs, nextOrg, content, snapshot, adrift>>

\* remove_domain: only a manual row of this organization goes.
RemoveDomain(h) ==
    LET t == tasks[h]
        mine == {d \in domains : d.host = t.host /\ d.org = t.org /\ d.source = "manual"}
    IN
    /\ At(h, "remove")
    /\ IF mine # {}
       THEN /\ domains' = domains \ mine
            /\ Outdate(h, "read")
       ELSE /\ tasks' = [tasks EXCEPT ![h] = Idle]
            /\ domains' = domains
    /\ UNCHANGED <<boot, orgs, nextOrg, content, snapshot, adrift>>

-----------------------------------------------------------------------------
(* refresh_vhost_state, shared by every handler that changed the mapping.   *)

\* vhost_inputs (the roots it reads first are those of main and cms).
ReadBindings(h) ==
    /\ At(h, "read")
    /\ tasks' = [tasks EXCEPT ![h].pc = "replace", ![h].read = Bindings, ![h].fresh = TRUE]
    /\ UNCHANGED <<boot, orgs, nextOrg, domains, content, snapshot, adrift>>

\* replace_vhosts: the last one wins, whatever it has read.
ReplaceVhosts(h) ==
    /\ At(h, "replace")
    /\ snapshot' = Snapshot(tasks[h].read)
    /\ adrift' = ~tasks[h].fresh
    /\ tasks' = [tasks EXCEPT ![h] = Idle]
    /\ UNCHANGED <<boot, orgs, nextOrg, domains, content>>

\* A statement fails, or the client leaves and the handler is dropped.
Abort(h) ==
    /\ server = "up"
    /\ tasks[h].pc # "idle"
    /\ adrift' = (adrift \/ tasks[h].pc \in {"read", "replace"})
    /\ tasks' = [tasks EXCEPT ![h] = Idle]
    /\ UNCHANGED <<boot, orgs, nextOrg, domains, content, snapshot>>

-----------------------------------------------------------------------------
(* The content plane, as far as the organizations see it: pages, menus and   *)
(* media are created for the organization's key (org_scope resolves it in    *)
(* the statement) and deleted again.                                         *)

CreateContent ==
    /\ server = "up"
    /\ \E id \in Existing \ {MainId} : content' = content \cup {id}
    /\ UNCHANGED <<boot, orgs, nextOrg, domains, snapshot, tasks, adrift>>

DeleteContent ==
    /\ server = "up"
    /\ \E id \in content \cap Existing : content' = content \ {id}
    /\ UNCHANGED <<boot, orgs, nextOrg, domains, snapshot, tasks, adrift>>

-----------------------------------------------------------------------------

Next ==
    \/ Boot \/ ClaimHost \/ Serve \/ Crash
    \/ CreateContent \/ DeleteContent
    \/ \E h \in Handlers :
        \/ CreateTenant(h) \/ UpdateTenant(h) \/ DeleteTenant(h)
        \/ AddTenantDomain(h) \/ RemoveTenantDomain(h)
        \/ Update(h) \/ CountContent(h) \/ Delete(h) \/ InsertDomain(h) \/ RemoveDomain(h)
        \/ ReadBindings(h) \/ ReplaceVhosts(h) \/ Abort(h)

Spec == Init /\ [][Next]_vars

-----------------------------------------------------------------------------
(* Properties.                                                              *)

\* The dispatcher's expect("every mapped organization has its tree"): a host
\* the live table maps to a tenant has a tree, and the tree serves the root of
\* the very row the table was read with.
MappedHostHasTree ==
    \A b \in snapshot.bindings :
        b.key \in Tenants => [key |-> b.key, root |-> b.root] \in snapshot.trees

\* "The change is live for the next request": with no handler between its
\* write and its refresh, the live table is the one the rows describe, unless
\* a refresh was cut off (flagged on the page) or crossed another one.
SnapshotCurrent ==
    (/\ server = "up"
     /\ \A h \in Handlers : tasks[h].pc \notin {"read", "replace"})
    => adrift \/ snapshot = Snapshot(Bindings)

\* A tenant starts with nothing: rows that a race left behind under an old id
\* (a host name mapped with a stale id, content created while the tenant was
\* deleted) never become the property of a tenant created later.
StartsEmpty ==
    [][\A id \in OrgIds : orgs[id] = NoOrg /\ orgs'[id] # NoOrg
            => id \notin content /\ \A d \in domains : d.org # id]_vars

\* The [cms] hosts list is the truth about the seeder's rows whatever earlier
\* boots, crashes half way through the seeding and panel edits did: a running
\* server has a config row of the CMS organization for each listed name and
\* for no other.
ListedHostsServed ==
    server = "up" =>
        {d.host : d \in {x \in domains : x.source = "config" /\ x.org = CmsId}} = Listed

\* On well-typed states, hosts reach their organization: a mapped one has its
\* tree, and a listed one is mapped, whatever boots and crashes came before.
HostsServed == TypeOK /\ MappedHostHasTree /\ ListedHostsServed
===============================================================================
