----------------------------- MODULE TenantsProofs -----------------------------
(***************************************************************************)
(* Organizations, host names and the live snapshot, for any number of keys,  *)
(* hosts, roots, requests in flight and boots.                               *)
(*                                                                          *)
(* What the seeders own is never the panel's to take away (Bootstrap,        *)
(* Claims); an id is above every id in use when AUTOINCREMENT hands it out   *)
(* (Numbered); and a request that moved the mapping is on its way to the     *)
(* refresh, with a read that is current or known to be outdated (FreshReads, *)
(* SnapshotFollows).                                                        *)
(***************************************************************************)
EXTENDS Tenants, TLAPS

\* Nothing refers to an id that was not handed out.
Numbered ==
    /\ \A id \in OrgIds : id >= nextOrg => orgs[id] = NoOrg /\ id \notin content
    /\ \A d \in domains : d.org < nextOrg
    /\ \A h \in Handlers : tasks[h].org < nextOrg

\* The CMS organization is there from the first boot on.
Bootstrap == orgs[CmsId].key = "cms"

\* What a request of the pages may ask for, by its step.
AskedFor(t) ==
    /\ t.pc = "update" => t.key \in Tenants /\ t.root \in Roots
    /\ t.pc \in {"count", "delete"} => t.key \notin Seeded
    /\ t.pc = "insert" => t.org \in OrgIds /\ t.host \in Hosts
Asked == \A h \in Handlers : AskedFor(tasks[h])

\* No request is served before the server is up.
Closed == server # "up" => \A h \in Handlers : tasks[h] = Idle

ClaimedHosts == {d.host : d \in {x \in domains : x.source = "config" /\ x.org = CmsId}}

\* The config rows are the seeder's, and so far it has claimed a prefix of its list.
Claims ==
    /\ \A d \in domains : d.source = "config" => d.org = CmsId
    /\ server = "seeding" => \A i \in 1..claimed : hostList[i] \in ClaimedHosts
    /\ server = "up" => ClaimedHosts = Listed

\* A read nobody outdated is what the rows say now.
FreshReads == \A h \in Handlers : tasks[h].pc = "replace" /\ tasks[h].fresh => tasks[h].read = Bindings

Pending == \E h \in Handlers : tasks[h].pc \in {"read", "replace"}

SnapshotFollows == server = "up" => adrift \/ snapshot = Snapshot(Bindings) \/ Pending

Inv == /\ TypeOK /\ Numbered /\ Bootstrap /\ Asked /\ Closed /\ Claims
       /\ FreshReads /\ SnapshotFollows /\ MappedHostHasTree

-----------------------------------------------------------------------------
(* What a reading of the rows is.                                           *)

\* load_host_bindings returns bindings.
LEMMA BindingsTyped ==
  ASSUME orgs \in [OrgIds -> Org \cup {NoOrg}], NEW rows, rows \subseteq Domain
  PROVE  BindingsOf(rows) \subseteq Binding
<1> SUFFICES ASSUME NEW d \in rows, d.org \in Existing
             PROVE  [host |-> d.host, key |-> orgs[d.org].key, root |-> orgs[d.org].root] \in Binding
  BY DEF BindingsOf
<1>1. d.host \in Hosts /\ d.org \in OrgIds /\ orgs[d.org] \in Org
  BY DEF Domain, Existing
<1> QED BY <1>1 DEF Org, Binding

\* A snapshot has the tree of every tenant it maps, whatever was read.
LEMMA SnapshotTyped ==
  ASSUME NEW bindings \in SUBSET Binding
  PROVE  /\ Snapshot(bindings) \in [bindings : SUBSET Binding, trees : SUBSET Tree]
         /\ \A b \in Snapshot(bindings).bindings : b.key \in Tenants =>
               [key |-> b.key, root |-> b.root] \in Snapshot(bindings).trees
<1>1. Trees(bindings) \subseteq Tree
  <2> SUFFICES ASSUME NEW b \in bindings, b.key \in Tenants
               PROVE  [key |-> b.key, root |-> b.root] \in Tree
    BY DEF Trees
  <2>1. b.root \in Roots
    BY TenantsAssumption DEF Binding, Seeded
  <2> QED BY <2>1 DEF Tree
<1>2. \A b \in bindings : b.key \in Tenants => [key |-> b.key, root |-> b.root] \in Trees(bindings)
  BY DEF Trees
<1> QED BY <1>1, <1>2 DEF Snapshot

\* The rows say the same when the organizations they point to do.
LEMMA SameBindings ==
  ASSUME UNCHANGED domains, domains \subseteq Domain,
         \A d \in domains : d.org \in Existing <=> d.org \in Existing',
         \A d \in domains : orgs'[d.org] = orgs[d.org]
  PROVE  Bindings' = Bindings
BY DEF Bindings, BindingsOf

LEMMA IdleTask == Idle \in Task /\ Idle.pc = "idle" /\ Idle.org = 0
BY DEF Idle, Task

LEMMA InitInv == Init => Inv
<1> SUFFICES ASSUME Init PROVE Inv
  OBVIOUS
<1>1. orgs \in [OrgIds -> Org \cup {NoOrg}] /\ orgs[CmsId].key = "cms"
  BY TenantsAssumption DEF Init, OrgIds, Org, Seeded, NoOrg, MainId, CmsId
<1>2. \A id \in OrgIds : id >= 3 => orgs[id] = NoOrg
  BY DEF Init, MainId, CmsId, OrgIds
<1>3. Snapshot({}) = [bindings |-> {}, trees |-> {}] /\ Bindings = {}
  BY DEF Snapshot, Trees, Bindings, BindingsOf, Init
<1>4. tasks \in [Handlers -> Task] /\ \A h \in Handlers : tasks[h] = Idle
  BY IdleTask DEF Init
<1>5. hostList \in Seq(Hosts) /\ Len(hostList) \in Nat
  BY TenantsAssumption DEF Init
<1>6. TypeOK
  <2>1. snapshot \in [bindings : SUBSET Binding, trees : SUBSET Tree]
    BY <1>3 DEF Init
  <2>2. nextOrg \in 3..MaxOrgs + 1 /\ claimed \in 0..Len(hostList)
    BY <1>5, TenantsAssumption DEF Init
  <2> QED BY <1>1, <1>4, <2>1, <2>2 DEF Init, TypeOK
<1>7. Numbered /\ Bootstrap
  BY <1>1, <1>2, <1>4, IdleTask DEF Init, Numbered, Bootstrap
<1>8. Asked /\ Closed /\ Claims /\ FreshReads /\ SnapshotFollows /\ MappedHostHasTree
  BY <1>3, <1>4, IdleTask DEF Init, Asked, AskedFor, Closed, Claims, FreshReads, SnapshotFollows,
     MappedHostHasTree
<1> QED BY <1>6, <1>7, <1>8 DEF Inv

-----------------------------------------------------------------------------
(* A request moves on.                                                      *)

\* One request takes the state r, and the rows and the snapshot stay.
Moves(h, r) ==
    /\ server = "up"
    /\ tasks' = [tasks EXCEPT ![h] = r]
    /\ AskedFor(r) /\ r.org < nextOrg
    /\ r.pc = "replace" /\ r.fresh => r.read = Bindings
    /\ tasks[h].pc \in {"read", "replace"} => r.pc \in {"read", "replace"}
    /\ UNCHANGED <<boot, orgs, nextOrg, domains, content, snapshot, adrift>>

LEMMA MovesKeeps ==
  ASSUME Inv, NEW h \in Handlers, NEW r \in Task, Moves(h, r)
  PROVE  Inv'
<1>0. TypeOK /\ Numbered /\ Bootstrap /\ Asked /\ Closed /\ Claims /\ FreshReads
      /\ SnapshotFollows /\ MappedHostHasTree
  BY DEF Inv
<1>1. /\ UNCHANGED <<server, hostList, claimed, orgs, nextOrg, domains, content, snapshot, adrift>>
      /\ server = "up"
  BY DEF Moves, boot
<1>2. tasks' \in [Handlers -> Task] /\ tasks'[h] = r
      /\ \A g \in Handlers : g # h => tasks'[g] = tasks[g]
  BY <1>0 DEF Moves, TypeOK
<1>3. Bindings' = Bindings
  BY <1>1 DEF Bindings, BindingsOf, Existing
<1>4. TypeOK'
  BY <1>0, <1>1, <1>2 DEF TypeOK
<1>5. Numbered'
  BY <1>0, <1>1, <1>2 DEF Numbered, Moves
<1>6. Bootstrap' /\ Closed'
  BY <1>0, <1>1 DEF Bootstrap, Closed
<1>7. Asked'
  BY <1>0, <1>2 DEF Asked, Moves
<1>8. Claims'
  BY <1>0, <1>1 DEF Claims, ClaimedHosts, Listed
<1>9. FreshReads'
  BY <1>0, <1>2, <1>3 DEF FreshReads, Moves
<1>10. SnapshotFollows'
  <2>1. Pending => Pending'
    BY <1>2 DEF Pending, Moves
  <2> QED BY <1>0, <1>1, <1>3, <2>1 DEF SnapshotFollows, Snapshot, Trees
<1>11. MappedHostHasTree'
  BY <1>0, <1>1 DEF MappedHostHasTree
<1> QED BY <1>4, <1>5, <1>6, <1>7, <1>8, <1>9, <1>10, <1>11 DEF Inv

LEMMA EnterKeeps ==
  ASSUME Inv, NEW h \in Handlers, At(h, "idle"), NEW pc \in {"update", "count", "insert", "remove"},
         NEW id \in Existing, NEW host \in Hosts \cup {"none"}, NEW root \in Roots \cup {"none"},
         pc = "update" => orgs[id].key \notin Seeded /\ root \in Roots,
         pc = "count" => orgs[id].key \notin Seeded,
         pc = "insert" => host \in Hosts,
         Enter(h, pc, id, host, root),
         UNCHANGED <<boot, orgs, nextOrg, domains, content, snapshot, adrift>>
  PROVE  Inv'
<1> DEFINE r == [pc |-> pc, key |-> orgs[id].key, org |-> id, host |-> host, root |-> root,
                 read |-> {}, fresh |-> FALSE]
<1>1. id \in OrgIds /\ orgs[id] \in Org /\ id < nextOrg
  BY TenantsAssumption DEF Inv, TypeOK, Existing, Numbered, OrgIds
<1>2. orgs[id].key \in Keys /\ (orgs[id].key \notin Seeded => orgs[id].key \in Tenants)
  BY <1>1 DEF Org, Keys, Seeded
<1>3. r \in Task
  BY <1>1, <1>2 DEF Task
<1>4. tasks' = [tasks EXCEPT ![h] = r]
  BY DEF Enter
<1>5. Moves(h, r)
  BY <1>1, <1>2, <1>4 DEF Moves, AskedFor, At
<1> HIDE DEF r
<1> QED BY <1>3, <1>5, MovesKeeps

LEMMA GiveUpKeeps ==
  ASSUME Inv, NEW h \in Handlers, server = "up", tasks[h].pc \notin {"read", "replace"},
         tasks' = [tasks EXCEPT ![h] = Idle],
         UNCHANGED <<boot, orgs, nextOrg, domains, content, snapshot, adrift>>
  PROVE  Inv'
<1>1. Idle \in Task /\ Moves(h, Idle)
  <2>1. 0 < nextOrg
    BY DEF Inv, TypeOK
  <2> QED BY <2>1, IdleTask DEF Moves, AskedFor
<1> QED BY <1>1, MovesKeeps

-----------------------------------------------------------------------------
(* A request moves the mapping.                                             *)

\* The writer goes on to the refresh, and what the others have read is outdated.
LEMMA OutdateKeeps ==
  ASSUME Inv, NEW h \in Handlers, server = "up", Outdate(h, "read"),
         UNCHANGED <<boot, nextOrg, content, snapshot, adrift>>
  PROVE  /\ tasks' \in [Handlers -> Task]
         /\ \A g \in Handlers : tasks'[g].org = tasks[g].org
         /\ Asked' /\ Closed' /\ FreshReads' /\ SnapshotFollows' /\ MappedHostHasTree'
<1>0. tasks \in [Handlers -> Task]
  BY DEF Inv, TypeOK
<1>1. tasks'[h] = [tasks[h] EXCEPT !.pc = "read"]
  BY DEF Outdate
<1>2. \A g \in Handlers : g # h => tasks'[g] = [tasks[g] EXCEPT !.fresh = FALSE]
  BY DEF Outdate
<1>3. ASSUME NEW g \in Handlers
      PROVE  /\ tasks'[g] \in Task
             /\ tasks'[g].key = tasks[g].key /\ tasks'[g].org = tasks[g].org
             /\ tasks'[g].host = tasks[g].host /\ tasks'[g].root = tasks[g].root
             /\ g = h => tasks'[g].pc = "read"
             /\ g # h => tasks'[g].pc = tasks[g].pc /\ tasks'[g].fresh = FALSE
  <2>1. tasks[g] \in Task
    BY <1>0
  <2>2. CASE g = h
    BY <2>1, <2>2, <1>1 DEF Task
  <2>3. CASE g # h
    BY <2>1, <2>3, <1>2 DEF Task
  <2> QED BY <2>2, <2>3
<1>4. tasks' \in [Handlers -> Task]
  BY <1>3 DEF Outdate
<1>5. Asked'
  BY <1>3 DEF Inv, Asked, AskedFor
<1>6. Closed' /\ MappedHostHasTree'
  BY DEF Inv, Closed, MappedHostHasTree, boot
<1>7. FreshReads'
  BY <1>3 DEF FreshReads
<1>8. SnapshotFollows'
  BY <1>3 DEF SnapshotFollows, Pending
<1> QED BY <1>3, <1>4, <1>5, <1>6, <1>7, <1>8

\* What is left to show of a write that outdates.
LEMMA WriteKeeps ==
  ASSUME Inv, NEW h \in Handlers, server = "up", Outdate(h, "read"),
         UNCHANGED <<boot, nextOrg, content, snapshot, adrift>>,
         orgs' \in [OrgIds -> Org \cup {NoOrg}], Bootstrap',
         \A id \in OrgIds : orgs'[id] = NoOrg \/ orgs[id] # NoOrg,
         domains' \subseteq Domain, \A d, e \in domains' : d.host = e.host => d = e,
         \A d \in domains' : d.org < nextOrg,
         \A d \in {x \in domains' : x.source = "config"} : d \in domains,
         \A d \in {x \in domains : x.source = "config"} : d \in domains'
  PROVE  Inv'
<1>0. TypeOK /\ Numbered /\ Claims
  BY DEF Inv
<1>1. UNCHANGED <<server, hostList, claimed, nextOrg, content, snapshot, adrift>>
  BY DEF boot
<1>2. /\ tasks' \in [Handlers -> Task]
      /\ \A g \in Handlers : tasks'[g].org = tasks[g].org
      /\ Asked' /\ Closed' /\ FreshReads' /\ SnapshotFollows' /\ MappedHostHasTree'
  BY OutdateKeeps
<1>3. TypeOK'
  BY <1>0, <1>1, <1>2 DEF TypeOK
<1>4. Numbered'
  BY <1>0, <1>1, <1>2 DEF Numbered
<1>5. Claims'
  <2>1. ClaimedHosts' = ClaimedHosts
    BY DEF ClaimedHosts
  <2> QED BY <1>0, <1>1, <2>1 DEF Claims, Listed
<1> QED BY <1>2, <1>3, <1>4, <1>5 DEF Inv

LEMMA UpdateKeeps ==
  ASSUME Inv, NEW h \in Handlers, Update(h)
  PROVE  Inv'
<1>0. TypeOK /\ Numbered /\ Bootstrap /\ Asked /\ Claims
  BY DEF Inv
<1> DEFINE t == tasks[h]
           id == CHOOSE x \in Find(t.key) : TRUE
<1>1. CASE Find(t.key) = {}
  BY <1>1, GiveUpKeeps DEF Update, At, boot
<1>2. CASE Find(t.key) # {}
  <2>1. id \in Find(t.key)
    BY <1>2
  <2> HIDE DEF id
  <2>2. id \in OrgIds /\ orgs[id] \in Org /\ orgs[id].key = t.key
    BY <1>0, <2>1 DEF Find, Existing, TypeOK
  <2>3. t.key \in Tenants /\ t.root \in Roots
    BY <1>0 DEF Asked, AskedFor, Update, At
  <2>4. /\ orgs' = [orgs EXCEPT ![id] = [key |-> t.key, root |-> t.root]]
        /\ Outdate(h, "read") /\ server = "up"
        /\ UNCHANGED <<boot, nextOrg, domains, content, snapshot, adrift>>
    <3>1. [orgs[id] EXCEPT !.root = t.root] = [key |-> t.key, root |-> t.root]
      BY <2>2 DEF Org
    <3> QED BY <1>2, <3>1 DEF Update, At, id
  <2>5. /\ orgs' \in [OrgIds -> Org \cup {NoOrg}]
        /\ \A x \in OrgIds : orgs'[x] = NoOrg \/ orgs[x] # NoOrg
    <3>1. [key |-> t.key, root |-> t.root] \in Org /\ orgs[id] # NoOrg
      BY <2>1, <2>3 DEF Org, Find, Existing
    <3> QED BY <1>0, <2>2, <2>4, <3>1 DEF TypeOK
  <2>6. Bootstrap'
    BY <1>0, <2>2, <2>4 DEF Bootstrap, TypeOK
  <2>7. UNCHANGED domains
    BY <2>4
  <2> QED BY <1>0, <2>4, <2>5, <2>6, <2>7, WriteKeeps DEF TypeOK, Numbered
<1> QED BY <1>1, <1>2

LEMMA DeleteKeeps ==
  ASSUME Inv, NEW h \in Handlers, Delete(h)
  PROVE  Inv'
<1>0. TypeOK /\ Numbered /\ Bootstrap /\ Asked /\ Claims
  BY DEF Inv
<1> DEFINE gone == Find(tasks[h].key)
<1>1. CASE gone = {}
  BY <1>1, GiveUpKeeps DEF Delete, At, boot
<1>2. CASE gone # {}
  <2>1. /\ orgs' = [id \in OrgIds |-> IF id \in gone THEN NoOrg ELSE orgs[id]]
        /\ domains' = {d \in domains : d.org \notin gone}
        /\ Outdate(h, "read") /\ server = "up"
        /\ UNCHANGED <<boot, nextOrg, content, snapshot, adrift>>
    BY <1>2 DEF Delete, At
  <2>2. CmsId \notin gone
    BY <1>0 DEF Asked, AskedFor, Delete, At, Bootstrap, Find, Seeded
  <2>3. orgs' \in [OrgIds -> Org \cup {NoOrg}] /\ Bootstrap'
    BY <1>0, <2>1, <2>2, TenantsAssumption DEF TypeOK, Bootstrap, OrgIds, CmsId
  <2>4. \A d \in {x \in domains : x.source = "config"} : d \in domains'
    BY <1>0, <2>1, <2>2 DEF Claims
  <2> QED BY <1>0, <2>1, <2>3, <2>4, WriteKeeps DEF TypeOK, Numbered
<1> QED BY <1>1, <1>2

LEMMA InsertDomainKeeps ==
  ASSUME Inv, NEW h \in Handlers, InsertDomain(h)
  PROVE  Inv'
<1>0. TypeOK /\ Numbered /\ Bootstrap /\ Asked
  BY DEF Inv
<1> DEFINE t == tasks[h]
           row == [host |-> t.host, org |-> t.org, source |-> "manual"]
<1>1. CASE \E d \in domains : d.host = t.host
  BY <1>1, GiveUpKeeps DEF InsertDomain, At, boot
<1>2. CASE ~\E d \in domains : d.host = t.host
  <2>1. /\ domains' = domains \cup {row} /\ Outdate(h, "read") /\ server = "up"
        /\ UNCHANGED <<boot, orgs, nextOrg, content, snapshot, adrift>>
    BY <1>2 DEF InsertDomain, At
  <2>2. row \in Domain /\ t.org < nextOrg /\ row.source = "manual"
    BY <1>0 DEF Asked, AskedFor, InsertDomain, At, Domain, Numbered
  <2>3. \A d, e \in domains' : d.host = e.host => d = e
    BY <1>0, <1>2, <2>1 DEF TypeOK
  <2>4. UNCHANGED orgs /\ Bootstrap'
    BY <1>0, <2>1 DEF Bootstrap
  <2>5. domains' \subseteq Domain /\ \A d \in domains' : d.org < nextOrg
    BY <1>0, <2>1, <2>2 DEF TypeOK, Numbered
  <2> HIDE DEF row
  <2> QED BY <1>0, <2>1, <2>2, <2>3, <2>4, <2>5, WriteKeeps DEF TypeOK
<1> QED BY <1>1, <1>2

LEMMA RemoveDomainKeeps ==
  ASSUME Inv, NEW h \in Handlers, RemoveDomain(h)
  PROVE  Inv'
<1>0. TypeOK /\ Numbered /\ Bootstrap
  BY DEF Inv
<1> DEFINE t == tasks[h]
           mine == {d \in domains : d.host = t.host /\ d.org = t.org /\ d.source = "manual"}
<1>1. CASE mine = {}
  BY <1>1, GiveUpKeeps DEF RemoveDomain, At, boot
<1>2. CASE mine # {}
  <2>1. /\ domains' = domains \ mine /\ Outdate(h, "read") /\ server = "up"
        /\ UNCHANGED <<boot, orgs, nextOrg, content, snapshot, adrift>>
    BY <1>2 DEF RemoveDomain, At
  <2>2. UNCHANGED orgs /\ Bootstrap'
    BY <1>0, <2>1 DEF Bootstrap
  <2>3. /\ domains' \subseteq domains
        /\ \A d \in {x \in domains : x.source = "config"} : d \in domains'
    BY <2>1
  <2> HIDE DEF mine
  <2> QED BY <1>0, <2>1, <2>2, <2>3, WriteKeeps DEF TypeOK, Numbered
<1> QED BY <1>1, <1>2

-----------------------------------------------------------------------------
(* The other statements of the panel.                                       *)

LEMMA CountContentKeeps ==
  ASSUME Inv, NEW h \in Handlers, CountContent(h)
  PROVE  Inv'
<1> DEFINE t == tasks[h]
           r == [pc |-> "delete", key |-> t.key, org |-> t.org, host |-> t.host,
                 root |-> t.root, read |-> t.read, fresh |-> t.fresh]
<1>1. CASE Find(t.key) \cap content # {}
  BY <1>1, GiveUpKeeps DEF CountContent, At, boot
<1>2. CASE Find(t.key) \cap content = {}
  <2>1. t \in Task /\ AskedFor(t) /\ t.org < nextOrg /\ t.pc = "count" /\ server = "up"
    BY DEF Inv, TypeOK, Asked, Numbered, CountContent, At
  <2>2. [t EXCEPT !.pc = "delete"] = r /\ r \in Task
    BY <2>1 DEF Task
  <2>3. Moves(h, r)
    BY <1>2, <2>1, <2>2 DEF CountContent, Moves, AskedFor
  <2> HIDE DEF r
  <2> QED BY <2>2, <2>3, MovesKeeps
<1> QED BY <1>1, <1>2

LEMMA ReadBindingsKeeps ==
  ASSUME Inv, NEW h \in Handlers, ReadBindings(h)
  PROVE  Inv'
<1> DEFINE t == tasks[h]
           r == [pc |-> "replace", key |-> t.key, org |-> t.org, host |-> t.host,
                 root |-> t.root, read |-> Bindings, fresh |-> TRUE]
<1>1. t \in Task /\ t.org < nextOrg /\ server = "up"
  BY DEF Inv, TypeOK, Numbered, ReadBindings, At
<1>2. Bindings \subseteq Binding
  BY BindingsTyped DEF Inv, TypeOK, Bindings
<1>3. r \in Task
  BY <1>1, <1>2 DEF Task
<1>4. tasks' = [tasks EXCEPT ![h] = r]
  <2>1. \A g \in Handlers : g # h => tasks'[g] = tasks[g]
    BY DEF ReadBindings, Inv, TypeOK
  <2>2. tasks'[h] = r
    BY <1>1 DEF ReadBindings, Inv, TypeOK, Task
  <2>3. DOMAIN tasks' = Handlers /\ DOMAIN tasks = Handlers /\ tasks' = [g \in Handlers |-> tasks'[g]]
    BY DEF ReadBindings, Inv, TypeOK
  <2> HIDE DEF r
  <2> QED BY <2>1, <2>2, <2>3
<1>5. Moves(h, r)
  BY <1>1, <1>4 DEF ReadBindings, Moves, AskedFor
<1> HIDE DEF r
<1> QED BY <1>3, <1>5, MovesKeeps

\* A request leaves with a new snapshot, or leaves the refresh undone.
LEMMA LeaveKeeps ==
  ASSUME Inv, NEW h \in Handlers, server = "up",
         tasks' = [tasks EXCEPT ![h] = Idle],
         UNCHANGED <<boot, orgs, nextOrg, domains, content>>,
         adrift' \in BOOLEAN, snapshot' \in [bindings : SUBSET Binding, trees : SUBSET Tree],
         MappedHostHasTree',
         \/ adrift' \/ snapshot' = Snapshot(Bindings)
         \/ UNCHANGED <<snapshot, adrift>> /\ tasks[h].pc \notin {"read", "replace"}
  PROVE  Inv'
<1>0. TypeOK /\ Numbered /\ Bootstrap /\ Asked /\ Closed /\ Claims /\ FreshReads /\ SnapshotFollows
  BY DEF Inv
<1>1. UNCHANGED <<server, hostList, claimed, orgs, nextOrg, domains, content>>
  BY DEF boot
<1>2. tasks' \in [Handlers -> Task] /\ tasks'[h] = Idle
      /\ \A g \in Handlers : g # h => tasks'[g] = tasks[g]
  BY <1>0, IdleTask DEF TypeOK
<1>3. Bindings' = Bindings
  BY <1>1 DEF Bindings, BindingsOf, Existing
<1>4. TypeOK'
  BY <1>0, <1>1, <1>2 DEF TypeOK
<1>5. Numbered' /\ Bootstrap' /\ Closed'
  <2>1. Numbered'
    BY <1>0, <1>1, <1>2, IdleTask DEF Numbered, TypeOK
  <2> QED BY <1>0, <1>1, <2>1 DEF Bootstrap, Closed
<1>6. Asked' /\ FreshReads'
  BY <1>0, <1>2, <1>3, IdleTask DEF Asked, AskedFor, FreshReads
<1>7. Claims'
  BY <1>0, <1>1 DEF Claims, ClaimedHosts, Listed
<1>8. SnapshotFollows'
  <2>1. Snapshot(Bindings)' = Snapshot(Bindings)
    BY <1>3 DEF Snapshot, Trees
  <2>2. CASE adrift' \/ snapshot' = Snapshot(Bindings)
    BY <2>1, <2>2 DEF SnapshotFollows
  <2>3. CASE UNCHANGED <<snapshot, adrift>> /\ tasks[h].pc \notin {"read", "replace"}
    BY <1>0, <1>1, <1>2, <2>1, <2>3 DEF SnapshotFollows, Pending
  <2> QED BY <2>2, <2>3
<1> QED BY <1>4, <1>5, <1>6, <1>7, <1>8 DEF Inv

LEMMA ReplaceVhostsKeeps ==
  ASSUME Inv, NEW h \in Handlers, ReplaceVhosts(h)
  PROVE  Inv'
<1>1. tasks[h] \in Task /\ tasks[h].read \subseteq Binding /\ tasks[h].fresh \in BOOLEAN
  BY DEF Inv, TypeOK, Task
<1>2. tasks[h].fresh => tasks[h].read = Bindings
  BY DEF Inv, FreshReads, ReplaceVhosts, At
<1>3. /\ snapshot' \in [bindings : SUBSET Binding, trees : SUBSET Tree]
      /\ MappedHostHasTree'
  BY <1>1, SnapshotTyped DEF ReplaceVhosts, MappedHostHasTree
<1>4. adrift' \in BOOLEAN /\ (adrift' \/ snapshot' = Snapshot(Bindings))
  BY <1>1, <1>2 DEF ReplaceVhosts
<1> QED BY <1>3, <1>4, LeaveKeeps DEF ReplaceVhosts, At

LEMMA AbortKeeps ==
  ASSUME Inv, NEW h \in Handlers, Abort(h)
  PROVE  Inv'
<1>1. /\ adrift \in BOOLEAN /\ snapshot \in [bindings : SUBSET Binding, trees : SUBSET Tree]
      /\ MappedHostHasTree
  BY DEF Inv, TypeOK
<1>2. UNCHANGED snapshot /\ MappedHostHasTree'
  BY <1>1 DEF Abort, MappedHostHasTree
<1>3. adrift' = (adrift \/ tasks[h].pc \in {"read", "replace"})
  BY DEF Abort
<1> QED BY <1>1, <1>2, <1>3, LeaveKeeps DEF Abort

LEMMA CreateTenantKeeps ==
  ASSUME Inv, NEW h \in Handlers, CreateTenant(h)
  PROVE  Inv'
<1>0. TypeOK /\ Numbered /\ Bootstrap /\ Asked /\ Closed /\ Claims /\ FreshReads
      /\ SnapshotFollows /\ MappedHostHasTree
  BY DEF Inv
<1> PICK key \in Tenants, root \in Roots :
       orgs' = [orgs EXCEPT ![nextOrg] = [key |-> key, root |-> root]]
  BY DEF CreateTenant, FreshId
<1>1. /\ nextOrg \in OrgIds /\ nextOrg' = nextOrg + 1 /\ nextOrg # CmsId
      /\ UNCHANGED <<server, hostList, claimed, domains, content, snapshot, tasks, adrift>>
  BY <1>0 DEF CreateTenant, FreshId, boot, TypeOK, CmsId
<1>2. orgs' \in [OrgIds -> Org \cup {NoOrg}] /\ \A id \in OrgIds : id # nextOrg => orgs'[id] = orgs[id]
  BY <1>0, <1>1 DEF TypeOK, Org
<1>3. Bindings' = Bindings
  <2>1. \A d \in domains : d.org \in OrgIds /\ d.org # nextOrg
    BY <1>0 DEF TypeOK, Numbered, Domain, OrgIds
  <2> QED BY <1>0, <1>1, <1>2, <2>1, SameBindings DEF TypeOK, Existing
<1>4. TypeOK'
  <2>1. nextOrg' \in 3..MaxOrgs + 1
    BY <1>0, <1>1, TenantsAssumption DEF TypeOK, OrgIds
  <2> QED BY <1>0, <1>1, <1>2, <2>1 DEF TypeOK
<1>5. Numbered'
  <2>1. \A id \in OrgIds : id >= nextOrg' => orgs'[id] = NoOrg /\ id \notin content'
    BY <1>0, <1>1, <1>2 DEF TypeOK, Numbered, OrgIds
  <2>2. \A d \in domains' : d.org < nextOrg'
    BY <1>0, <1>1 DEF TypeOK, Numbered, OrgIds, Domain
  <2>3. \A g \in Handlers : tasks'[g].org < nextOrg'
    BY <1>0, <1>1 DEF TypeOK, Numbered, OrgIds, Task
  <2> QED BY <2>1, <2>2, <2>3 DEF Numbered
<1>6. Bootstrap' /\ Asked' /\ Closed' /\ MappedHostHasTree'
  <2>1. CmsId \in OrgIds
    BY TenantsAssumption DEF CmsId, OrgIds
  <2> QED BY <1>0, <1>1, <1>2, <2>1 DEF Bootstrap, Asked, AskedFor, Closed, MappedHostHasTree
<1>7. Claims'
  BY <1>0, <1>1 DEF Claims, ClaimedHosts, Listed
<1>8. FreshReads' /\ SnapshotFollows'
  BY <1>0, <1>1, <1>3 DEF FreshReads, SnapshotFollows, Pending, Snapshot, Trees
<1> QED BY <1>4, <1>5, <1>6, <1>7, <1>8 DEF Inv

LEMMA ContentKeeps ==
  ASSUME Inv, CreateContent \/ DeleteContent
  PROVE  Inv'
<1>0. TypeOK /\ Numbered /\ Bootstrap /\ Asked /\ Closed /\ Claims /\ FreshReads
      /\ SnapshotFollows /\ MappedHostHasTree
  BY DEF Inv
<1>1. UNCHANGED <<server, hostList, claimed, orgs, nextOrg, domains, snapshot, tasks, adrift>>
  BY DEF CreateContent, DeleteContent, boot
<1>2. content' \subseteq content \cup Existing
  BY DEF CreateContent, DeleteContent
<1>3. TypeOK'
  BY <1>0, <1>1, <1>2 DEF TypeOK, Existing
<1>4. Numbered'
  BY <1>0, <1>1, <1>2 DEF Numbered, Existing
<1>5. Bootstrap' /\ Asked' /\ Closed' /\ MappedHostHasTree'
  BY <1>0, <1>1 DEF Bootstrap, Asked, AskedFor, Closed, MappedHostHasTree
<1>6. Claims'
  BY <1>0, <1>1 DEF Claims, ClaimedHosts, Listed
<1>7. FreshReads' /\ SnapshotFollows'
  BY <1>0, <1>1 DEF FreshReads, SnapshotFollows, Pending, Snapshot, Trees, Bindings, BindingsOf, Existing
<1> QED BY <1>3, <1>4, <1>5, <1>6, <1>7 DEF Inv

-----------------------------------------------------------------------------
(* The boot.                                                                *)

LEMMA BootKeeps ==
  ASSUME Inv, Boot
  PROVE  Inv'
<1>0. TypeOK /\ Numbered /\ Bootstrap /\ Asked /\ Closed /\ Claims /\ MappedHostHasTree
  BY DEF Inv
<1>1. /\ server = "down" /\ server' = "seeding" /\ hostList' \in HostLists /\ claimed' = 0
      /\ UNCHANGED <<orgs, nextOrg, domains, content, snapshot, tasks, adrift>>
  BY DEF Boot
<1>2. TypeOK'
  <2>1. hostList' \in Seq(Hosts) /\ claimed' \in 0..Len(hostList')
    BY <1>1, TenantsAssumption
  <2> QED BY <1>0, <1>1, <2>1 DEF TypeOK
<1>3. Numbered' /\ Bootstrap' /\ Asked' /\ Closed' /\ MappedHostHasTree'
  BY <1>0, <1>1 DEF Numbered, Bootstrap, Asked, AskedFor, Closed, MappedHostHasTree
<1>4. Claims'
  BY <1>0, <1>1 DEF Claims
<1>5. FreshReads' /\ SnapshotFollows'
  BY <1>0, <1>1, IdleTask DEF Closed, FreshReads, SnapshotFollows
<1> QED BY <1>2, <1>3, <1>4, <1>5 DEF Inv

LEMMA ClaimHostKeeps ==
  ASSUME Inv, ClaimHost
  PROVE  Inv'
<1>0. TypeOK /\ Numbered /\ Bootstrap /\ Asked /\ Closed /\ Claims /\ MappedHostHasTree
  BY DEF Inv
<1> DEFINE row == [host |-> hostList[claimed + 1], org |-> CmsId, source |-> "config"]
<1>1. /\ server = "seeding" /\ claimed < Len(hostList) /\ claimed' = claimed + 1
      /\ domains' = {d \in domains : d.host # row.host} \cup {row}
      /\ UNCHANGED <<server, hostList, orgs, nextOrg, content, snapshot, tasks, adrift>>
  BY DEF ClaimHost
<1>2. hostList \in Seq(Hosts) /\ claimed \in Nat /\ claimed + 1 \in 1..Len(hostList)
  BY <1>0, <1>1, TenantsAssumption DEF TypeOK
<1>3. row \in Domain /\ row.org < nextOrg
  BY <1>0, <1>2, TenantsAssumption DEF Domain, CmsId, OrgIds, TypeOK
<1>4. TypeOK'
  <2>1. domains' \subseteq Domain
    BY <1>0, <1>1, <1>3 DEF TypeOK
  <2>2. \A d, e \in domains' : d.host = e.host => d = e
    <3> HIDE DEF row
    <3> QED BY <1>0, <1>1 DEF TypeOK
  <2>3. claimed' \in 0..Len(hostList')
    BY <1>1, <1>2
  <2> QED BY <1>0, <1>1, <2>1, <2>2, <2>3 DEF TypeOK
<1>5. Numbered' /\ Bootstrap' /\ Asked' /\ Closed' /\ MappedHostHasTree'
  <2>1. \A d \in domains' : d.org < nextOrg
    BY <1>0, <1>1, <1>3 DEF Numbered
  <2> QED BY <1>0, <1>1, <2>1 DEF Numbered, Bootstrap, Asked, AskedFor, Closed, MappedHostHasTree
<1>6. Claims'
  <2>1. row \in domains' /\ row.source = "config" /\ row.org = CmsId /\ row.host = hostList[claimed + 1]
    BY <1>1
  <2>2. hostList[claimed + 1] \in ClaimedHosts'
    BY <2>1 DEF ClaimedHosts
  <2>3. \A host \in ClaimedHosts : host \in ClaimedHosts'
    <3> SUFFICES ASSUME NEW d \in domains, d.source = "config", d.org = CmsId
                 PROVE  d.host \in ClaimedHosts'
      BY DEF ClaimedHosts
    <3>1. CASE d.host = row.host
      BY <2>2, <3>1
    <3>2. CASE d.host # row.host
      BY <1>1, <3>2 DEF ClaimedHosts
    <3> QED BY <3>1, <3>2
  <2>4. \A i \in 1..claimed' : hostList'[i] \in ClaimedHosts'
    <3> SUFFICES ASSUME NEW i \in 1..claimed + 1 PROVE hostList[i] \in ClaimedHosts'
      BY <1>1
    <3>1. CASE i = claimed + 1
      BY <2>2, <3>1
    <3>2. CASE i \in 1..claimed
      BY <1>0, <1>1, <2>3, <3>2 DEF Claims
    <3> QED BY <1>2, <3>1, <3>2
  <2>5. \A d \in domains' : d.source = "config" => d.org = CmsId
    BY <1>0, <1>1 DEF Claims
  <2> QED BY <1>1, <2>4, <2>5 DEF Claims
<1>7. FreshReads' /\ SnapshotFollows'
  BY <1>0, <1>1, IdleTask DEF Closed, FreshReads, SnapshotFollows
<1> QED BY <1>4, <1>5, <1>6, <1>7 DEF Inv

LEMMA ServeKeeps ==
  ASSUME Inv, Serve
  PROVE  Inv'
<1>0. TypeOK /\ Numbered /\ Bootstrap /\ Asked /\ Closed /\ Claims
  BY DEF Inv
<1>1. /\ server = "seeding" /\ claimed = Len(hostList) /\ server' = "up" /\ domains' = Kept
      /\ snapshot' = Snapshot(BindingsOf(Kept)) /\ adrift' = FALSE
      /\ UNCHANGED <<hostList, claimed, orgs, nextOrg, content, tasks>>
  BY DEF Serve
<1>2. Kept \subseteq domains /\ Kept \subseteq Domain
  BY <1>0 DEF Kept, TypeOK
<1>3. /\ snapshot' \in [bindings : SUBSET Binding, trees : SUBSET Tree]
      /\ MappedHostHasTree'
  <2>1. BindingsOf(Kept) \subseteq Binding
    BY <1>0, <1>2, BindingsTyped DEF TypeOK
  <2> QED BY <1>1, <2>1, SnapshotTyped DEF MappedHostHasTree
<1>4. TypeOK'
  BY <1>0, <1>1, <1>2, <1>3 DEF TypeOK
<1>5. Numbered' /\ Bootstrap' /\ Asked' /\ Closed'
  BY <1>0, <1>1, <1>2 DEF Numbered, Bootstrap, Asked, AskedFor, Closed
<1>6. Claims'
  <2>1. \A host \in Listed : host \in ClaimedHosts
    BY <1>0, <1>1 DEF Listed, Claims
  <2>2. ClaimedHosts' = {d.host : d \in {x \in Kept : x.source = "config" /\ x.org = CmsId}}
    BY <1>1 DEF ClaimedHosts
  <2>3. \A host \in ClaimedHosts' : host \in Listed
    BY <2>2 DEF Kept
  <2>4. \A host \in Listed : host \in ClaimedHosts'
    BY <2>1, <2>2 DEF Kept, ClaimedHosts
  <2>5. Listed' = Listed
    BY <1>1 DEF Listed
  <2> QED BY <1>0, <1>1, <1>2, <2>3, <2>4, <2>5 DEF Claims
<1>7. FreshReads' /\ SnapshotFollows'
  <2>1. (Snapshot(Bindings))' = Snapshot(BindingsOf(Kept))
    BY <1>1 DEF Bindings, BindingsOf, Existing, Snapshot, Trees
  <2> QED BY <1>0, <1>1, <2>1, IdleTask DEF Closed, FreshReads, SnapshotFollows
<1> QED BY <1>3, <1>4, <1>5, <1>6, <1>7 DEF Inv

LEMMA CrashKeeps ==
  ASSUME Inv, Crash
  PROVE  Inv'
<1>0. TypeOK /\ Numbered /\ Bootstrap /\ Claims
  BY DEF Inv
<1>1. /\ server' = "down" /\ claimed' = 0 /\ snapshot' = Snapshot({}) /\ adrift' = FALSE
      /\ tasks' = [h \in Handlers |-> Idle]
      /\ UNCHANGED <<hostList, orgs, nextOrg, domains, content>>
  BY DEF Crash
<1>2. tasks' \in [Handlers -> Task] /\ \A h \in Handlers : tasks'[h] = Idle
  BY <1>1, IdleTask
<1>3. /\ snapshot' \in [bindings : SUBSET Binding, trees : SUBSET Tree]
      /\ MappedHostHasTree'
  BY <1>1, SnapshotTyped DEF MappedHostHasTree
<1>4. TypeOK'
  <2>1. 0 \in 0..Len(hostList)
    BY <1>0, TenantsAssumption DEF TypeOK
  <2> QED BY <1>0, <1>1, <1>2, <1>3, <2>1 DEF TypeOK
<1>5. Numbered' /\ Bootstrap' /\ Closed' /\ Claims'
  BY <1>0, <1>1, <1>2, IdleTask DEF Numbered, Bootstrap, Closed, Claims, TypeOK
<1>6. Asked' /\ FreshReads' /\ SnapshotFollows'
  BY <1>1, <1>2, IdleTask DEF Asked, AskedFor, FreshReads, SnapshotFollows
<1> QED BY <1>3, <1>4, <1>5, <1>6 DEF Inv

-----------------------------------------------------------------------------

LEMMA StutterKeeps ==
  ASSUME Inv, UNCHANGED vars
  PROVE  Inv'
<1>1. UNCHANGED <<server, hostList, claimed, orgs, nextOrg, domains, content, snapshot, tasks, adrift>>
  BY DEF vars
<1>2. TypeOK' /\ Numbered'
  BY <1>1 DEF Inv, TypeOK, Numbered
<1>3. Bootstrap' /\ Asked' /\ Closed' /\ MappedHostHasTree'
  BY <1>1 DEF Inv, Bootstrap, Asked, AskedFor, Closed, MappedHostHasTree
<1>4. Claims'
  BY <1>1 DEF Inv, Claims, ClaimedHosts, Listed
<1>5. FreshReads' /\ SnapshotFollows'
  BY <1>1 DEF Inv, FreshReads, SnapshotFollows, Pending, Snapshot, Trees, Bindings, BindingsOf, Existing
<1> QED BY <1>2, <1>3, <1>4, <1>5 DEF Inv

LEMMA RequestKeeps ==
  ASSUME Inv, NEW h \in Handlers,
         \/ UpdateTenant(h) \/ DeleteTenant(h) \/ AddTenantDomain(h) \/ RemoveTenantDomain(h)
  PROVE  Inv'
<1>1. CASE UpdateTenant(h)
  BY <1>1, EnterKeeps DEF UpdateTenant
<1>2. CASE DeleteTenant(h)
  BY <1>2, EnterKeeps DEF DeleteTenant
<1>3. CASE AddTenantDomain(h)
  BY <1>3, EnterKeeps DEF AddTenantDomain
<1>4. CASE RemoveTenantDomain(h)
  BY <1>4, EnterKeeps DEF RemoveTenantDomain
<1> QED BY <1>1, <1>2, <1>3, <1>4

LEMMA Inductive == Inv /\ [Next]_vars => Inv'
<1> SUFFICES ASSUME Inv, [Next]_vars PROVE Inv'
  OBVIOUS
<1>1. CASE UNCHANGED vars
  BY <1>1, StutterKeeps
<1>2. CASE Boot \/ ClaimHost \/ Serve \/ Crash
  BY <1>2, BootKeeps, ClaimHostKeeps, ServeKeeps, CrashKeeps
<1>3. CASE CreateContent \/ DeleteContent
  BY <1>3, ContentKeeps
<1>4. ASSUME NEW h \in Handlers,
             \/ UpdateTenant(h) \/ DeleteTenant(h) \/ AddTenantDomain(h) \/ RemoveTenantDomain(h)
      PROVE  Inv'
  BY <1>4, RequestKeeps
<1>5. ASSUME NEW h \in Handlers,
             \/ CreateTenant(h) \/ Update(h) \/ CountContent(h) \/ Delete(h)
             \/ InsertDomain(h) \/ RemoveDomain(h)
      PROVE  Inv'
  BY <1>5, CreateTenantKeeps, UpdateKeeps, CountContentKeeps, DeleteKeeps, InsertDomainKeeps,
     RemoveDomainKeeps
<1>6. ASSUME NEW h \in Handlers, ReadBindings(h) \/ ReplaceVhosts(h) \/ Abort(h)
      PROVE  Inv'
  BY <1>6, ReadBindingsKeeps, ReplaceVhostsKeeps, AbortKeeps
<1> QED BY <1>1, <1>2, <1>3, <1>4, <1>5, <1>6 DEF Next

LEMMA Invariance == Spec => []Inv
BY InitInv, Inductive, PTL DEF Spec

\* After a boot, and whatever the panel, the crashes and the earlier boots did,
\* the [cms] hosts list is served by config rows of the CMS organization, and a
\* host that is mapped to a tenant has the tenant's tree (state.rs, db.rs).
THEOREM HostsReachTheirOrganization == Spec => []HostsServed
<1>1. Inv => HostsServed
  BY DEF Inv, Claims, ClaimedHosts, HostsServed, ListedHostsServed
<1> QED BY <1>1, Invariance, PTL

\* The live table is what the rows say once no request stands between its write
\* and its refresh, save when a refresh was cut off or crossed another one.
THEOREM SnapshotKeptUp == Spec => []SnapshotCurrent
<1>1. Inv => SnapshotCurrent
  BY DEF Inv, SnapshotFollows, SnapshotCurrent, Pending
<1> QED BY <1>1, Invariance, PTL

\* A new tenant finds no row and no content under its id.
THEOREM NobodyInherits == Spec => StartsEmpty
<1> DEFINE Step == \A id \in OrgIds : orgs[id] = NoOrg /\ orgs'[id] # NoOrg
                       => id \notin content /\ \A d \in domains : d.org # id
<1>1. Inv /\ [Next]_vars => [Step]_vars
  <2> SUFFICES ASSUME Inv, Next, NEW id \in OrgIds, orgs[id] = NoOrg, orgs'[id] # NoOrg
               PROVE  id \notin content /\ \A d \in domains : d.org # id
    OBVIOUS
  <2>1. \E h \in Handlers : CreateTenant(h)
    <3>1. orgs \in [OrgIds -> Org \cup {NoOrg}]
      BY DEF Inv, TypeOK
    <3>2. ~(UNCHANGED orgs)
      OBVIOUS
    <3>3. ASSUME NEW h \in Handlers, Update(h) PROVE FALSE
      BY <3>1, <3>3 DEF Update, Find, Existing
    <3>4. ASSUME NEW h \in Handlers, Delete(h) PROVE FALSE
      BY <3>1, <3>4 DEF Delete
    <3> QED
      BY <3>2, <3>3, <3>4 DEF Next, Boot, ClaimHost, Serve, Crash, CreateContent, DeleteContent, UpdateTenant,
         DeleteTenant, AddTenantDomain, RemoveTenantDomain, CountContent, InsertDomain, RemoveDomain,
         ReadBindings, ReplaceVhosts, Abort
  <2>2. id = nextOrg
    BY <2>1 DEF CreateTenant, FreshId, Inv, TypeOK
  <2>3. id >= nextOrg /\ \A d \in domains : d.org < nextOrg /\ d.org \in Nat
    BY <2>2 DEF Inv, Numbered, TypeOK, Domain, OrgIds
  <2> QED BY <2>2, <2>3 DEF Inv, Numbered
<1>2. StartsEmpty <=> [][Step]_vars
  BY PTL DEF StartsEmpty
<1> QED BY <1>1, <1>2, Invariance, PTL DEF Spec
=============================================================================
