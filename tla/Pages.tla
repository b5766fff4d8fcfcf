--------------------------------- MODULE Pages ---------------------------------
(***************************************************************************)
(* The pages of the CMS: the tree, the publication state and the history of  *)
(* revisions, as the editor's panel (src/src/routes/cms.rs) and the page     *)
(* repository (src/src/db.rs) write them.                                    *)
(*                                                                          *)
(* A save checks its parent with one statement per ancestor and writes later,*)
(* in a transaction that appends the revision and prunes the history; the    *)
(* panel's requests interleave between those steps.  Of the editable fields  *)
(* the parent and the publication state are kept; a taken slug is one of the *)
(* failures of a save.  A refused request changes nothing: the refusals are  *)
(* the guards and Leave.                                                     *)
(*                                                                          *)
(* The walk up the ancestors has a budget of hops; a walk that spends it     *)
(* answers the part of the chain it has seen, and the save goes ahead.  The  *)
(* listings read the pages last updated, up to a LIMIT.                      *)
(***************************************************************************)
EXTENDS Naturals, FiniteSets

CONSTANTS Editors,      \* requests of the panel in flight
          Orgs,         \* the organizations
          States,       \* the publication states an editor enters: [published, due]
          MaxPages,     \* bound: pages ever created
          MaxSaves,     \* bound: revisions ever recorded
          MaxRevisions, \* [cms] max_revisions; 0 keeps everything
          MaxHops,      \* MAX_ANCESTOR_HOPS
          LastSecond    \* bound: the clock stops there

ASSUME PagesAssumption ==
    /\ MaxPages \in Nat \ {0} /\ MaxSaves \in Nat /\ MaxRevisions \in Nat
    /\ LastSecond \in Nat \ {0}
    /\ States \subseteq [published : BOOLEAN, due : 0..LastSecond]
    /\ MaxHops \in Nat \ {0}
    /\ "none" \notin Orgs

VARIABLES
    pages,      \* id -> the row, NoPage without one
    nextPage,   \* AUTOINCREMENT
    history,    \* id -> the rows of page_revisions
    saves,      \* revisions recorded so far
    now,        \* unix_now()
    tasks,      \* the requests in flight
    overlapped, \* a save was decided on rows another save has since written
    ranOut      \* a save was decided on a walk that spent its hops below the top

vars == <<pages, nextPage, history, saves, now, tasks, overlapped, ranOut>>

Ids == 1..MaxPages
Top == 0                     \* parent_id NULL
Never == 0                   \* publish_at NULL
Times == 1..LastSecond
NoPage == [org |-> "none"]

Row == [org : Orgs, parent : Ids \cup {Top}, published : BOOLEAN,
        due : Times \cup {Never}]
Form == [parent : Ids \cup {Top}, published : BOOLEAN, due : Times \cup {Never}]
Draft == [parent |-> Top, published |-> FALSE, due |-> Never]
Revision == [number : 1..MaxSaves, parent : Ids \cup {Top}]

Task == [pc     : {"idle", "editing", "parent", "walk", "write"},
         kind   : {"none", "create", "update", "restore"},
         org    : Orgs \cup {"none"}, page : Ids \cup {0}, form : Form,
         at     : Ids \cup {0},    \* where the ancestor walk stands
         hops   : 0..MaxHops,
         shown  : Times \cup {Never}, \* when the form, sent back intact, was rendered
         short  : BOOLEAN,         \* the walk spent its hops below the top
         stale  : BOOLEAN]         \* a save landed since the request looked

Idle == [pc |-> "idle", kind |-> "none", org |-> "none", page |-> 0, form |-> Draft,
         at |-> 0, hops |-> 0, shown |-> Never, short |-> FALSE, stale |-> FALSE]

Exists(id) == id \in Ids /\ pages[id] # NoPage

TypeOK ==
    /\ pages \in [Ids -> Row \cup {NoPage}]
    /\ nextPage \in 1..MaxPages + 1
    /\ history \in [Ids -> SUBSET Revision]
    /\ saves \in 0..MaxSaves
    /\ now \in Times
    /\ tasks \in [Editors -> Task]
    /\ overlapped \in BOOLEAN /\ ranOut \in BOOLEAN

-----------------------------------------------------------------------------
(* The repository's reads.                                                  *)

\* load_page, find_by_id: a row of another organization is a missing row.
Find(org, id) == Exists(id) /\ pages[id].org = org

\* PUBLIC_VISIBLE: the flag, or a schedule that has elapsed at the read.
Visible(row, time) == row.published \/ (row.due # Never /\ row.due <= time)

\* Slip: the checkbox states the stored flag, not what visitors see.
StoredForm(row, time) == [parent |-> row.parent, published |-> row.published,
                          due |-> row.due]

\* edit_page_form: the checkbox states the effective visibility.
EditForm(row, time) == [parent |-> row.parent, published |-> Visible(row, time),
                        due |-> row.due]

\* normalize_schedule: a published page carries none, a past one is spent.
Normalized(published, due, time) ==
    IF ~published /\ due > time THEN due ELSE Never

\* page_history and page_revision: the revisions of a page the editor may open.
Snapshots(org, id) == IF Find(org, id) THEN history[id] ELSE {}

-----------------------------------------------------------------------------
(* The repository's writes: one transaction each.                           *)

\* MAX(revision) of a page's revisions.
Newest(revisions) == CHOOSE r \in revisions : \A s \in revisions : s.number <= r.number

NextNumber(revisions) == IF revisions = {} THEN 1 ELSE Newest(revisions).number + 1

\* Slip: the floor is off by one and a row too many stays.
RecordedLate(revisions, parent) ==
    LET number == NextNumber(revisions)
    IN  {r \in revisions \cup {[number |-> number, parent |-> parent]} :
            MaxRevisions = 0 \/ r.number + MaxRevisions >= number}

\* record_revision and prune_revisions: MAX(revision) + 1 is appended and the
\* rows at or below number - max_revisions go.
Recorded(revisions, parent) ==
    LET number == NextNumber(revisions)
    IN  {r \in revisions \cup {[number |-> number, parent |-> parent]} :
            MaxRevisions = 0 \/ r.number + MaxRevisions > number}

\* The row and its revision land together, or the save fails as a whole: a
\* parent that is gone (the foreign key), a taken slug (Leave).
Save(id, row) ==
    /\ saves < MaxSaves
    /\ row.parent = Top \/ Exists(row.parent)
    /\ pages' = [pages EXCEPT ![id] = row]
    /\ history' = [history EXCEPT ![id] = Recorded(@, row.parent)]
    /\ saves' = saves + 1

\* Every other request in flight has looked at rows that are now older.
Finished(e) == [o \in Editors |->
    IF o = e THEN Idle
    ELSE [tasks[o] EXCEPT !.stale = tasks[o].pc # "idle"]]

-----------------------------------------------------------------------------
(* The panel.                                                               *)

Init ==
    /\ pages = [id \in Ids |-> NoPage]
    /\ nextPage = 1
    /\ history = [id \in Ids |-> {}]
    /\ saves = 0
    /\ now = 1
    /\ tasks = [e \in Editors |-> Idle]
    /\ overlapped = FALSE /\ ranOut = FALSE

\* What an editor fills in: any parent, any of the States.
Entered == {[parent |-> p, published |-> s.published, due |-> s.due] :
               p \in Ids \cup {Top}, s \in States}

Step(e, task) == /\ tasks' = [tasks EXCEPT ![e] = task]
                 /\ UNCHANGED <<pages, nextPage, history, saves, now, overlapped, ranOut>>

\* Where a request goes whose form names this parent: None is always legal.
Checked(task) == [task EXCEPT !.pc = IF task.form.parent = Top THEN "write" ELSE "parent"]

\* create_page: a valid form; the schedule is normalized on the way.
StartCreate(e) ==
    /\ tasks[e].pc = "idle"
    /\ \E org \in Orgs, form \in Entered :
          Step(e, Checked([Idle EXCEPT !.kind = "create", !.org = org, !.form = form]))

\* import_page: a file of public/ lands as a plain top-level draft.
Import(e) ==
    /\ tasks[e].pc = "idle"
    /\ \E org \in Orgs :
          Step(e, [Idle EXCEPT !.kind = "create", !.org = org, !.pc = "write"])

\* edit_page_form: the form as rendered now.
ShowForm(e) ==
    /\ tasks[e].pc = "idle"
    /\ \E org \in Orgs, id \in Ids :
          /\ Find(org, id)
          /\ Step(e, [Idle EXCEPT !.pc = "editing", !.kind = "update", !.org = org,
                                  !.page = id, !.form = EditForm(pages[id], now),
                                  !.shown = now])

\* update_page: the form comes back, as rendered or edited; a page is not its
\* own parent.
Submit(e) ==
    /\ tasks[e].pc = "editing"
    /\ \E form \in Entered \cup {tasks[e].form} :
          /\ form.parent # tasks[e].page
          /\ Step(e, Checked([tasks[e] EXCEPT !.form = form,
                !.shown = IF form = tasks[e].form THEN @ ELSE Never]))

\* restore_revision: the snapshot's fields and parent, the page's own state.
StartRestore(e) ==
    /\ tasks[e].pc = "idle"
    /\ \E org \in Orgs, id \in Ids : \E r \in Snapshots(org, id) :
          /\ r.parent # id
          /\ Step(e, Checked([Idle EXCEPT !.kind = "restore", !.org = org, !.page = id,
                !.form = [parent |-> r.parent, published |-> pages[id].published,
                          due |-> pages[id].due]]))

\* Slip: the parent exists, that is enough.
LoadParentOnly(e) ==
    /\ tasks[e].pc = "parent"
    /\ Find(tasks[e].org, tasks[e].form.parent)
    /\ Step(e, [tasks[e] EXCEPT !.pc = "write"])

\* load_page of the stated parent; a new page has nothing below it yet.
LoadParent(e) ==
    /\ tasks[e].pc = "parent"
    /\ Find(tasks[e].org, tasks[e].form.parent)
    /\ Step(e, IF tasks[e].kind = "create" THEN [tasks[e] EXCEPT !.pc = "write"]
               ELSE [tasks[e] EXCEPT !.pc = "walk", !.at = tasks[e].form.parent])

\* ancestors: one statement per hop, until the top, a missing row, a page that
\* is its own parent or the hop budget, which ends it like the top does (the
\* constant's comment speaks of an error); the moved page in the chain refuses.
Climb(e) ==
    /\ tasks[e].pc = "walk"
    /\ LET task == tasks[e]
           found == Find(task.org, task.at)
           next == IF found THEN pages[task.at].parent ELSE Top
       IN  /\ task.at # task.page
           /\ Step(e, IF next \in {Top, task.at} \/ task.hops + 1 = MaxHops
                      THEN [task EXCEPT !.at = 0, !.hops = 0, !.pc = "write",
                                        !.short = next \notin {Top, task.at}]
                      ELSE [task EXCEPT !.at = next, !.hops = @ + 1])

\* The request ends without a write: refused, failed, or the client left.
Leave(e) == tasks[e].pc # "idle" /\ Step(e, Idle)

\* create: the row under a fresh id, and revision 1.
Insert(e) ==
    /\ tasks[e].pc = "write" /\ tasks[e].kind = "create"
    /\ nextPage <= MaxPages
    /\ LET form == tasks[e].form
       IN  Save(nextPage, [org |-> tasks[e].org, parent |-> form.parent,
                           published |-> form.published,
                           due |-> Normalized(form.published, form.due, now)])
    /\ nextPage' = nextPage + 1
    /\ tasks' = Finished(e)
    /\ UNCHANGED <<now, overlapped, ranOut>>

\* update: zero rows for a page that vanished, else the row and its revision.
Update(e) ==
    /\ tasks[e].pc = "write" /\ tasks[e].kind \in {"update", "restore"}
    /\ Find(tasks[e].org, tasks[e].page)
    /\ LET form == tasks[e].form
           due == IF tasks[e].kind = "restore" THEN form.due
                  ELSE Normalized(form.published, form.due, now)
       IN  Save(tasks[e].page, [org |-> tasks[e].org, parent |-> form.parent, published |-> form.published,
                                due |-> due])
    /\ overlapped' = (overlapped \/ tasks[e].stale)
    /\ ranOut' = (ranOut \/ tasks[e].short)
    /\ tasks' = Finished(e)
    /\ UNCHANGED <<nextPage, now>>

\* delete_page: the children move to the top level (ON DELETE SET NULL), the
\* history goes with the row (CASCADE).
Delete(e) ==
    /\ tasks[e].pc = "idle"
    /\ \E org \in Orgs, id \in Ids :
          /\ Find(org, id)
          /\ pages' = [p \in Ids |->
                IF p = id THEN NoPage
                ELSE IF Exists(p) /\ pages[p].parent = id THEN [pages[p] EXCEPT !.parent = Top]
                ELSE pages[p]]
          /\ history' = [history EXCEPT ![id] = {}]
    /\ UNCHANGED <<nextPage, saves, now, tasks, overlapped, ranOut>>

Tick == /\ now < LastSecond
        /\ now' = now + 1
        /\ UNCHANGED <<pages, nextPage, history, saves, tasks, overlapped, ranOut>>

Next ==
    \/ \E e \in Editors :
          \/ StartCreate(e) \/ Import(e) \/ ShowForm(e) \/ Submit(e) \/ StartRestore(e)
          \/ LoadParent(e) \/ Climb(e) \/ Leave(e) \/ Insert(e) \/ Update(e) \/ Delete(e)
    \/ Tick

Spec == Init /\ [][Next]_vars

-----------------------------------------------------------------------------
(* What the panel and the public routes read (the LIMITs of the public       *)
(* routes, which page through their rows, left out).                         *)

Owned(org) == {id \in Ids : Exists(id) /\ pages[id].org = org}

\* list and list_paged: drafts for the panel, the visible rows for visitors.
Summaries(org, drafts) == {id \in Owned(org) : drafts \/ Visible(pages[id], now)}

SearchHits(org, drafts) == {id \in Owned(org) : Visible(pages[id], now) \/ drafts}

FeedEntries(org) == {id \in Owned(org) : Visible(pages[id], now)}

CountPublished(org) == Cardinality({id \in Owned(org) : Visible(pages[id], now)})

\* scheduled_pending and count_scheduled: the mirror image.
Pending(org) == {id \in Owned(org) : /\ ~pages[id].published
                                     /\ pages[id].due > now}

Children(org, parent, drafts) ==
    {id \in Summaries(org, drafts) : pages[id].parent = parent}

\* list under a LIMIT: all the pages, or that many of them (the last updated).
Listings(org, limit) ==
    {listed \in SUBSET Owned(org) :
        \/ listed = Owned(org) /\ Cardinality(listed) <= limit
        \/ Cardinality(listed) = limit}

\* walk_page_tree and walk_parent_options: depth first from the top through the
\* rows at hand, the excluded page and all below it left out.
Walk(listed, exclude) ==
    LET below[n \in 0..MaxPages] ==
            IF n = 0 THEN {Top}
            ELSE below[n - 1] \cup
                 {id \in listed \ {exclude} : pages[id].parent \in below[n - 1]}
    IN  below[MaxPages] \ {Top}

ListPages(listed) == Walk(listed, 0)

ParentOptions(listed, id) == Walk(listed, id)

PageIndex(org) == Summaries(org, FALSE)

SearchPage(org) == SearchHits(org, FALSE)

\* Slip: only the stored flag counts.
SitemapFlagged(org) == {id \in Owned(org) : pages[id].published}

Sitemap(org) == Summaries(org, FALSE)

RssFeed(org) == FeedEntries(org)

AtomFeed(org) == FeedEntries(org)

\* render_public_page: a draft is a missing page but for an editor of the
\* organization, who also sees the drafts below it.
PublicPage(org, id, editor) ==
    [opens    |-> editor \/ pages[id].published
                        \/ (pages[id].due # Never /\ pages[id].due <= now),
     children |-> Children(org, id, editor)]

Dashboard(org) ==
    [pages |-> Cardinality(Owned(org)), published |-> CountPublished(org),
     drafts |-> Cardinality(Owned(org)) - CountPublished(org),
     scheduled |-> Cardinality(Pending(org))]

-----------------------------------------------------------------------------
(* Properties.                                                              *)

\* Where parent_id leads from the page, in one or more steps.
Above(id) ==
    LET f[n \in 0..MaxPages] ==
            IF n = 0 THEN {id}
            ELSE f[n - 1] \cup {pages[p].parent : p \in {q \in f[n - 1] : Exists(q)}}
    IN  {pages[p].parent : p \in {q \in f[MaxPages] : Exists(q)}}

Acyclic == \A id \in Ids : id \notin Above(id)

\* The migration that introduced parent_id calls the check-then-write safe in
\* practice under SQLite's single writer: the tree never grows a cycle.
NoCycleUnderSingleWriter == Acyclic

TrueHistory(id) ==
    LET revisions == history[id]
        parent == Newest(revisions).parent
    IN  /\ Exists(id) <=> revisions # {}
        /\ \A r, s \in revisions : r.number = s.number => r = s
        /\ \A r \in revisions :
              r = Newest(revisions) \/ \E s \in revisions : s.number = r.number + 1
        /\ MaxRevisions > 0 => Cardinality(revisions) <= MaxRevisions
        /\ Exists(id) => \/ parent = pages[id].parent
                         \/ pages[id].parent = Top /\ ~Exists(parent)

\* On well-typed states the history tells the truth about the page, also between
\* concurrent saves: its newest revision names the parent as last saved (only one
\* deleted since may differ), its numbers are unique and leave no gap, and it
\* never outgrows max_revisions.
HistoryMatches == TypeOK /\ \A id \in Ids : TrueHistory(id)

\* The pages all of whose ancestors are among those listed.
Whole(listed) == {id \in listed : Above(id) \ {Top} \subseteq listed}

\* Saves that did not overlap, and whose ancestor walk did not spend its hops
\* below the top, never make a page its own ancestor, whatever is moved, restored
\* or deleted, and the panel shows the tree it guards.  Whatever the LIMIT of a
\* listing (MAX_LISTED) and the rows it lets through, a page has a row as soon as
\* its ancestors are among them, every page of the organization has one when the
\* LIMIT takes them all, and the parents the form of a page offers are, of the
\* pages with a row, exactly those a save would accept now.
PanelShowsTheTree ==
    overlapped \/ ranOut \/
    /\ Acyclic
    /\ \A org \in Orgs, limit \in 1..MaxPages : \A listed \in Listings(org, limit) :
          /\ ListPages(listed) = Whole(listed)
          /\ listed = Owned(org) => ListPages(listed) = Owned(org)
          /\ \A id \in Owned(org) :
                ParentOptions(listed, id) = {p \in Whole(listed) \ {id} : id \notin Above(p)}

\* What visitors are shown opens, and what opens is shown: index, search and
\* sitemap list exactly the pages whose address does not answer 404, feeds and
\* the children of a page no others, and the dashboard counts the same pages,
\* at every second of a schedule.
VisitorsAgree ==
    \A org \in Orgs :
        LET open == {id \in Owned(org) : PublicPage(org, id, FALSE).opens}
            counts == Dashboard(org)
        IN  /\ PageIndex(org) = open /\ SearchPage(org) = open /\ Sitemap(org) = open
            /\ RssFeed(org) \subseteq open /\ AtomFeed(org) \subseteq open
            /\ \A id \in open : PublicPage(org, id, FALSE).children \subseteq open
            /\ counts.published = Cardinality(open)
            /\ counts.scheduled <= counts.drafts

Saved(e, kind) == tasks[e].pc = "write" /\ tasks[e].kind = kind /\ saves' = saves + 1
                  /\ tasks'[e].pc = "idle"

\* Visitors keep what nobody meant to change: a restore leaves the state of
\* publication alone, and an edit form sent back as it was rendered does not
\* take the page off or put it up, also when its schedule has published it;
\* unless another save landed, or the clock moved, since the request looked.
UntouchedKeepsVisibility ==
    [][\A e \in Editors : ~tasks[e].stale =>
          LET before == pages[tasks[e].page]
              after  == pages'[tasks[e].page]
          IN  /\ Saved(e, "restore") =>
                    after.published = before.published /\ after.due = before.due
              /\ Saved(e, "update") /\ tasks[e].shown = now =>
                    Visible(after, now) = Visible(before, now)]_vars
=============================================================================
