----------------------------- MODULE ContentProofs -----------------------------
(***************************************************************************)
(* What the editors keep, for any number of requests, organizations, pages,  *)
(* revisions, menus, items and uploads.                                     *)
(*                                                                          *)
(* Pages: the history is right because MAX(revision) + 1 follows what        *)
(* pruning left (Series) and no id is handed out twice, so that a parent     *)
(* that is gone stays gone (Fresh, Told).  The publication is safe because   *)
(* what an untouched request carries still agrees with the row, or the       *)
(* request is stale (Carries).  The tree has no loop because the ancestor    *)
(* walk leaves behind it a set of pages without the moved one (Behind), which *)
(* has everything above the new parent once the walk ends at the top or at a *)
(* page that is gone (TreeInv); what a listing shows follows for any rows    *)
(* that it reads (WalkComplete, WalkWithin).                                 *)
(*                                                                          *)
(* Library: what a request has validated stays true of a page and a menu     *)
(* until they are gone, and gone they stay (Validated).  An upload is in the *)
(* hands of one request at a time, before its row and after (InHand).        *)
(***************************************************************************)
EXTENDS Pages, Library, FiniteSetTheorems, WellFoundedInduction, TLAPS

-----------------------------------------------------------------------------
(* Pages.                                                                   *)

\* Revisions numbered without a gap up to the newest, within max_revisions.
Series(revisions) ==
    /\ \A r, s \in revisions : r.number = s.number => r = s
    /\ revisions # {} =>
          /\ Newest(revisions) \in revisions
          /\ \A r \in revisions :
                /\ r.number <= Newest(revisions).number
                /\ r = Newest(revisions) \/ \E s \in revisions : s.number = r.number + 1
                /\ MaxRevisions > 0 => r.number + MaxRevisions > Newest(revisions).number

Counted(id) ==
    /\ Series(history[id])
    /\ \A r \in history[id] : r.number <= saves /\ r.parent < nextPage

Told(id) ==
    /\ Exists(id) <=> history[id] # {}
    /\ Exists(id) => \/ Newest(history[id]).parent = pages[id].parent
                     \/ pages[id].parent = Top /\ ~Exists(Newest(history[id]).parent)

Fresh == \A id \in Ids : Exists(id) => id < nextPage

\* What a request that nobody overtook carries of the publication of its page.
Carries(t) ==
    ~t.stale /\ Exists(t.page) =>
        /\ t.kind = "restore" => /\ t.form.published = pages[t.page].published
                                 /\ t.form.due = pages[t.page].due
        /\ t.kind = "update" /\ t.shown # Never =>
               t.form.published = Visible(pages[t.page], t.shown)

Staged(t) ==
    /\ IF t.pc = "walk" THEN t.hops < MaxHops ELSE t.hops = 0
    /\ IF t.pc = "idle" THEN t.kind = "none" ELSE t.org \in Orgs
    /\ t.pc = "editing" => t.kind = "update"
    /\ t.pc \notin {"idle", "editing"} => t.kind # "none"

TaskOK(t) == t \in Task /\ Staged(t) /\ Carries(t)

Inv ==
    /\ TypeOK
    /\ Fresh
    /\ \A id \in Ids : Counted(id) /\ Told(id)
    /\ \A e \in Editors : Staged(tasks[e]) /\ Carries(tasks[e])

-----------------------------------------------------------------------------
(* record_revision and prune_revisions.                                     *)

LEMMA NewestIs ==
  ASSUME NEW S \in SUBSET Revision, NEW m \in S, \A s \in S : s.number <= m.number,
         \A r, s \in S : r.number = s.number => r = s
  PROVE  Newest(S) = m
<1>1. Newest(S) \in S /\ \A s \in S : s.number <= Newest(S).number
  BY DEF Newest
<1>2. Newest(S).number = m.number
  BY <1>1, PagesAssumption DEF Revision
<1> QED BY <1>1, <1>2

LEMMA RecordedSeries ==
  ASSUME NEW S \in SUBSET Revision, Series(S), NEW parent \in Ids \cup {Top},
         NEW n \in Nat, \A r \in S : r.number <= n, n < MaxSaves
  PROVE  /\ Recorded(S, parent) \in SUBSET Revision
         /\ Series(Recorded(S, parent))
         /\ Recorded(S, parent) # {} /\ Newest(Recorded(S, parent)).parent = parent
         /\ \A r \in Recorded(S, parent) : r.number <= n + 1 /\ (r \in S \/ r.parent = parent)
<1> DEFINE number == NextNumber(S)
           new == [number |-> number, parent |-> parent]
           T == Recorded(S, parent)
<1>0. \A r \in S : r.number \in 1..MaxSaves /\ r.number \in Nat /\ r.parent \in Ids \cup {Top}
  BY PagesAssumption DEF Revision
<1>1. /\ number \in 1..MaxSaves /\ number \in Nat /\ number <= n + 1
      /\ \A r \in S : r.number < number
  <2>1. CASE S = {}
    BY <2>1, PagesAssumption DEF NextNumber
  <2>2. CASE S # {}
    <3>1. Newest(S) \in S /\ number = Newest(S).number + 1
      BY <2>2 DEF Series, NextNumber
    <3>2. \A r \in S : r.number <= Newest(S).number
      BY <2>2 DEF Series
    <3> HIDE DEF number
    <3> QED BY <1>0, <3>1, <3>2, PagesAssumption
  <2> QED BY <2>1, <2>2
<1>2. T = {r \in S \cup {new} : MaxRevisions = 0 \/ r.number + MaxRevisions > number}
  BY DEF Recorded
<1>3. new \in Revision /\ new.number = number /\ new.parent = parent
  BY <1>1 DEF Revision
<1> HIDE DEF number, new, T
<1>4. new \in T
  BY <1>1, <1>2, <1>3, PagesAssumption
<1>5. T \in SUBSET Revision
  BY <1>2, <1>3
<1>6. \A r \in T : r \in S \/ r = new
  BY <1>2
<1>7. \A r \in T : r.number <= number
  BY <1>0, <1>1, <1>3, <1>6
<1>8. \A r, s \in T : r.number = s.number => r = s
  BY <1>0, <1>1, <1>3, <1>6 DEF Series
<1>9. Newest(T) = new
  BY <1>3, <1>4, <1>5, <1>7, <1>8, NewestIs
<1>10. ASSUME NEW r \in T PROVE r = new \/ \E s \in T : s.number = r.number + 1
  <2>1. CASE r = new
    BY <2>1
  <2>2. CASE r \in S
    <3>0. S # {} /\ Newest(S) \in S /\ number = Newest(S).number + 1
      BY <2>2 DEF Series, NextNumber, number
    <3>1. CASE r = Newest(S)
      BY <1>3, <1>4, <3>0, <3>1
    <3>2. CASE \E s \in S : s.number = r.number + 1
      <4> PICK s \in S : s.number = r.number + 1
        BY <3>2
      <4>1. MaxRevisions = 0 \/ r.number + MaxRevisions > number
        BY <1>2
      <4>2. s \in T
        BY <1>0, <1>1, <1>2, <2>2, <4>1, PagesAssumption
      <4> QED BY <4>2
    <3> QED BY <2>2, <3>0, <3>1, <3>2 DEF Series
  <2> QED BY <1>6, <2>1, <2>2
<1>11. Series(T)
  <2>1. \A r \in T : MaxRevisions > 0 => r.number + MaxRevisions > number
    BY <1>2, PagesAssumption
  <2> QED BY <1>3, <1>4, <1>7, <1>8, <1>9, <1>10, <2>1 DEF Series
<1>12. \A r \in T : r.number <= n + 1 /\ (r \in S \/ r.parent = parent)
  BY <1>0, <1>1, <1>3, <1>6
<1> QED BY <1>3, <1>4, <1>5, <1>9, <1>11, <1>12 DEF T

\* No more rows than [cms] max_revisions: their numbers fit into that window.
LEMMA SeriesFits ==
  ASSUME NEW S \in SUBSET Revision, Series(S), MaxRevisions > 0
  PROVE  Cardinality(S) <= MaxRevisions
<1>1. CASE S = {}
  BY <1>1, FS_EmptySet, PagesAssumption
<1>2. CASE S # {}
  <2> DEFINE n == Newest(S).number
             offsets == [r \in S |-> n - r.number]
             window == 0..MaxRevisions - 1
  <2>1. n \in Nat /\ \A r \in S : r.number \in Nat /\ r.number <= n /\ r.number + MaxRevisions > n
    BY <1>2, PagesAssumption DEF Series, Revision
  <2>2. \A r, s \in S : r.number = s.number => r = s
    BY DEF Series
  <2> HIDE DEF n
  <2>3. offsets \in [S -> window]
    BY <2>1, PagesAssumption
  <2>4. \A r, s \in S : offsets[r] = offsets[s] => r = s
    BY <2>1, <2>2
  <2> HIDE DEF offsets
  <2>5. offsets \in Injection(S, window)
    BY <2>3, <2>4 DEF Injection, IsInjective
  <2>6. IsFiniteSet(window) /\ Cardinality(window) = MaxRevisions
    BY FS_Interval, PagesAssumption
  <2> QED BY <2>5, <2>6, FS_Injection
<1> QED BY <1>1, <1>2

-----------------------------------------------------------------------------
(* The requests up to their write.                                          *)

LEMMA RowsExist == \A row \in Row : row # NoPage
  BY PagesAssumption DEF Row, NoPage

LEMMA IdleOK ==
  /\ Idle \in Task /\ Idle.pc = "idle" /\ Idle.kind = "none" /\ Idle.hops = 0
  /\ Idle.shown = Never /\ ~Idle.stale
BY PagesAssumption DEF Idle, Task, Form, Draft, Never, Top

\* The rows do not care where a request stands.
LEMMA RowsQuiet ==
  ASSUME Inv, UNCHANGED <<pages, nextPage, history, saves>>
  PROVE  (Fresh /\ \A id \in Ids : Counted(id) /\ Told(id))'
<1>1. Fresh'
  BY DEF Inv, Fresh, Exists
<1>2. ASSUME NEW id \in Ids PROVE Counted(id)' /\ Told(id)'
  BY DEF Inv, Counted, Told, Exists
<1> QED BY <1>1, <1>2

LEMMA StepKeeps ==
  ASSUME Inv, NEW e \in Editors, NEW CONSTANT task, TaskOK(task), Step(e, task)
  PROVE  Inv'
<1>1. /\ UNCHANGED <<pages, nextPage, history, saves, now, overlapped, ranOut>>
      /\ tasks' = [tasks EXCEPT ![e] = task]
  BY DEF Step
<1>2. tasks \in [Editors -> Task]
  BY DEF Inv, TypeOK
<1>3. \A x \in Editors : tasks'[x] = tasks[x] \/ tasks'[x] = task
  BY <1>1, <1>2
<1>4. TypeOK'
  BY <1>1, <1>2 DEF Inv, TypeOK, TaskOK
<1>5. \A t : Carries(t) => Carries(t)'
  BY <1>1 DEF Carries, Exists
<1>6. ASSUME NEW x \in Editors PROVE (Staged(tasks[x]) /\ Carries(tasks[x]))'
  <2>1. Staged(tasks[x]) /\ Carries(tasks[x]) /\ Staged(task) /\ Carries(task)
    BY DEF Inv, TaskOK
  <2>2. Staged(tasks'[x]) /\ Carries(tasks'[x])
    BY <1>3, <2>1
  <2> QED BY <1>1, <2>2 DEF Staged, Carries, Exists
<1> QED BY <1>1, <1>4, <1>6, RowsQuiet DEF Inv

LEMMA CheckedOK ==
  ASSUME NEW t, t \in Task, t.hops = 0, t.kind # "none", t.org \in Orgs, Carries(t)
  PROVE  TaskOK(Checked(t))
<1> DEFINE pc1 == IF t.form.parent = Top THEN "write" ELSE "parent"
           u == [t EXCEPT !.pc = pc1]
<1>1. Checked(t) = u /\ pc1 \in {"write", "parent"}
  BY DEF Checked
<1> HIDE DEF pc1
<1>2. u \in Task /\ u.pc = pc1 /\ u.hops = 0 /\ u.kind = t.kind /\ u.form = t.form
      /\ u.org = t.org /\ u.page = t.page /\ u.stale = t.stale /\ u.shown = t.shown
  BY <1>1 DEF Task
<1> HIDE DEF u
<1>3. Staged(u) /\ Carries(u)
  BY <1>1, <1>2 DEF Staged, Carries
<1> QED BY <1>1, <1>2, <1>3 DEF TaskOK

LEMMA EnteredForms == Entered \subseteq Form
<1>1. \A s \in States : s.published \in BOOLEAN /\ s.due \in Times \cup {Never}
  BY PagesAssumption DEF Times, Never
<1> QED BY <1>1 DEF Entered, Form

\* create_page and import_page.
LEMMA StartCreateKeeps ==
  ASSUME Inv, NEW e \in Editors, StartCreate(e) \/ Import(e)
  PROVE  Inv'
<1>1. CASE StartCreate(e)
  <2> PICK org \in Orgs, form \in Entered :
             Step(e, Checked([Idle EXCEPT !.kind = "create", !.org = org, !.form = form]))
    BY <1>1 DEF StartCreate
  <2> DEFINE t == [Idle EXCEPT !.kind = "create", !.org = org, !.form = form]
  <2>1. t \in Task /\ t.hops = 0 /\ t.kind = "create" /\ t.org \in Orgs
    BY IdleOK, EnteredForms DEF Task
  <2> HIDE DEF t
  <2>2. TaskOK(Checked(t))
    BY <2>1, CheckedOK DEF Carries
  <2> QED BY <2>2, StepKeeps DEF t
<1>2. CASE Import(e)
  <2> PICK org \in Orgs : Step(e, [Idle EXCEPT !.kind = "create", !.org = org, !.pc = "write"])
    BY <1>2 DEF Import
  <2> DEFINE t == [Idle EXCEPT !.kind = "create", !.org = org, !.pc = "write"]
  <2>1. t \in Task /\ t.hops = 0 /\ t.kind = "create" /\ t.pc = "write" /\ t.org \in Orgs
    BY IdleOK DEF Task
  <2> HIDE DEF t
  <2>2. TaskOK(t)
    BY <2>1 DEF TaskOK, Staged, Carries
  <2> QED BY <2>2, StepKeeps DEF t
<1> QED BY <1>1, <1>2

\* edit_page_form: what is rendered is what visitors see.
LEMMA ShowFormKeeps ==
  ASSUME Inv, NEW e \in Editors, ShowForm(e)
  PROVE  Inv'
<1> PICK org \in Orgs, id \in Ids :
           /\ Find(org, id)
           /\ Step(e, [Idle EXCEPT !.pc = "editing", !.kind = "update", !.org = org,
                                   !.page = id, !.form = EditForm(pages[id], now),
                                   !.shown = now])
  BY DEF ShowForm
<1> DEFINE form == EditForm(pages[id], now)
           t == [Idle EXCEPT !.pc = "editing", !.kind = "update", !.org = org,
                             !.page = id, !.form = form, !.shown = now]
<1>1. pages[id] \in Row /\ now \in Times
  BY DEF Inv, TypeOK, Find, Exists
<1>2. form \in Form /\ form.published = Visible(pages[id], now)
  BY <1>1 DEF EditForm, Visible, Form, Row
<1> HIDE DEF form
<1>3. /\ t \in Task /\ t.hops = 0 /\ t.kind = "update" /\ t.pc = "editing"
      /\ t.page = id /\ t.form = form /\ t.shown = now /\ t.org \in Orgs
  BY <1>1, <1>2, IdleOK DEF Task
<1> HIDE DEF t
<1>4. TaskOK(t)
  BY <1>2, <1>3 DEF TaskOK, Staged, Carries
<1> QED BY <1>4, StepKeeps DEF t, form

\* update_page: a form that was touched no longer counts as shown.
LEMMA SubmitKeeps ==
  ASSUME Inv, NEW e \in Editors, Submit(e)
  PROVE  Inv'
<1> PICK form \in Entered \cup {tasks[e].form} :
           Step(e, Checked([tasks[e] EXCEPT !.form = form,
                   !.shown = IF form = tasks[e].form THEN @ ELSE Never]))
  BY DEF Submit
<1> DEFINE shown1 == IF form = tasks[e].form THEN tasks[e].shown ELSE Never
           t == [tasks[e] EXCEPT !.form = form, !.shown = shown1]
<1>1. /\ tasks[e] \in Task /\ tasks[e].pc = "editing" /\ tasks[e].kind = "update"
      /\ Carries(tasks[e]) /\ tasks[e].hops = 0 /\ tasks[e].org \in Orgs
  BY DEF Inv, TypeOK, Submit, Staged
<1>2. form \in Form /\ shown1 \in Times \cup {Never}
  BY <1>1, EnteredForms DEF Task
<1>3. shown1 = Never \/ (shown1 = tasks[e].shown /\ form = tasks[e].form)
  OBVIOUS
<1> HIDE DEF shown1
<1>4. /\ t \in Task /\ t.hops = 0 /\ t.kind = "update" /\ t.form = form /\ t.shown = shown1
      /\ t.page = tasks[e].page /\ t.stale = tasks[e].stale /\ t.org = tasks[e].org
  BY <1>1, <1>2 DEF Task
<1> HIDE DEF t
<1>5. Carries(t)
  BY <1>1, <1>3, <1>4 DEF Carries
<1>6. TaskOK(Checked(t))
  BY <1>1, <1>4, <1>5, CheckedOK
<1> QED BY <1>6, StepKeeps DEF t, shown1

\* restore_revision: the page keeps its own state of publication.
LEMMA StartRestoreKeeps ==
  ASSUME Inv, NEW e \in Editors, StartRestore(e)
  PROVE  Inv'
<1> PICK org \in Orgs, id \in Ids : \E r \in Snapshots(org, id) :
           Step(e, Checked([Idle EXCEPT !.kind = "restore", !.org = org, !.page = id,
                !.form = [parent |-> r.parent, published |-> pages[id].published,
                          due |-> pages[id].due]]))
  BY DEF StartRestore
<1> PICK r \in Snapshots(org, id) :
           Step(e, Checked([Idle EXCEPT !.kind = "restore", !.org = org, !.page = id,
                !.form = [parent |-> r.parent, published |-> pages[id].published,
                          due |-> pages[id].due]]))
  OBVIOUS
<1> DEFINE form == [parent |-> r.parent, published |-> pages[id].published, due |-> pages[id].due]
           t == [Idle EXCEPT !.kind = "restore", !.org = org, !.page = id, !.form = form]
<1>1. Find(org, id) /\ r \in history[id]
  BY DEF Snapshots
<1>2. pages[id] \in Row /\ r \in Revision
  BY <1>1 DEF Inv, TypeOK, Find, Exists
<1>3. /\ form \in Form /\ form.published = pages[id].published /\ form.due = pages[id].due
  BY <1>2 DEF Form, Row, Revision
<1> HIDE DEF form
<1>4. /\ t \in Task /\ t.hops = 0 /\ t.kind = "restore" /\ t.page = id /\ t.form = form
      /\ t.org \in Orgs
  BY <1>3, IdleOK DEF Task
<1> HIDE DEF t
<1>5. Carries(t)
  BY <1>3, <1>4 DEF Carries
<1>6. TaskOK(Checked(t))
  BY <1>4, <1>5, CheckedOK
<1> QED BY <1>6, StepKeeps DEF t, form

\* load_page of the parent and the walk up its ancestors.
LEMMA WalkKeeps ==
  ASSUME Inv, NEW e \in Editors, LoadParent(e) \/ Climb(e)
  PROVE  Inv'
<1>0. tasks[e] \in Task /\ Staged(tasks[e]) /\ Carries(tasks[e])
  BY DEF Inv, TypeOK
<1>1. ASSUME NEW pc1 \in {"walk", "write"}, NEW at1 \in Ids \cup {0}, NEW hops1 \in 0..MaxHops,
             NEW short1 \in BOOLEAN, IF pc1 = "walk" THEN hops1 < MaxHops ELSE hops1 = 0,
             tasks[e].pc \in {"parent", "walk"},
             Step(e, [tasks[e] EXCEPT !.pc = pc1, !.at = at1, !.hops = hops1, !.short = short1])
      PROVE  Inv'
  <2> DEFINE t == [tasks[e] EXCEPT !.pc = pc1, !.at = at1, !.hops = hops1, !.short = short1]
  <2>1. /\ t \in Task /\ t.pc = pc1 /\ t.hops = hops1 /\ t.kind = tasks[e].kind
        /\ t.page = tasks[e].page /\ t.form = tasks[e].form /\ t.stale = tasks[e].stale
        /\ t.shown = tasks[e].shown /\ t.org = tasks[e].org
    BY <1>0, <1>1 DEF Task
  <2> HIDE DEF t
  <2>2. TaskOK(t)
    BY <1>0, <1>1, <2>1 DEF TaskOK, Staged, Carries
  <2> QED BY <1>1, <2>2, StepKeeps DEF t
<1>2. CASE LoadParent(e)
  <2>1. tasks[e].pc = "parent" /\ tasks[e].hops = 0 /\ tasks[e].form.parent \in Ids
    BY <1>0, <1>2 DEF LoadParent, Staged, Find, Exists
  <2>2. CASE tasks[e].kind = "create"
    <3>1. Step(e, [tasks[e] EXCEPT !.pc = "write"])
      BY <1>2, <2>2 DEF LoadParent
    <3>2. [tasks[e] EXCEPT !.pc = "write"] =
            [tasks[e] EXCEPT !.pc = "write", !.at = tasks[e].at, !.hops = tasks[e].hops,
                             !.short = tasks[e].short]
      BY <1>0 DEF Task
    <3>3. tasks[e].at \in Ids \cup {0} /\ tasks[e].hops \in 0..MaxHops /\ tasks[e].short \in BOOLEAN
      BY <1>0 DEF Task
    <3> QED BY <1>1, <2>1, <3>1, <3>2, <3>3
  <2>3. CASE tasks[e].kind # "create"
    <3>1. Step(e, [tasks[e] EXCEPT !.pc = "walk", !.at = tasks[e].form.parent])
      BY <1>2, <2>3 DEF LoadParent
    <3>2. [tasks[e] EXCEPT !.pc = "walk", !.at = tasks[e].form.parent] =
            [tasks[e] EXCEPT !.pc = "walk", !.at = tasks[e].form.parent, !.hops = tasks[e].hops,
                             !.short = tasks[e].short]
      BY <1>0 DEF Task
    <3>3. tasks[e].hops \in 0..MaxHops /\ tasks[e].hops < MaxHops /\ tasks[e].short \in BOOLEAN
      BY <1>0, <2>1, PagesAssumption DEF Task
    <3> QED BY <1>1, <2>1, <3>1, <3>2, <3>3
  <2> QED BY <2>2, <2>3
<1>3. CASE Climb(e)
  <2> DEFINE task == tasks[e]
             next == IF Find(task.org, task.at) THEN pages[task.at].parent ELSE Top
  <2>1. task.pc = "walk" /\ task.hops < MaxHops /\ task.hops \in 0..MaxHops
    BY <1>0, <1>3 DEF Climb, Staged, Task
  <2>2. next \in Ids \cup {Top}
    BY DEF Inv, TypeOK, Find, Exists, Row
  <2>3. Step(e, IF next \in {Top, task.at} \/ task.hops + 1 = MaxHops
                THEN [task EXCEPT !.at = 0, !.hops = 0, !.pc = "write",
                                  !.short = next \notin {Top, task.at}]
                ELSE [task EXCEPT !.at = next, !.hops = @ + 1])
    BY <1>3 DEF Climb
  <2> HIDE DEF next
  <2>4. CASE next \in {Top, task.at} \/ task.hops + 1 = MaxHops
    <3> DEFINE short1 == next \notin {Top, task.at}
    <3>0. short1 \in BOOLEAN
      OBVIOUS
    <3>1. Step(e, [task EXCEPT !.at = 0, !.hops = 0, !.pc = "write", !.short = short1])
      BY <2>3, <2>4
    <3> HIDE DEF short1
    <3>2. [task EXCEPT !.at = 0, !.hops = 0, !.pc = "write", !.short = short1] =
            [task EXCEPT !.pc = "write", !.at = 0, !.hops = 0, !.short = short1]
      BY <1>0 DEF Task
    <3>3. 0 \in Ids \cup {0} /\ 0 \in 0..MaxHops /\ "write" # "walk"
      BY PagesAssumption
    <3>4. Step(e, [task EXCEPT !.pc = "write", !.at = 0, !.hops = 0, !.short = short1])
      BY <3>1, <3>2
    <3> QED BY <1>1, <2>1, <3>0, <3>3, <3>4
  <2>5. CASE ~(next \in {Top, task.at} \/ task.hops + 1 = MaxHops)
    <3>1. Step(e, [task EXCEPT !.at = next, !.hops = @ + 1])
      BY <2>3, <2>5
    <3>2. [task EXCEPT !.at = next, !.hops = @ + 1] =
            [task EXCEPT !.pc = "walk", !.at = next, !.hops = task.hops + 1,
                         !.short = task.short]
      BY <1>0, <2>1 DEF Task
    <3>3. task.hops + 1 \in 0..MaxHops /\ task.hops + 1 < MaxHops
      BY <2>1, <2>5, PagesAssumption
    <3>4. next \in Ids \cup {0} /\ task.short \in BOOLEAN
      BY <1>0, <2>2 DEF Top, Task
    <3> QED BY <1>1, <2>1, <3>1, <3>2, <3>3, <3>4
  <2> QED BY <2>4, <2>5
<1> QED BY <1>2, <1>3

LEMMA LeaveKeeps ==
  ASSUME Inv, NEW e \in Editors, Leave(e)
  PROVE  Inv'
<1>1. TaskOK(Idle)
  BY IdleOK DEF TaskOK, Staged, Carries
<1> QED BY <1>1, StepKeeps DEF Leave

-----------------------------------------------------------------------------
(* The writes.                                                              *)

\* Whoever else is in flight has looked at older rows.
LEMMA FinishedKeeps ==
  ASSUME Inv, NEW e \in Editors, tasks' = Finished(e)
  PROVE  /\ tasks' \in [Editors -> Task]
         /\ \A x \in Editors : (Staged(tasks[x]) /\ Carries(tasks[x]))'
<1>1. ASSUME NEW x \in Editors
      PROVE  tasks'[x] \in Task /\ Staged(tasks'[x])
             /\ (tasks'[x].stale \/ tasks'[x].kind = "none")
  <2>1. CASE x = e
    BY <2>1, IdleOK DEF Finished, Staged
  <2>2. CASE x # e
    <3> DEFINE stale1 == tasks[x].pc # "idle"
    <3>1. tasks'[x] = [tasks[x] EXCEPT !.stale = stale1] /\ stale1 \in BOOLEAN
      BY <2>2 DEF Finished
    <3>2. tasks[x] \in Task /\ Staged(tasks[x])
      BY DEF Inv, TypeOK
    <3>3. stale1 \/ tasks[x].pc = "idle"
      OBVIOUS
    <3> HIDE DEF stale1
    <3>4. /\ tasks'[x] \in Task /\ tasks'[x].stale = stale1 /\ tasks'[x].pc = tasks[x].pc
          /\ tasks'[x].kind = tasks[x].kind /\ tasks'[x].hops = tasks[x].hops
          /\ tasks'[x].org = tasks[x].org
      BY <3>1, <3>2 DEF Task
    <3> QED BY <3>2, <3>3, <3>4 DEF Staged
  <2> QED BY <2>1, <2>2
<1>2. tasks' = [x \in Editors |-> tasks'[x]]
  BY DEF Finished
<1>3. tasks' \in [Editors -> Task]
  BY <1>1, <1>2
<1>4. ASSUME NEW x \in Editors PROVE (Staged(tasks[x]) /\ Carries(tasks[x]))'
  <2>1. Staged(tasks[x])'
    BY <1>1 DEF Staged
  <2>2. Carries(tasks[x])'
    BY <1>1 DEF Carries
  <2> QED BY <2>1, <2>2
<1> QED BY <1>3, <1>4

\* A row and its revision land together: a new page under the next id, or a
\* page that is there.
LEMMA SaveKeeps ==
  ASSUME Inv, NEW e \in Editors, NEW CONSTANT id \in Ids, NEW CONSTANT row \in Row, Save(id, row),
         tasks' = Finished(e), now' = now,
         overlapped' \in BOOLEAN, ranOut' \in BOOLEAN,
         \/ Exists(id) /\ nextPage' = nextPage
         \/ id = nextPage /\ nextPage' = nextPage + 1
  PROVE  Inv'
<1> DEFINE recorded == Recorded(history[id], row.parent)
<1>0. /\ TypeOK /\ Fresh /\ nextPage \in Nat \ {0} /\ saves \in Nat /\ saves < MaxSaves
      /\ pages \in [Ids -> Row \cup {NoPage}] /\ history \in [Ids -> SUBSET Revision]
      /\ row.parent \in Ids \cup {Top} /\ (row.parent = Top \/ Exists(row.parent))
      /\ MaxSaves \in Nat /\ MaxPages \in Nat
  BY PagesAssumption DEF Inv, TypeOK, Save, Row
<1>1. /\ pages' = [pages EXCEPT ![id] = row] /\ saves' = saves + 1
      /\ history' = [history EXCEPT ![id] = recorded]
  BY DEF Save
<1>2. /\ recorded \in SUBSET Revision /\ Series(recorded)
      /\ recorded # {} /\ Newest(recorded).parent = row.parent
      /\ \A r \in recorded : r.number <= saves + 1 /\ (r \in history[id] \/ r.parent = row.parent)
  <2>1. history[id] \in SUBSET Revision /\ Series(history[id]) /\ \A r \in history[id] : r.number <= saves
    BY <1>0 DEF Inv, Counted
  <2> QED BY <1>0, <2>1, RecordedSeries
<1> HIDE DEF recorded
<1>3. row # NoPage
  BY RowsExist
<1>4. /\ pages'[id] = row /\ history'[id] = recorded
      /\ \A x \in Ids : x # id => pages'[x] = pages[x] /\ history'[x] = history[x]
  BY <1>0, <1>1
<1>5. \A x : Exists(x)' <=> (Exists(x) \/ x = id)
  BY <1>3, <1>4 DEF Exists
<1>6. nextPage' \in Nat /\ nextPage <= nextPage' /\ nextPage' \in 1..MaxPages + 1 /\ id < nextPage'
  BY <1>0 DEF Fresh, TypeOK, Ids
<1>7. TypeOK'
  <2>1. history' \in [Ids -> SUBSET Revision] /\ pages' \in [Ids -> Row \cup {NoPage}]
    BY <1>0, <1>1, <1>2
  <2>2. saves' \in 0..MaxSaves
    BY <1>0, <1>1
  <2>3. tasks' \in [Editors -> Task]
    BY FinishedKeeps
  <2> QED BY <1>0, <1>6, <2>1, <2>2, <2>3 DEF TypeOK
<1>8. Fresh'
  <2>1. \A x \in Ids : Exists(x)' => x < nextPage'
    BY <1>0, <1>5, <1>6 DEF Fresh, Ids
  <2> QED BY <2>1 DEF Fresh
<1>9. row.parent < nextPage'
  BY <1>0, <1>6 DEF Fresh, Exists, Ids, Top
<1>10. ASSUME NEW x \in Ids PROVE Counted(x)'
  <2>1. \A r \in history[x] : r \in Revision /\ r.number <= saves /\ r.parent < nextPage
    BY <1>0 DEF Inv, Counted
  <2>2. \A r \in history[x] : r.number <= saves + 1 /\ r.parent < nextPage'
    BY <1>0, <1>6, <2>1 DEF Revision, Ids, Top
  <2>3. CASE x = id
    BY <1>1, <1>2, <1>4, <1>9, <2>2, <2>3 DEF Counted
  <2>4. CASE x # id
    <3>1. Series(history[x])
      BY DEF Inv, Counted
    <3> QED BY <1>1, <1>4, <2>2, <2>4, <3>1 DEF Counted
  <2> QED BY <2>3, <2>4
<1>11. ASSUME NEW x \in Ids PROVE Told(x)'
  <2>1. CASE x = id
    BY <1>2, <1>4, <1>5, <2>1 DEF Told
  <2>2. CASE x # id
    <3>0. Told(x) /\ Counted(x)
      BY DEF Inv
    <3>1. Exists(x) => Newest(history[x]) \in history[x]
      BY <3>0 DEF Told, Counted, Series
    <3>2. Exists(x) /\ ~Exists(Newest(history[x]).parent) => Newest(history[x]).parent # id
      <4> SUFFICES ASSUME Exists(x), ~Exists(Newest(history[x]).parent), Newest(history[x]).parent = id
                   PROVE  FALSE
        OBVIOUS
      <4>1. id < nextPage
        BY <3>0, <3>1 DEF Counted
      <4> QED BY <1>0, <4>1 DEF Ids
    <3> QED BY <1>4, <1>5, <2>2, <3>0, <3>2 DEF Told
  <2> QED BY <2>1, <2>2
<1> QED BY <1>7, <1>8, <1>10, <1>11, FinishedKeeps DEF Inv

LEMMA NormalizedTyped ==
  ASSUME NEW form \in Form
  PROVE  Normalized(form.published, form.due, now) \in Times \cup {Never}
BY DEF Normalized, Form

LEMMA InsertKeeps ==
  ASSUME Inv, NEW e \in Editors, Insert(e)
  PROVE  Inv'
<1> DEFINE form == tasks[e].form
           row == [org |-> tasks[e].org, parent |-> form.parent, published |-> form.published,
                   due |-> Normalized(form.published, form.due, now)]
<1>1. tasks[e] \in Task /\ form \in Form /\ tasks[e].org \in Orgs
  BY DEF Inv, TypeOK, Task, Staged, Insert
<1>2. /\ Save(nextPage, row) /\ nextPage' = nextPage + 1 /\ tasks' = Finished(e)
      /\ now' = now /\ overlapped' = overlapped /\ ranOut' = ranOut
      /\ nextPage \in Ids
  BY PagesAssumption DEF Insert, Inv, TypeOK, Ids
<1>3. row \in Row
  <2> DEFINE due == Normalized(form.published, form.due, now)
  <2>1. due \in Times \cup {Never}
    BY <1>1, NormalizedTyped
  <2>2. row = [org |-> tasks[e].org, parent |-> form.parent,
               published |-> form.published, due |-> due]
    OBVIOUS
  <2> HIDE DEF due, row
  <2> QED BY <1>1, <2>1, <2>2 DEF Form, Row
<1>4. overlapped' \in BOOLEAN /\ ranOut' \in BOOLEAN
  BY <1>2 DEF Inv, TypeOK
<1> HIDE DEF row
<1> QED BY <1>2, <1>3, <1>4, SaveKeeps

\* The row an update writes.
Written(e) ==
    LET form == tasks[e].form
        due == IF tasks[e].kind = "restore" THEN form.due
               ELSE Normalized(form.published, form.due, now)
    IN  [org |-> tasks[e].org, parent |-> form.parent, published |-> form.published, due |-> due]

LEMMA WrittenTyped ==
  ASSUME Inv, NEW e \in Editors, tasks[e].pc = "write"
  PROVE  Written(e) \in Row
<1> DEFINE form == tasks[e].form
           due == IF tasks[e].kind = "restore" THEN form.due
                  ELSE Normalized(form.published, form.due, now)
<1>1. tasks[e] \in Task /\ form \in Form /\ tasks[e].org \in Orgs
  BY DEF Inv, TypeOK, Task, Staged
<1>2. due \in Times \cup {Never}
  BY <1>1, NormalizedTyped DEF Form
<1>3. Written(e) = [org |-> tasks[e].org, parent |-> form.parent,
                    published |-> form.published, due |-> due]
  BY DEF Written
<1> HIDE DEF due
<1> QED BY <1>1, <1>2, <1>3 DEF Form, Row

LEMMA UpdateKeeps ==
  ASSUME Inv, NEW e \in Editors, Update(e)
  PROVE  Inv'
<1>1. /\ Save(tasks[e].page, Written(e)) /\ nextPage' = nextPage /\ tasks' = Finished(e)
      /\ now' = now /\ overlapped' = (overlapped \/ tasks[e].stale)
      /\ ranOut' = (ranOut \/ tasks[e].short)
      /\ Exists(tasks[e].page) /\ tasks[e].page \in Ids /\ tasks[e].pc = "write"
  BY DEF Update, Written, Find, Exists
<1>2. overlapped' \in BOOLEAN /\ ranOut' \in BOOLEAN
  BY <1>1 DEF Inv, TypeOK
<1> QED BY <1>1, <1>2, WrittenTyped, SaveKeeps

\* delete_page: the children move up, the history goes with its page.
LEMMA DeleteKeeps ==
  ASSUME Inv, NEW e \in Editors, Delete(e)
  PROVE  Inv'
<1> PICK id \in Ids :
           /\ Exists(id)
           /\ pages' = [p \in Ids |->
                IF p = id THEN NoPage
                ELSE IF Exists(p) /\ pages[p].parent = id THEN [pages[p] EXCEPT !.parent = Top]
                ELSE pages[p]]
           /\ history' = [history EXCEPT ![id] = {}]
  BY DEF Delete, Find
<1>0. /\ UNCHANGED <<nextPage, saves, now, tasks, overlapped, ranOut>>
      /\ TypeOK /\ Fresh /\ id # Top
      /\ pages \in [Ids -> Row \cup {NoPage}] /\ history \in [Ids -> SUBSET Revision]
  BY DEF Delete, Inv, TypeOK, Ids, Top
<1>1. ASSUME NEW x \in Ids, x # id, Exists(x)
      PROVE  /\ pages'[x] \in Row /\ Exists(x)' /\ history'[x] = history[x]
             /\ pages'[x].published = pages[x].published /\ pages'[x].due = pages[x].due
             /\ pages'[x].parent = IF pages[x].parent = id THEN Top ELSE pages[x].parent
  <2>1. pages[x] \in Row
    BY <1>0, <1>1 DEF Exists
  <2> DEFINE up == [pages[x] EXCEPT !.parent = Top]
  <2>2. up \in Row /\ up.parent = Top /\ up.published = pages[x].published /\ up.due = pages[x].due
    BY <2>1 DEF Row
  <2>3. pages'[x] = IF pages[x].parent = id THEN up ELSE pages[x]
    BY <1>1
  <2> HIDE DEF up
  <2>4. pages'[x] \in Row
    BY <2>1, <2>2, <2>3
  <2>5. Exists(x)'
    BY <2>4, RowsExist DEF Exists
  <2> QED BY <1>0, <1>1, <2>2, <2>3, <2>4, <2>5
<1>2. ~Exists(id)' /\ pages'[id] = NoPage /\ history'[id] = {}
  BY <1>0 DEF Exists
<1>3. \A x : Exists(x)' <=> Exists(x) /\ x # id
  <2>1. ASSUME NEW x \in Ids, ~Exists(x) PROVE ~Exists(x)'
    BY <2>1 DEF Exists
  <2> QED BY <1>1, <1>2, <2>1 DEF Exists
<1>4. \A x \in Ids : ~Exists(x) => pages'[x] = NoPage /\ history'[x] = history[x]
  BY <1>0 DEF Exists
<1>5. TypeOK'
  <2>1. \A x \in Ids : pages'[x] \in Row \cup {NoPage}
    BY <1>1, <1>2, <1>4
  <2>2. pages' \in [Ids -> Row \cup {NoPage}]
    <3>1. pages' = [x \in Ids |-> pages'[x]]
      OBVIOUS
    <3> QED BY <2>1, <3>1
  <2>3. history' \in [Ids -> SUBSET Revision]
    BY <1>0
  <2> QED BY <1>0, <2>2, <2>3 DEF TypeOK
<1>6. Fresh'
  <2>1. \A x \in Ids : Exists(x)' => x < nextPage'
    BY <1>0, <1>3 DEF Fresh
  <2> QED BY <2>1 DEF Fresh
<1>7. ASSUME NEW x \in Ids PROVE Counted(x)' /\ Told(x)'
  <2>0. Counted(x) /\ Told(x)
    BY DEF Inv
  <2>1. CASE x = id
    <3>1. Counted(x)'
      BY <1>2, <2>1 DEF Counted, Series
    <3>2. Told(x)'
      BY <1>2, <2>1 DEF Told
    <3> QED BY <3>1, <3>2
  <2>2. CASE x # id
    <3>1. history'[x] = history[x]
      BY <1>0, <2>2
    <3>2. Counted(x)'
      BY <1>0, <2>0, <3>1 DEF Counted
    <3>3. Told(x)'
      BY <1>0, <1>1, <1>3, <2>0, <2>2, <3>1 DEF Told
    <3> QED BY <3>2, <3>3
  <2> QED BY <2>1, <2>2
<1>8. \A t : Carries(t) => (~t.stale /\ Exists(t.page)' =>
         /\ t.kind = "restore" => /\ t.form.published = pages'[t.page].published
                                  /\ t.form.due = pages'[t.page].due
         /\ t.kind = "update" /\ t.shown # Never =>
                t.form.published = Visible(pages'[t.page], t.shown))
  <2> SUFFICES ASSUME NEW t, Carries(t), ~t.stale, Exists(t.page)'
               PROVE  /\ t.kind = "restore" => /\ t.form.published = pages'[t.page].published
                                               /\ t.form.due = pages'[t.page].due
                      /\ t.kind = "update" /\ t.shown # Never =>
                             t.form.published = Visible(pages'[t.page], t.shown)
    OBVIOUS
  <2>1. Exists(t.page) /\ t.page # id
    BY <1>3
  <2>2. t.page \in Ids
    BY <2>1 DEF Exists
  <2>3. pages'[t.page].published = pages[t.page].published /\ pages'[t.page].due = pages[t.page].due
    BY <1>1, <2>1, <2>2
  <2> QED BY <2>1, <2>3 DEF Carries, Visible
<1>9. ASSUME NEW x \in Editors PROVE (Staged(tasks[x]) /\ Carries(tasks[x]))'
  <2>1. Staged(tasks[x]) /\ Carries(tasks[x]) /\ tasks' = tasks
    BY <1>0 DEF Inv
  <2>2. Staged(tasks[x])'
    BY <2>1 DEF Staged
  <2>3. Carries(tasks[x])'
    BY <1>8, <2>1 DEF Carries
  <2> QED BY <2>2, <2>3
<1> QED BY <1>5, <1>6, <1>7, <1>9 DEF Inv

LEMMA TickKeeps ==
  ASSUME Inv, Tick
  PROVE  Inv'
<1>1. UNCHANGED <<pages, nextPage, history, saves, tasks, overlapped, ranOut>> /\ now' \in Times
  BY PagesAssumption DEF Tick, Inv, TypeOK, Times
<1>2. TypeOK'
  BY <1>1 DEF Inv, TypeOK
<1>3. ASSUME NEW x \in Editors PROVE (Staged(tasks[x]) /\ Carries(tasks[x]))'
  BY <1>1 DEF Inv, Staged, Carries, Exists
<1> QED BY <1>1, <1>2, <1>3, RowsQuiet DEF Inv

LEMMA InitInv == Init => Inv
<1> SUFFICES ASSUME Init PROVE Inv
  OBVIOUS
<1>1. \A id : ~Exists(id)
  BY DEF Init, Exists
<1>2. \A id \in Ids : history[id] = {}
  BY DEF Init
<1>3. \A e \in Editors : tasks[e] = Idle
  BY DEF Init
<1>4. TypeOK
  <2>1. /\ pages \in [Ids -> Row \cup {NoPage}] /\ history \in [Ids -> SUBSET Revision]
        /\ tasks \in [Editors -> Task]
    BY IdleOK DEF Init
  <2>2. /\ nextPage \in 1..MaxPages + 1 /\ saves \in 0..MaxSaves /\ now \in Times
        /\ overlapped \in BOOLEAN /\ ranOut \in BOOLEAN
    <3>1. nextPage = 1 /\ saves = 0 /\ now = 1 /\ overlapped = FALSE /\ ranOut = FALSE
      BY DEF Init
    <3>2. nextPage \in 1..MaxPages + 1 /\ saves \in 0..MaxSaves
      BY <3>1, PagesAssumption
    <3>3. now \in Times
      BY <3>1, PagesAssumption DEF Times
    <3> QED BY <3>1, <3>2, <3>3
  <2> QED BY <2>1, <2>2 DEF TypeOK
<1>5. \A id \in Ids : Counted(id) /\ Told(id)
  BY <1>1, <1>2 DEF Counted, Told, Series
<1>6. \A e \in Editors : Staged(tasks[e]) /\ Carries(tasks[e])
  BY <1>1, <1>3, IdleOK DEF Staged, Carries
<1> QED BY <1>1, <1>4, <1>5, <1>6 DEF Inv, Fresh

LEMMA Inductive == Inv /\ [Next]_vars => Inv'
<1> SUFFICES ASSUME Inv, [Next]_vars PROVE Inv'
  OBVIOUS
<1>1. CASE UNCHANGED vars
  <2>1. UNCHANGED <<pages, nextPage, history, saves, now, tasks, overlapped, ranOut>>
    BY <1>1 DEF vars
  <2>2. TypeOK'
    BY <2>1 DEF Inv, TypeOK
  <2>3. ASSUME NEW x \in Editors PROVE (Staged(tasks[x]) /\ Carries(tasks[x]))'
    BY <2>1 DEF Inv, Staged, Carries, Exists
  <2> QED BY <2>1, <2>2, <2>3, RowsQuiet DEF Inv
<1>2. ASSUME NEW e \in Editors,
             \/ StartCreate(e) \/ Import(e) \/ ShowForm(e) \/ Submit(e) \/ StartRestore(e)
             \/ LoadParent(e) \/ Climb(e) \/ Leave(e) \/ Insert(e) \/ Update(e) \/ Delete(e)
      PROVE  Inv'
  BY <1>2, StartCreateKeeps, ShowFormKeeps, SubmitKeeps, StartRestoreKeeps, WalkKeeps, LeaveKeeps,
     InsertKeeps, UpdateKeeps, DeleteKeeps
<1> QED BY <1>1, <1>2, TickKeeps DEF Next

LEMMA Invariance == Spec => []Inv
  BY InitInv, Inductive, PTL DEF Spec

-----------------------------------------------------------------------------

\* The page history (db.rs record_revision, prune_revisions; migration 0008): for
\* any number of editors, pages and revisions, the newest revision names the
\* parent last saved, the numbers leave no gap and the history never outgrows
\* max_revisions, whatever saves, restores and deletions interleave.
THEOREM HistoryIsTrue == Spec => []HistoryMatches
<1>1. Inv => HistoryMatches
  <2> SUFFICES ASSUME Inv, NEW id \in Ids
               PROVE  /\ Exists(id) <=> history[id] # {}
                      /\ \A r, s \in history[id] : r.number = s.number => r = s
                      /\ \A r \in history[id] : \/ r = Newest(history[id])
                                                \/ \E s \in history[id] : s.number = r.number + 1
                      /\ MaxRevisions > 0 => Cardinality(history[id]) <= MaxRevisions
                      /\ Exists(id) =>
                            \/ Newest(history[id]).parent = pages[id].parent
                            \/ pages[id].parent = Top /\ ~Exists(Newest(history[id]).parent)
    BY DEF HistoryMatches, TrueHistory, Inv
  <2>1. Series(history[id]) /\ Told(id) /\ history[id] \in SUBSET Revision
    BY DEF Inv, Counted, TypeOK
  <2>2. MaxRevisions > 0 => Cardinality(history[id]) <= MaxRevisions
    BY <2>1, SeriesFits
  <2> QED BY <2>1, <2>2 DEF Series, Told
<1> QED BY <1>1, Invariance, PTL

\* PUBLIC_VISIBLE is spelled out in six queries and once more in the handler of a
\* page (db.rs, cms.rs render_public_page): for any pages and at every second of
\* a schedule, what visitors are shown opens, what opens is shown, and the
\* dashboard counts the same pages.
THEOREM VisitorsSeeWhatOpens == Spec => []VisitorsAgree
<1>1. Inv => VisitorsAgree
  <2> SUFFICES ASSUME Inv, NEW org \in Orgs
               PROVE  LET open == {id \in Owned(org) : PublicPage(org, id, FALSE).opens}
                          counts == Dashboard(org)
                      IN  /\ PageIndex(org) = open /\ SearchPage(org) = open /\ Sitemap(org) = open
                          /\ RssFeed(org) \subseteq open /\ AtomFeed(org) \subseteq open
                          /\ \A id \in open : PublicPage(org, id, FALSE).children \subseteq open
                          /\ counts.published = Cardinality(open)
                          /\ counts.scheduled <= counts.drafts
    BY DEF VisitorsAgree
  <2> DEFINE open == {id \in Owned(org) : PublicPage(org, id, FALSE).opens}
             seen == {id \in Owned(org) : Visible(pages[id], now)}
  <2>1. \A id \in Owned(org) : PublicPage(org, id, FALSE).opens <=> Visible(pages[id], now)
    BY DEF PublicPage, Visible
  <2>2. open = seen
    BY <2>1
  <2>3. /\ PageIndex(org) = seen /\ SearchPage(org) = seen /\ Sitemap(org) = seen
        /\ RssFeed(org) = seen /\ AtomFeed(org) = seen /\ Summaries(org, FALSE) = seen
    BY DEF PageIndex, SearchPage, Sitemap, RssFeed, AtomFeed, Summaries, SearchHits, FeedEntries
  <2>4. \A id \in open : PublicPage(org, id, FALSE).children \subseteq seen
    BY <2>3 DEF PublicPage, Children
  <2>5. Dashboard(org).published = Cardinality(seen)
    BY DEF Dashboard, CountPublished
  <2>6. Dashboard(org).scheduled <= Dashboard(org).drafts
    <3>1. IsFiniteSet(Ids)
      BY FS_Interval, PagesAssumption DEF Ids
    <3>2. Owned(org) \subseteq Ids /\ seen \subseteq Owned(org) /\ Pending(org) \subseteq Owned(org)
      BY DEF Owned, Pending
    <3>3. seen \cap Pending(org) = {}
      <4> SUFFICES ASSUME NEW id \in seen, id \in Pending(org) PROVE FALSE
        OBVIOUS
      <4>1. ~pages[id].published /\ pages[id].due > now /\ Visible(pages[id], now)
        BY DEF Pending
      <4>2. pages[id] \in Row /\ now \in Times
        BY DEF Inv, TypeOK, Owned, Exists
      <4> QED BY <4>1, <4>2 DEF Visible, Row, Times, Never
    <3>4. /\ IsFiniteSet(Owned(org)) /\ IsFiniteSet(seen) /\ IsFiniteSet(Pending(org))
      BY <3>1, <3>2, FS_Subset
    <3> HIDE DEF seen
    <3>5. Cardinality(seen \cup Pending(org)) = Cardinality(seen) + Cardinality(Pending(org))
      <4>1. Cardinality(seen \cup Pending(org))
              = Cardinality(seen) + Cardinality(Pending(org)) - Cardinality(seen \cap Pending(org))
        BY <3>4, FS_Union
      <4>2. Cardinality(seen \cap Pending(org)) = 0
        BY <3>3, FS_EmptySet
      <4> QED BY <3>4, <4>1, <4>2, FS_CardinalityType
    <3>6. Cardinality(seen \cup Pending(org)) <= Cardinality(Owned(org))
      BY <3>2, <3>4, FS_Subset
    <3>7. /\ Dashboard(org).scheduled = Cardinality(Pending(org))
          /\ Dashboard(org).drafts = Cardinality(Owned(org)) - Cardinality(seen)
      BY DEF Dashboard, CountPublished, seen
    <3>8. /\ Cardinality(seen) \in Nat /\ Cardinality(Pending(org)) \in Nat
          /\ Cardinality(Owned(org)) \in Nat
      BY <3>4, FS_CardinalityType
    <3> QED BY <3>5, <3>6, <3>7, <3>8
  <2> QED BY <2>2, <2>3, <2>4, <2>5, <2>6
<1> QED BY <1>1, Invariance, PTL

\* update_page and restore_revision (cms.rs): for any number of editors, a
\* restore leaves the publication alone, and an edit form sent back as it was
\* rendered does not take the page off or put it up, unless another save landed
\* or the clock moved since the request looked.
THEOREM UntouchedStaysVisible == Spec => UntouchedKeepsVisibility
<1> DEFINE Kept ==
      \A e \in Editors : ~tasks[e].stale =>
          LET before == pages[tasks[e].page]
              after  == pages'[tasks[e].page]
          IN  /\ Saved(e, "restore") =>
                    after.published = before.published /\ after.due = before.due
              /\ Saved(e, "update") /\ tasks[e].shown = now =>
                    Visible(after, now) = Visible(before, now)
<1>1. ASSUME Inv, Next PROVE Kept
  <2> SUFFICES ASSUME NEW e \in Editors, ~tasks[e].stale,
                      NEW kind \in {"restore", "update"}, Saved(e, kind)
               PROVE  LET before == pages[tasks[e].page]
                          after  == pages'[tasks[e].page]
                      IN  /\ kind = "restore" =>
                                after.published = before.published /\ after.due = before.due
                          /\ kind = "update" /\ tasks[e].shown = now =>
                                Visible(after, now) = Visible(before, now)
    OBVIOUS
  <2>0. /\ tasks[e].pc = "write" /\ tasks[e].kind = kind /\ saves' = saves + 1
        /\ tasks'[e].pc = "idle" /\ saves \in Nat
        /\ tasks[e] \in Task /\ Carries(tasks[e]) /\ now \in Times
    <3>1. /\ tasks[e].pc = "write" /\ tasks[e].kind = kind /\ saves' = saves + 1
          /\ tasks'[e].pc = "idle"
      BY DEF Saved
    <3>2. saves \in Nat
      BY <1>1, PagesAssumption DEF Inv, TypeOK
    <3>3. tasks[e] \in Task /\ Carries(tasks[e]) /\ now \in Times
      BY <1>1 DEF Inv, TypeOK
    <3> QED BY <3>1, <3>2, <3>3
  <2>1. saves' # saves
    BY <2>0
  <2>2. PICK o \in Editors : Insert(o) \/ Update(o)
    BY <1>1, <2>1 DEF Next, StartCreate, Import, ShowForm, Submit, StartRestore, LoadParent, Climb,
       Leave, Delete, Step, Tick
  <2>3. o = e
    <3> SUFFICES ASSUME o # e PROVE FALSE
      OBVIOUS
    <3>1. tasks' = Finished(o)
      BY <2>2 DEF Insert, Update
    <3>2. tasks'[e] = [tasks[e] EXCEPT !.stale = tasks[e].pc # "idle"]
      BY <3>1 DEF Finished
    <3> QED BY <2>0, <3>2 DEF Task
  <2>4. Update(e)
    BY <2>0, <2>2, <2>3 DEF Insert
  <2>5. /\ Exists(tasks[e].page) /\ tasks[e].page \in Ids
        /\ pages' = [pages EXCEPT ![tasks[e].page] = Written(e)]
    BY <2>4 DEF Update, Written, Save, Find, Exists
  <2>6. pages'[tasks[e].page] = Written(e)
    BY <1>1, <2>5 DEF Inv, TypeOK
  <2>7. /\ Written(e).published = tasks[e].form.published
        /\ Written(e).due = IF kind = "restore" THEN tasks[e].form.due
                            ELSE Normalized(tasks[e].form.published, tasks[e].form.due, now)
    BY <2>0 DEF Written
  <2>8. CASE kind = "restore"
    BY <2>0, <2>5, <2>6, <2>7, <2>8 DEF Carries
  <2>9. CASE kind = "update" /\ tasks[e].shown = now
    <3>1. tasks[e].form.published = Visible(pages[tasks[e].page], now)
      BY <2>0, <2>5, <2>9 DEF Carries, Times, Never
    <3>2. tasks[e].form \in Form
      BY <2>0 DEF Task
    <3>3. Visible(Written(e), now) = tasks[e].form.published
      BY <2>0, <2>7, <2>9, <3>2 DEF Visible, Normalized, Form, Times, Never
    <3> QED BY <2>6, <2>9, <3>1, <3>3
  <2> QED BY <2>8, <2>9
<1>2. Inv /\ [Next]_vars => [Kept]_vars
  BY <1>1
<1> QED BY <1>2, Invariance, PTL DEF Spec, UntouchedKeepsVisibility

-----------------------------------------------------------------------------
(* Induction over the natural numbers, and what a relation reaches.         *)

LEMMA LeastNatural ==
  ASSUME NEW T \in SUBSET Nat, T # {}
  PROVE  \E x \in T : \A y \in T : x <= y
<1>1. PICK x \in T : \A y \in T : ~ (<<y, x>> \in OpToRel(<, Nat))
  BY NatLessThanWellFounded, WFMin
<1>2. \A y, z \in Nat : y < z => <<y, z>> \in OpToRel(<, Nat)
  BY DEF OpToRel
<1>3. ASSUME NEW y \in T PROVE x <= y
  <2>1. x \in Nat /\ y \in Nat
    OBVIOUS
  <2>2. ~(y < x)
    BY <1>1, <1>2, <2>1
  <2> QED BY <2>1, <2>2
<1> QED BY <1>3

LEMMA SetInduction ==
  ASSUME NEW S, 0 \in S, \A n \in Nat : n \in S => n + 1 \in S
  PROVE  Nat \subseteq S
<1> SUFFICES ASSUME NEW m \in Nat, m \notin S PROVE FALSE
  OBVIOUS
<1> DEFINE T == {n \in Nat : n \notin S}
<1>1. PICK x \in T : \A y \in T : x <= y
  BY LeastNatural
<1>2. x # 0 /\ x - 1 \in Nat
  BY <1>1
<1>3. x - 1 \in S
  BY <1>1, <1>2
<1>4. (x - 1) + 1 = x
  BY <1>1
<1> QED BY <1>1, <1>2, <1>3, <1>4

-----------------------------------------------------------------------------
(* What is reached from a place along the pairs of E.                    *)

Spread(E, X) == X \cup {e[2] : e \in {d \in E : d[1] \in X}}

Closed(E, C) == \A e \in E : e[1] \in C => e[2] \in C

\* The places every closed set around a has.
Reached(U, E, a) == {x \in U : \A C \in SUBSET U : a \in C /\ Closed(E, C) => x \in C}

LEMMA ReachedIs ==
  ASSUME NEW U, NEW E \in SUBSET (U \X U), NEW a \in U
  PROVE  /\ Reached(U, E, a) \in SUBSET U /\ a \in Reached(U, E, a)
         /\ Closed(E, Reached(U, E, a))
         /\ \A C \in SUBSET U : a \in C /\ Closed(E, C) => Reached(U, E, a) \subseteq C
<1>1. Closed(E, Reached(U, E, a))
  <2> SUFFICES ASSUME NEW e \in E, e[1] \in Reached(U, E, a) PROVE e[2] \in Reached(U, E, a)
    BY DEF Closed
  <2>1. e[2] \in U
    OBVIOUS
  <2>2. \A C \in SUBSET U : a \in C /\ Closed(E, C) => e[2] \in C
    BY DEF Reached, Closed
  <2> QED BY <2>1, <2>2 DEF Reached
<1> QED BY <1>1 DEF Reached

\* The rounds in which they are reached.
Rounds(f, E, a, n) == f = [k \in 0..n |-> IF k = 0 THEN {a} ELSE Spread(E, f[k - 1])]

LEMMA RoundsExist ==
  ASSUME NEW E, NEW a, NEW n \in Nat
  PROVE  \E f : Rounds(f, E, a, n)
<1> DEFINE F(f, m) == f = [k \in 0..m |-> IF k = 0 THEN {a} ELSE Spread(E, f[k - 1])]
           S == {m \in Nat : \E f : F(f, m)}
<1>1. 0 \in S
  <2>1. F([k \in 0..0 |-> {a}], 0)
    OBVIOUS
  <2> QED BY <2>1
<1>2. ASSUME NEW m \in Nat, m \in S PROVE m + 1 \in S
  <2>1. PICK f : F(f, m)
    BY <1>2
  <2>2. ASSUME NEW k \in 0..m PROVE f[k] = IF k = 0 THEN {a} ELSE Spread(E, f[k - 1])
    BY <2>1
  <2> DEFINE g == [k \in 0..m + 1 |-> IF k = m + 1 THEN Spread(E, f[m]) ELSE f[k]]
  <2>3. /\ \A k \in 0..m : g[k] = f[k]
        /\ g[m + 1] = Spread(E, f[m])
        /\ g = [k \in 0..m + 1 |-> g[k]]
    OBVIOUS
  <2> HIDE DEF g
  <2>4. ASSUME NEW k \in 0..m + 1 PROVE g[k] = IF k = 0 THEN {a} ELSE Spread(E, g[k - 1])
    <3>1. CASE k = m + 1
      <4>1. k # 0 /\ k - 1 = m /\ m \in 0..m
        BY <3>1
      <4> QED BY <2>3, <3>1, <4>1
    <3>2. CASE k # m + 1
      <4>1. k \in 0..m /\ (k # 0 => k - 1 \in 0..m)
        BY <3>2
      <4> QED BY <2>2, <2>3, <4>1
    <3> QED BY <3>1, <3>2
  <2>5. F(g, m + 1)
    BY <2>3, <2>4
  <2>6. m + 1 \in Nat /\ \E h : F(h, m + 1)
    BY <2>5
  <2> QED BY <2>6
<1>3. Nat \subseteq S
  <2> HIDE DEF S
  <2> QED BY <1>1, <1>2, SetInduction
<1>4. PICK f : F(f, n)
  BY <1>3
<1> QED BY <1>4 DEF Rounds

\* After as many rounds as there are places but one, nothing new is reached:
\* every round before the last adds a place.
LEMMA RoundsReach ==
  ASSUME NEW U, IsFiniteSet(U), NEW n \in Nat, Cardinality(U) <= n + 1,
         NEW E \in SUBSET (U \X U), NEW a \in U,
         NEW f, Rounds(f, E, a, n)
  PROVE  f[n] = Reached(U, E, a)
<1> DEFINE S == {m \in Nat : m <= n =>
                    /\ f[m] \in SUBSET U /\ a \in f[m]
                    /\ \A C : a \in C /\ Closed(E, C) => f[m] \subseteq C
                    /\ Closed(E, f[m]) \/ Cardinality(f[m]) >= m + 1}
<1>1. \A k \in 0..n : f[k] = IF k = 0 THEN {a} ELSE Spread(E, f[k - 1])
  BY DEF Rounds
<1>2. f[0] = {a} /\ \A k \in 0..n : k + 1 <= n => f[k + 1] = Spread(E, f[k])
  BY <1>1
<1>3. \A X \in SUBSET U : IsFiniteSet(X) /\ Cardinality(X) \in Nat
  BY FS_Subset, FS_CardinalityType
<1>4. 0 \in S
  <2>1. Cardinality({a}) = 1
    BY FS_Singleton
  <2>2. Cardinality(f[0]) >= 0 + 1
    BY <1>2, <2>1
  <2> QED BY <1>2, <2>2
<1>5. ASSUME NEW m \in Nat, m \in S PROVE m + 1 \in S
  <2> SUFFICES ASSUME m + 1 <= n
               PROVE  /\ f[m + 1] \in SUBSET U /\ a \in f[m + 1]
                      /\ \A C : a \in C /\ Closed(E, C) => f[m + 1] \subseteq C
                      /\ Closed(E, f[m + 1]) \/ Cardinality(f[m + 1]) >= (m + 1) + 1
    OBVIOUS
  <2>1. /\ f[m] \in SUBSET U /\ a \in f[m]
        /\ \A C : a \in C /\ Closed(E, C) => f[m] \subseteq C
        /\ Closed(E, f[m]) \/ Cardinality(f[m]) >= m + 1
    BY <1>5
  <2> HIDE DEF S
  <2> DEFINE X == f[m]  Y == f[m + 1]
  <2>2. Y = X \cup {e[2] : e \in {d \in E : d[1] \in X}}
    BY <1>2 DEF Spread
  <2> HIDE DEF X, Y
  <2>3. \A e \in E : e[2] \in U
    OBVIOUS
  <2>4. Y \in SUBSET U /\ a \in Y /\ X \subseteq Y
    BY <2>1, <2>2, <2>3 DEF X
  <2>5. \A C : a \in C /\ Closed(E, C) => Y \subseteq C
    BY <2>1, <2>2 DEF X, Closed
  <2>6. Closed(E, Y) \/ Cardinality(Y) >= (m + 1) + 1
    <3>1. CASE Closed(E, X)
      BY <2>2, <3>1 DEF Closed
    <3>2. CASE ~Closed(E, X)
      <4>1. PICK y \in Y : y \notin X
        BY <2>2, <3>2 DEF Closed
      <4>2. IsFiniteSet(Y) /\ Cardinality(X) \in Nat /\ Cardinality(Y) \in Nat
        BY <1>3, <2>1, <2>4 DEF X
      <4>3. Cardinality(X) < Cardinality(Y)
        BY <2>4, <4>1, <4>2, FS_Subset, FS_CardinalityType
      <4>4. Cardinality(X) >= m + 1
        BY <2>1, <3>2 DEF X
      <4> QED BY <4>2, <4>3, <4>4
    <3> QED BY <3>1, <3>2
  <2> QED BY <2>4, <2>5, <2>6 DEF Y
<1>6. n \in S
  <2> HIDE DEF S
  <2> QED BY <1>4, <1>5, SetInduction
<1>7. Closed(E, f[n])
  <2>1. f[n] \in SUBSET U /\ (Closed(E, f[n]) \/ Cardinality(f[n]) >= n + 1)
    BY <1>6
  <2>2. CASE Cardinality(f[n]) >= n + 1
    <3>1. f[n] = U
      BY <1>3, <2>1, <2>2, FS_Subset, FS_CardinalityType
    <3> QED BY <3>1 DEF Closed
  <2> QED BY <2>1, <2>2
<1>8. f[n] \in SUBSET U /\ a \in f[n] /\ \A C : a \in C /\ Closed(E, C) => f[n] \subseteq C
  BY <1>6
<1> DEFINE R == Reached(U, E, a)
<1>9. /\ a \in R /\ Closed(E, R)
      /\ \A C \in SUBSET U : a \in C /\ Closed(E, C) => R \subseteq C
  BY ReachedIs
<1> HIDE DEF R
<1>10. f[n] \subseteq R /\ R \subseteq f[n]
  BY <1>7, <1>8, <1>9
<1>11. f[n] = R
  BY <1>10
<1> QED BY <1>11 DEF R

-----------------------------------------------------------------------------
(* The tree of the pages, for any rows.                                     *)

Places == Ids \cup {Top}

There(rows, id) == id \in Ids /\ rows[id] # NoPage

Rows == [Ids -> Row \cup {NoPage}]

UpClosed(rows, C) == \A p \in C : There(rows, p) => rows[p].parent \in C

Up(rows) == {<<p, rows[p].parent>> : p \in {q \in Ids : There(rows, q)}}

\* The page and where parent_id leads from it.
Line(rows, id) == Reached(Places, Up(rows), id)

Depth(rows, id) == Cardinality(Line(rows, id) \cap Ids)

\* No page is above itself.
Rooted(rows) == \A id \in Ids : There(rows, id) => id \notin Line(rows, rows[id].parent)

\* A parent is a page of the same organization.
AtHome(rows) ==
    \A id \in Ids : There(rows, id) /\ rows[id].parent # Top =>
        /\ There(rows, rows[id].parent)
        /\ rows[rows[id].parent].org = rows[id].org

\* A page that was the organization's once: it is so still, or it is gone for good.
Of(rows, next, org, id) == id \in Ids /\ id < next /\ (There(rows, id) => rows[id].org = org)

\* The places a request names are its organization's.
Placed(rows, next, t) ==
    /\ t.pc \in {"walk", "write"} /\ t.form.parent # Top => Of(rows, next, t.org, t.form.parent)
    /\ t.pc = "walk" => /\ t.form.parent # Top /\ t.kind \in {"update", "restore"}
                        /\ Of(rows, next, t.org, t.at)

\* The walk has left V behind, without meeting the page.
Behind(rows, t, V) ==
    /\ t.page \notin V
    /\ t.form.parent \in V \cup {t.at}
    /\ \A v \in V : There(rows, v) => rows[v].parent \in V \cup {t.at, Top}

Climbing(rows, t) ==
    t.pc = "walk" /\ ~t.stale => \E V \in SUBSET Ids : Behind(rows, t, V)

\* What a walk that was not cut short has established: the page is not above its
\* new parent.
Apart(rows, t) ==
    /\ t.pc = "write" /\ t.kind \in {"update", "restore"}
    /\ ~t.stale /\ ~t.short /\ There(rows, t.page)
    => t.page \notin Line(rows, t.form.parent)

Sheltered(rows, t) == Climbing(rows, t) /\ Apart(rows, t)

\* A save was decided on rows that had changed, or on part of a chain.
Excused == overlapped \/ ranOut

TreeInv ==
    /\ AtHome(pages)
    /\ \A e \in Editors : Placed(pages, nextPage, tasks[e])
    /\ Excused \/ (Rooted(pages) /\ \A e \in Editors : Sheltered(pages, tasks[e]))

LEMMA PlacesCounted ==
  IsFiniteSet(Places) /\ Cardinality(Places) = MaxPages + 1 /\ IsFiniteSet(Ids)
  /\ Cardinality(Ids) = MaxPages /\ Top \notin Ids /\ Top \in Places /\ Ids \subseteq Places
<1>1. MaxPages \in Nat /\ MaxPages >= 1
  BY PagesAssumption
<1>2. IsFiniteSet(Ids) /\ Cardinality(Ids) = MaxPages
  BY <1>1, FS_Interval DEF Ids
<1>3. Top \notin Ids
  BY DEF Top, Ids
<1> QED BY <1>1, <1>2, <1>3, FS_AddElement, FS_CardinalityType DEF Places

LEMMA ThereIs ==
  ASSUME NEW rows \in Rows, NEW id, There(rows, id)
  PROVE  id \in Ids /\ rows[id] \in Row /\ rows[id].parent \in Places
BY DEF Rows, There, Row, Places

LEMMA UpTyped == ASSUME NEW rows \in Rows PROVE Up(rows) \in SUBSET (Places \X Places)
BY ThereIs, PlacesCounted DEF Up

LEMMA UpIs == ASSUME NEW rows, NEW C PROVE Closed(Up(rows), C) <=> UpClosed(rows, C)
<1>1. ASSUME Closed(Up(rows), C), NEW p \in C, There(rows, p) PROVE rows[p].parent \in C
  <2> DEFINE e == <<p, rows[p].parent>>
  <2>1. e \in Up(rows)
    BY <1>1 DEF Up, There
  <2>2. e[1] = p /\ e[2] = rows[p].parent
    OBVIOUS
  <2> QED BY <1>1, <2>1, <2>2 DEF Closed
<1>2. ASSUME UpClosed(rows, C), NEW e \in Up(rows), e[1] \in C PROVE e[2] \in C
  <2> PICK p \in {q \in Ids : There(rows, q)} : e = <<p, rows[p].parent>>
    BY DEF Up
  <2> QED BY <1>2 DEF UpClosed
<1> QED BY <1>1, <1>2 DEF Closed, UpClosed

LEMMA LineIs ==
  ASSUME NEW rows \in Rows, NEW id \in Places
  PROVE  /\ Line(rows, id) \in SUBSET Places /\ id \in Line(rows, id)
         /\ UpClosed(rows, Line(rows, id))
         /\ \A C \in SUBSET Places : id \in C /\ UpClosed(rows, C) => Line(rows, id) \subseteq C
BY UpTyped, UpIs, ReachedIs DEF Line

\* The line of a page is the page and its parent's line.
LEMMA LineParts ==
  ASSUME NEW rows \in Rows, NEW id \in Places
  PROVE  /\ ~There(rows, id) => Line(rows, id) = {id}
         /\ There(rows, id) => Line(rows, id) = {id} \cup Line(rows, rows[id].parent)
         /\ \A p \in Line(rows, id) : Line(rows, p) \subseteq Line(rows, id)
<1>1. ASSUME ~There(rows, id) PROVE Line(rows, id) = {id}
  <2>1. {id} \in SUBSET Places /\ UpClosed(rows, {id})
    BY <1>1 DEF UpClosed
  <2>2. Line(rows, id) \subseteq {id} /\ id \in Line(rows, id)
    BY <2>1, LineIs
  <2> QED BY <2>2
<1>2. \A p \in Line(rows, id) : Line(rows, p) \subseteq Line(rows, id)
  BY LineIs
<1>3. ASSUME There(rows, id) PROVE Line(rows, id) = {id} \cup Line(rows, rows[id].parent)
  <2> DEFINE q == rows[id].parent
             C == {id} \cup Line(rows, q)
  <2>1. q \in Places
    BY <1>3, ThereIs
  <2>2. q \in Line(rows, id) /\ id \in Line(rows, id)
    BY <1>3, LineIs DEF UpClosed
  <2>3. C \subseteq Line(rows, id)
    BY <1>2, <2>2
  <2>4. UpClosed(rows, C) /\ C \in SUBSET Places
    BY <2>1, LineIs DEF UpClosed
  <2> QED BY <2>3, <2>4, LineIs
<1> QED BY <1>1, <1>2, <1>3

LEMMA DepthIs ==
  ASSUME NEW rows \in Rows, NEW id \in Places
  PROVE  /\ Depth(rows, id) \in Nat /\ Depth(rows, id) <= MaxPages
         /\ IsFiniteSet(Line(rows, id) \cap Ids)
         /\ id \in Ids => Depth(rows, id) >= 1
<1>1. IsFiniteSet(Line(rows, id) \cap Ids) /\ Cardinality(Line(rows, id) \cap Ids) <= Cardinality(Ids)
  BY PlacesCounted, FS_Subset
<1>2. ASSUME id \in Ids PROVE Cardinality(Line(rows, id) \cap Ids) # 0
  BY <1>1, <1>2, LineIs, FS_EmptySet
<1> QED BY <1>1, <1>2, PlacesCounted, FS_CardinalityType DEF Depth

\* One page less with every step up.
LEMMA ParentLower ==
  ASSUME NEW rows \in Rows, Rooted(rows), NEW id, There(rows, id)
  PROVE  Depth(rows, rows[id].parent) < Depth(rows, id)
<1> DEFINE q == rows[id].parent
<1>1. q \in Places /\ id \in Ids /\ id \in Places
  BY ThereIs, PlacesCounted
<1>2. id \notin Line(rows, q) /\ Line(rows, q) \subseteq Line(rows, id) /\ id \in Line(rows, id)
  BY <1>1, LineParts DEF Rooted
<1>3. (Line(rows, q) \cap Ids) \subseteq (Line(rows, id) \cap Ids)
      /\ (Line(rows, q) \cap Ids) # (Line(rows, id) \cap Ids)
  BY <1>1, <1>2
<1>4. Cardinality(Line(rows, q) \cap Ids) < Cardinality(Line(rows, id) \cap Ids)
  <2> DEFINE A == Line(rows, q) \cap Ids
             B == Line(rows, id) \cap Ids
  <2>1. IsFiniteSet(B) /\ A \subseteq B /\ A # B
    BY <1>1, <1>3, DepthIs
  <2> HIDE DEF A, B
  <2>2. IsFiniteSet(A) /\ Cardinality(A) <= Cardinality(B) /\ Cardinality(A) # Cardinality(B)
    BY <2>1, FS_Subset
  <2>3. Cardinality(A) \in Nat /\ Cardinality(B) \in Nat
    BY <2>1, <2>2, FS_CardinalityType
  <2>4. Cardinality(A) < Cardinality(B)
    BY <2>2, <2>3
  <2> QED BY <2>4 DEF A, B
<1> QED BY <1>4 DEF Depth

\* Pages all of whose parents are among them: there are none.
LEMMA NoLoop ==
  ASSUME NEW rows \in Rows, Rooted(rows), NEW N,
         \A x \in N : There(rows, x) /\ rows[x].parent \in N
  PROVE  N = {}
<1> SUFFICES ASSUME N # {} PROVE FALSE
  OBVIOUS
<1> DEFINE D == {n \in Nat : \E x \in N : n = Depth(rows, x)}
<1>1. \A x \in N : x \in Places
  BY ThereIs, PlacesCounted
<1>2. D # {} /\ D \in SUBSET Nat
  BY <1>1, DepthIs
<1>3. PICK n \in D : \A m \in D : n <= m
  BY <1>2, LeastNatural
<1>4. PICK x \in N : n = Depth(rows, x)
  BY <1>3
<1>5. rows[x].parent \in N /\ Depth(rows, rows[x].parent) < n
  BY <1>4, ParentLower
<1>6. Depth(rows, rows[x].parent) \in D
  BY <1>1, <1>5, DepthIs
<1>7. n <= Depth(rows, rows[x].parent)
  BY <1>3, <1>6
<1>8. n \in Nat /\ Depth(rows, rows[x].parent) \in Nat
  BY <1>2, <1>6
<1> HIDE DEF D
<1> QED BY <1>5, <1>7, <1>8

\* What Above computes, round by round.
LEMMA AboveIs ==
  ASSUME pages \in Rows, NEW id \in Ids
  PROVE  Above(id) = {pages[p].parent : p \in {q \in Line(pages, id) : There(pages, q)}}
<1> DEFINE Body(f) == [n \in 0..MaxPages |->
                         IF n = 0 THEN {id}
                         ELSE f[n - 1] \cup {pages[p].parent : p \in {q \in f[n - 1] : Exists(q)}}]
           chosen == CHOOSE f : f = Body(f)
           E == Up(pages)
<1>0. \A q : Exists(q) <=> There(pages, q)
  BY DEF Exists, There
<1>1. ASSUME NEW X
      PROVE  Spread(E, X) = X \cup {pages[p].parent : p \in {q \in X : Exists(q)}}
  <2> DEFINE Y == X \cup {pages[p].parent : p \in {q \in X : Exists(q)}}
  <2>1. ASSUME NEW y \in Spread(E, X) PROVE y \in Y
    <3>1. CASE y \in X
      BY <3>1
    <3>2. CASE y \in {e[2] : e \in {d \in E : d[1] \in X}}
      <4> PICK e \in E : e[1] \in X /\ y = e[2]
        BY <3>2
      <4> PICK p \in Ids : There(pages, p) /\ e = <<p, pages[p].parent>>
        BY DEF Up
      <4> QED BY <1>0
    <3> QED BY <2>1, <3>1, <3>2 DEF Spread
  <2>2. ASSUME NEW y \in Y PROVE y \in Spread(E, X)
    <3>1. CASE y \in X
      BY <3>1 DEF Spread
    <3>2. CASE y \in {pages[p].parent : p \in {q \in X : Exists(q)}}
      <4> PICK p \in X : Exists(p) /\ y = pages[p].parent
        BY <3>2
      <4> DEFINE e == <<p, pages[p].parent>>
      <4>1. e \in E /\ e[1] = p /\ e[2] = y
        BY <1>0 DEF Up, There
      <4> HIDE DEF e, E
      <4> QED BY <4>1 DEF Spread
    <3> QED BY <2>2, <3>1, <3>2
  <2> QED BY <2>1, <2>2
<1> HIDE DEF E
<1>2. ASSUME NEW f PROVE Rounds(f, E, id, MaxPages) <=> f = Body(f)
  BY <1>1 DEF Rounds
<1>3. PICK g : Rounds(g, E, id, MaxPages)
  BY RoundsExist, PagesAssumption
<1>4. chosen = Body(chosen)
  BY <1>2, <1>3
<1>5. Above(id) = {pages[p].parent : p \in {q \in chosen[MaxPages] : Exists(q)}}
  BY DEF Above
<1> HIDE DEF chosen
<1>6. Rounds(chosen, E, id, MaxPages)
  BY <1>2, <1>4
<1>7. chosen[MaxPages] = Line(pages, id)
  <2>1. id \in Places /\ MaxPages \in Nat /\ Cardinality(Places) <= MaxPages + 1
    BY PlacesCounted, PagesAssumption
  <2>2. E \in SUBSET (Places \X Places)
    BY UpTyped DEF E
  <2> QED BY <1>6, <2>1, <2>2, PlacesCounted, RoundsReach DEF Line, E
<1> QED BY <1>0, <1>5, <1>7

Present == {id \in Ids : There(pages, id)}

\* From a parent to the pages below it that the walk lists.
Down(listed, exclude) == {<<pages[p].parent, p>> : p \in listed \ {exclude}}

LEMMA WalkReaches ==
  ASSUME pages \in Rows, NEW listed \in SUBSET Present, NEW exclude
  PROVE  /\ Walk(listed, exclude) = Reached(Places, Down(listed, exclude), Top) \ {Top}
         /\ Down(listed, exclude) \in SUBSET (Places \X Places)
<1> DEFINE E == Down(listed, exclude)
           Body(f) == [n \in 0..MaxPages |->
                         IF n = 0 THEN {Top}
                         ELSE f[n - 1] \cup {id \in listed \ {exclude} : pages[id].parent \in f[n - 1]}]
           chosen == CHOOSE f : f = Body(f)
<1>0. E \in SUBSET (Places \X Places)
  BY ThereIs, PlacesCounted DEF Down, Present, There
<1>1. ASSUME NEW X
      PROVE  Spread(E, X) = X \cup {id \in listed \ {exclude} : pages[id].parent \in X}
  <2> DEFINE Y == X \cup {id \in listed \ {exclude} : pages[id].parent \in X}
  <2>1. ASSUME NEW y \in Spread(E, X) PROVE y \in Y
    <3>1. CASE y \in X
      BY <3>1
    <3>2. CASE y \in {e[2] : e \in {d \in E : d[1] \in X}}
      <4> PICK e \in E : e[1] \in X /\ y = e[2]
        BY <3>2
      <4> PICK p \in listed \ {exclude} : e = <<pages[p].parent, p>>
        BY DEF Down
      <4> QED OBVIOUS
    <3> QED BY <2>1, <3>1, <3>2 DEF Spread
  <2>2. ASSUME NEW y \in Y PROVE y \in Spread(E, X)
    <3>1. CASE y \in X
      BY <3>1 DEF Spread
    <3>2. CASE y \in listed \ {exclude} /\ pages[y].parent \in X
      <4> DEFINE e == <<pages[y].parent, y>>
      <4>1. e \in E /\ e[1] = pages[y].parent /\ e[2] = y
        BY <3>2 DEF Down
      <4> HIDE DEF e, E
      <4> QED BY <3>2, <4>1 DEF Spread
    <3> QED BY <2>2, <3>1, <3>2
  <2> QED BY <2>1, <2>2
<1> HIDE DEF E
<1>2. ASSUME NEW f PROVE Rounds(f, E, Top, MaxPages) <=> f = Body(f)
  BY <1>1 DEF Rounds
<1>3. PICK g : Rounds(g, E, Top, MaxPages)
  BY RoundsExist, PagesAssumption
<1>4. chosen = Body(chosen)
  BY <1>2, <1>3
<1>5. Walk(listed, exclude) = chosen[MaxPages] \ {Top}
  BY DEF Walk
<1> HIDE DEF chosen
<1>6. Rounds(chosen, E, Top, MaxPages)
  BY <1>2, <1>4
<1>7. chosen[MaxPages] = Reached(Places, E, Top)
  <2>1. Top \in Places /\ MaxPages \in Nat /\ Cardinality(Places) <= MaxPages + 1
    BY PlacesCounted, PagesAssumption
  <2> QED BY <1>0, <1>6, <2>1, PlacesCounted, RoundsReach
<1> QED BY <1>0, <1>5, <1>7 DEF E

\* A set of pages that has all those right below it, and below the top, holds
\* the whole walk.
LEMMA WalkWithin ==
  ASSUME pages \in Rows, NEW listed \in SUBSET Present, NEW exclude, NEW C \in SUBSET Ids,
         \A q \in listed \ {exclude} : pages[q].parent \in C \cup {Top} => q \in C
  PROVE  Walk(listed, exclude) \subseteq C
<1> DEFINE D == C \cup {Top}
<1>1. D \in SUBSET Places /\ Top \in D /\ Top \in Places
  BY PlacesCounted
<1>2. ASSUME NEW e \in Down(listed, exclude), e[1] \in D PROVE e[2] \in D
  <2> PICK q \in listed \ {exclude} : e = <<pages[q].parent, q>>
    BY DEF Down
  <2> QED BY <1>2
<1>3. Closed(Down(listed, exclude), D)
  BY <1>2 DEF Closed
<1> HIDE DEF D
<1>4. Reached(Places, Down(listed, exclude), Top) \subseteq D
  BY <1>1, <1>3, WalkReaches, ReachedIs
<1> QED BY <1>4, WalkReaches DEF D

\* Listed pages whose parents are among them or the top are walked.
LEMMA WalkComplete ==
  ASSUME pages \in Rows, Rooted(pages), NEW listed \in SUBSET Present, NEW exclude,
         NEW G \in SUBSET (listed \ {exclude}),
         \A q \in G : pages[q].parent \in G \cup {Top}
  PROVE  G \subseteq Walk(listed, exclude)
<1> DEFINE W == Reached(Places, Down(listed, exclude), Top)
           N == G \ W
<1>0. Top \in W /\ Closed(Down(listed, exclude), W)
  BY WalkReaches, ReachedIs, PlacesCounted
<1>1. ASSUME NEW q \in listed \ {exclude}, pages[q].parent \in W PROVE q \in W
  <2> DEFINE e == <<pages[q].parent, q>>
  <2>1. e \in Down(listed, exclude) /\ e[1] = pages[q].parent /\ e[2] = q
    BY DEF Down
  <2> HIDE DEF e, W
  <2> QED BY <1>0, <1>1, <2>1 DEF Closed
<1> HIDE DEF W
<1>2. ASSUME NEW q \in N PROVE There(pages, q) /\ pages[q].parent \in N
  BY <1>0, <1>1 DEF Present
<1>3. N = {}
  BY <1>2, NoLoop
<1>4. Walk(listed, exclude) = W \ {Top}
  BY WalkReaches DEF W
<1>5. Top \notin G
  BY PlacesCounted DEF Present
<1> QED BY <1>3, <1>4, <1>5

\* The panel on a tree without loops.
LEMMA TreeShown ==
  ASSUME pages \in Rows, Rooted(pages), AtHome(pages)
  PROVE  PanelShowsTheTree
<1>1. ASSUME NEW id \in Ids PROVE id \notin Above(id)
  <2> SUFFICES ASSUME NEW p \in Line(pages, id), There(pages, p), pages[p].parent = id PROVE FALSE
    BY AboveIs
  <2>1. p \notin Line(pages, id) /\ p \in Ids
    BY DEF Rooted, There
  <2> QED BY <2>1
<1>2. ASSUME NEW org, NEW q \in Owned(org)
      PROVE  /\ q \in Ids /\ q \in Places /\ There(pages, q) /\ pages[q].org = org
             /\ pages[q].parent \in Places
             /\ pages[q].parent = Top \/ pages[q].parent \in Owned(org)
  <2>1. q \in Ids /\ There(pages, q) /\ pages[q].org = org
    BY DEF Owned, Exists, There
  <2>2. pages[q].parent # Top => pages[q].parent \in Owned(org)
    BY <2>1 DEF AtHome, There, Owned, Exists
  <2> QED BY <2>1, <2>2, ThereIs, PlacesCounted
<1>3. ASSUME NEW q \in Present
      PROVE  /\ q \in Ids /\ q \in Places /\ There(pages, q) /\ pages[q].parent \in Places
             /\ pages[q].parent \in Above(q)
             /\ pages[q].parent # Top => pages[q].parent \in Present
             /\ pages[q].parent # Top => Above(q) = Above(pages[q].parent) \cup {pages[q].parent}
             /\ pages[q].parent = Top => Above(q) = {Top}
  <2> DEFINE up == pages[q].parent
  <2>1. q \in Ids /\ q \in Places /\ There(pages, q) /\ up \in Places
    BY ThereIs, PlacesCounted DEF Present
  <2>2. Line(pages, q) = {q} \cup Line(pages, up)
    BY <2>1, LineParts
  <2>3. up \in Above(q)
    BY <2>1, <2>2, AboveIs
  <2>4. ASSUME up # Top
        PROVE  up \in Present /\ Above(q) = Above(up) \cup {up}
    <3>1. There(pages, up) /\ up \in Ids
      BY <2>1, <2>4 DEF AtHome, There
    <3> QED BY <2>1, <2>2, <3>1, AboveIs DEF Present
  <2>5. ASSUME up = Top PROVE Above(q) = {Top}
    <3>1. Line(pages, Top) = {Top} /\ ~There(pages, Top)
      BY LineParts, PlacesCounted DEF There
    <3> QED BY <2>1, <2>2, <2>5, <3>1, AboveIs
  <2> QED BY <2>1, <2>3, <2>4, <2>5
<1>4. ASSUME NEW listed \in SUBSET Present, NEW id
      PROVE  Walk(listed, id) = {p \in Whole(listed) \ {id} : id \notin Above(p) \ {Top}}
  <2> DEFINE G == {p \in Whole(listed) \ {id} : id \notin Above(p) \ {Top}}
  <2>0. G \in SUBSET (listed \ {id}) /\ G \in SUBSET Ids
    BY DEF Whole, Present
  <2>1. ASSUME NEW q \in listed \ {id}, pages[q].parent \in G \cup {Top} PROVE q \in G
    <3> DEFINE up == pages[q].parent
    <3>1. q \in Present
      OBVIOUS
    <3>2. CASE up = Top
      <4>1. Above(q) = {Top}
        BY <1>3, <3>1, <3>2
      <4> QED BY <4>1 DEF Whole
    <3>3. CASE up \in G
      <4>1. up # Top /\ up \in listed /\ Above(up) \ {Top} \subseteq listed
            /\ id \notin Above(up) \ {Top} /\ up # id
        BY <2>0, <3>3, PlacesCounted DEF Whole
      <4>2. Above(q) = Above(up) \cup {up}
        BY <1>3, <3>1, <4>1
      <4> QED BY <4>1, <4>2 DEF Whole
    <3> QED BY <2>1, <3>2, <3>3
  <2>2. ASSUME NEW q \in G PROVE pages[q].parent \in G \cup {Top}
    <3> DEFINE up == pages[q].parent
    <3> SUFFICES ASSUME up # Top PROVE up \in G
      OBVIOUS
    <3>1. q \in Present /\ q \in listed /\ Above(q) \ {Top} \subseteq listed
          /\ id \notin Above(q) \ {Top}
      BY DEF Whole
    <3>2. Above(q) = Above(up) \cup {up}
      BY <1>3, <3>1
    <3> QED BY <3>1, <3>2 DEF Whole
  <2> HIDE DEF G
  <2>3. Walk(listed, id) \subseteq G
    BY <2>0, <2>1, WalkWithin
  <2>4. G \subseteq Walk(listed, id)
    BY <2>0, <2>2, WalkComplete
  <2> QED BY <2>3, <2>4 DEF G
<1>5. ASSUME NEW org, NEW limit, NEW listed \in Listings(org, limit)
      PROVE  /\ ListPages(listed) = Whole(listed)
             /\ listed = Owned(org) => ListPages(listed) = Owned(org)
             /\ \A id \in Owned(org) :
                   ParentOptions(listed, id) = {p \in Whole(listed) \ {id} : id \notin Above(p)}
  <2>1. Owned(org) \in SUBSET Present /\ listed \in SUBSET Owned(org)
    BY DEF Owned, Present, Exists, There, Listings
  <2>2. 0 \notin Whole(listed) /\ 0 = Top
    BY <2>1, PlacesCounted DEF Whole, Present, Top
  <2>3. ListPages(listed) = Whole(listed)
    <3>1. Walk(listed, Top) = {p \in Whole(listed) \ {Top} : Top \notin Above(p) \ {Top}}
      BY <1>4, <2>1
    <3>2. Walk(listed, Top) = Whole(listed)
      BY <2>2, <3>1
    <3> QED BY <2>2, <3>2 DEF ListPages
  <2>4. ASSUME listed = Owned(org) PROVE Walk(listed, 0) = Owned(org)
    <3>1. \A q \in Owned(org) : pages[q].parent \in Owned(org) \cup {Top}
      BY <1>2
    <3>2. 0 \notin Owned(org)
      BY PlacesCounted DEF Owned, Top
    <3>3. listed \in SUBSET (listed \ {0}) /\ listed \in SUBSET Ids /\ listed \in SUBSET Present
      BY <2>1, <2>4, <3>2 DEF Owned
    <3>4. listed \subseteq Walk(listed, 0)
      BY <2>4, <3>1, <3>3, WalkComplete
    <3>5. Walk(listed, 0) \subseteq listed
      BY <3>3, WalkWithin
    <3> QED BY <2>4, <3>4, <3>5
  <2>5. ASSUME NEW id \in Owned(org)
        PROVE  ParentOptions(listed, id) = {p \in Whole(listed) \ {id} : id \notin Above(p)}
    <3>1. id # Top
      BY PlacesCounted DEF Owned
    <3>2. Walk(listed, id) = {p \in Whole(listed) \ {id} : id \notin Above(p) \ {Top}}
      BY <1>4, <2>1
    <3> QED BY <3>1, <3>2 DEF ParentOptions
  <2> QED BY <2>3, <2>4, <2>5 DEF ListPages
<1> QED BY <1>1, <1>5 DEF PanelShowsTheTree, Acyclic

-----------------------------------------------------------------------------
(* What a write does to the tree.                                           *)

\* A page hung below a place that is not below it: no loop is made.
LEMMA Hang ==
  ASSUME NEW rows \in Rows, Rooted(rows), NEW id \in Ids, NEW row \in Row,
         id \notin Line(rows, row.parent)
  PROVE  Rooted([rows EXCEPT ![id] = row])
<1> DEFINE rows1 == [rows EXCEPT ![id] = row]
           q == row.parent
<1>1. /\ rows1 \in Rows /\ rows1[id] = row /\ There(rows1, id)
      /\ \A x \in Ids : x # id => rows1[x] = rows[x]
      /\ \A x : x # id => (There(rows1, x) <=> There(rows, x))
      /\ q \in Places /\ id \in Places
  BY RowsExist, PlacesCounted DEF Rows, There, Row, Places
<1> HIDE DEF rows1
<1>2. Line(rows1, q) \subseteq Line(rows, q)
  <2>1. UpClosed(rows1, Line(rows, q))
    BY <1>1, LineIs DEF UpClosed, There
  <2> QED BY <1>1, <2>1, LineIs
<1>3. ASSUME NEW x \in Places PROVE Line(rows1, x) \subseteq Line(rows, x) \cup Line(rows, q)
  <2> DEFINE C == Line(rows, x) \cup Line(rows, q)
  <2>1. q \in C /\ x \in C /\ C \in SUBSET Places
    BY <1>1, LineIs
  <2>2. ASSUME NEW p \in C, There(rows1, p) PROVE rows1[p].parent \in C
    <3>1. CASE p = id
      BY <1>1, <2>1, <3>1
    <3>2. CASE p # id
      <4>1. There(rows, p) /\ rows1[p] = rows[p]
        BY <1>1, <2>2, <3>2 DEF There
      <4> QED BY <1>1, <4>1, LineIs DEF UpClosed
    <3> QED BY <3>1, <3>2
  <2>3. UpClosed(rows1, C)
    BY <2>2 DEF UpClosed
  <2> HIDE DEF C
  <2>4. Line(rows1, x) \subseteq C
    BY <1>1, <2>1, <2>3, LineIs
  <2> QED BY <2>4 DEF C
<1>4. ASSUME NEW x \in Ids, There(rows1, x) PROVE x \notin Line(rows1, rows1[x].parent)
  <2>1. CASE x = id
    BY <1>1, <1>2, <2>1
  <2>2. CASE x # id
    <3> DEFINE p == rows[x].parent
    <3>1. There(rows, x) /\ rows1[x] = rows[x] /\ p \in Places
      BY <1>1, <1>4, <2>2, ThereIs
    <3>2. x \notin Line(rows, p)
      BY <3>1 DEF Rooted
    <3> SUFFICES ASSUME x \in Line(rows1, p) PROVE FALSE
      BY <3>1
    <3>3. x \in Line(rows, q)
      BY <1>3, <3>1, <3>2
    <3>4. CASE id \in Line(rows, p)
      \* then id hangs below x, and its new parent above it
      <4>1. p \in Line(rows, q)
        BY <1>1, <3>1, <3>3, LineIs DEF UpClosed
      <4>2. id \in Line(rows, q)
        BY <1>1, <3>4, <4>1, LineParts
      <4> QED BY <4>2
    <3>5. CASE id \notin Line(rows, p)
      <4>1. UpClosed(rows1, Line(rows, p))
        BY <1>1, <3>1, <3>5, LineIs DEF UpClosed, There
      <4>2. Line(rows1, p) \subseteq Line(rows, p)
        BY <1>1, <3>1, <4>1, LineIs
      <4> QED BY <3>2, <4>2
    <3> QED BY <3>4, <3>5
  <2> QED BY <2>1, <2>2
<1>5. Rooted(rows1)
  BY <1>4 DEF Rooted
<1> QED BY <1>5 DEF rows1

\* A page gone, its children at the top: every line gets shorter.
Removed(rows, id) ==
    [p \in Ids |-> IF p = id THEN NoPage
                   ELSE IF There(rows, p) /\ rows[p].parent = id
                        THEN [rows[p] EXCEPT !.parent = Top]
                        ELSE rows[p]]

LEMMA RemovedIs ==
  ASSUME NEW rows \in Rows, NEW id \in Ids
  PROVE  /\ Removed(rows, id) \in Rows
         /\ \A x : There(Removed(rows, id), x) <=> There(rows, x) /\ x # id
         /\ \A x : There(Removed(rows, id), x) =>
               /\ Removed(rows, id)[x].org = rows[x].org
               /\ Removed(rows, id)[x].parent = IF rows[x].parent = id THEN Top ELSE rows[x].parent
<1> DEFINE rows1 == Removed(rows, id)
<1>1. ASSUME NEW x \in Ids, x # id, There(rows, x)
      PROVE  /\ rows1[x] \in Row /\ There(rows1, x)
             /\ rows1[x].org = rows[x].org
             /\ rows1[x].parent = IF rows[x].parent = id THEN Top ELSE rows[x].parent
  <2>1. rows[x] \in Row
    BY <1>1, ThereIs
  <2> DEFINE up == [rows[x] EXCEPT !.parent = Top]
  <2>2. up \in Row /\ up.parent = Top /\ up.org = rows[x].org
    BY <2>1 DEF Row
  <2>3. rows1[x] = IF rows[x].parent = id THEN up ELSE rows[x]
    BY <1>1 DEF Removed
  <2> HIDE DEF up, rows1
  <2>4. rows1[x] \in Row
    BY <2>1, <2>2, <2>3
  <2> QED BY <2>2, <2>3, <2>4, RowsExist DEF There
<1>2. rows1[id] = NoPage
  BY DEF Removed
<1>3. \A x \in Ids : x # id /\ ~There(rows, x) => rows1[x] = NoPage
  BY DEF Removed, There
<1>4. rows1 = [x \in Ids |-> rows1[x]]
  BY DEF Removed
<1> HIDE DEF rows1
<1>5. \A x \in Ids : rows1[x] \in Row \cup {NoPage}
  BY <1>1, <1>2, <1>3
<1>6. rows1 \in Rows
  BY <1>4, <1>5 DEF Rows
<1>7. \A x : There(rows1, x) <=> There(rows, x) /\ x # id
  BY <1>1, <1>2, <1>3 DEF There
<1>8. \A x : There(rows1, x) => x \in Ids
  BY DEF There
<1> QED BY <1>1, <1>6, <1>7, <1>8 DEF rows1

LEMMA RemovedLines ==
  ASSUME NEW rows \in Rows, NEW id \in Ids, NEW x \in Places
  PROVE  Line(Removed(rows, id), x) \subseteq Line(rows, x) \cup {Top}
<1> DEFINE rows1 == Removed(rows, id)
           C == Line(rows, x) \cup {Top}
<1>1. /\ rows1 \in Rows
      /\ \A p : There(rows1, p) => There(rows, p) /\ rows1[p].parent \in {Top, rows[p].parent}
  BY RemovedIs
<1> HIDE DEF rows1
<1>2. x \in C /\ C \in SUBSET Places
  BY LineIs, PlacesCounted
<1>3. UpClosed(rows1, C)
  <2> SUFFICES ASSUME NEW p \in C, There(rows1, p) PROVE rows1[p].parent \in C
    BY DEF UpClosed
  <2>1. p \in Line(rows, x)
    BY PlacesCounted DEF There
  <2>2. rows[p].parent \in C
    BY <1>1, <2>1, LineIs DEF UpClosed
  <2> QED BY <1>1, <2>2
<1> HIDE DEF C
<1>4. Line(rows1, x) \subseteq C
  BY <1>1, <1>2, <1>3, LineIs
<1> QED BY <1>4 DEF C, rows1

LEMMA RemovedKeeps ==
  ASSUME NEW rows \in Rows, NEW id \in Ids
  PROVE  /\ Rooted(rows) => Rooted(Removed(rows, id))
         /\ AtHome(rows) => AtHome(Removed(rows, id))
         /\ \A next, t : Placed(rows, next, t) => Placed(Removed(rows, id), next, t)
         /\ \A t \in Task : Sheltered(rows, t) => Sheltered(Removed(rows, id), t)
<1> DEFINE rows1 == Removed(rows, id)
<1>0. /\ rows1 \in Rows
      /\ \A p : There(rows1, p) => /\ There(rows, p) /\ p # id /\ rows1[p].org = rows[p].org
                                   /\ rows1[p].parent = IF rows[p].parent = id THEN Top ELSE rows[p].parent
      /\ \A p : There(rows, p) /\ p # id => There(rows1, p)
      /\ \A x \in Places : Line(rows1, x) \subseteq Line(rows, x) \cup {Top}
  BY RemovedIs, RemovedLines
<1> HIDE DEF rows1
<1>1. ASSUME Rooted(rows) PROVE Rooted(rows1)
  <2> SUFFICES ASSUME NEW x \in Ids, There(rows1, x), x \in Line(rows1, rows1[x].parent) PROVE FALSE
    BY DEF Rooted
  <2>1. There(rows, x) /\ rows[x].parent \in Places /\ x # Top
    BY <1>0, ThereIs, PlacesCounted
  <2>2. CASE rows1[x].parent = Top
    <3>1. Line(rows1, Top) = {Top}
      BY <1>0, LineParts, PlacesCounted DEF There
    <3> QED BY <2>1, <2>2, <3>1
  <2>3. CASE rows1[x].parent = rows[x].parent
    BY <1>0, <1>1, <2>1, <2>3 DEF Rooted
  <2> QED BY <1>0, <2>2, <2>3
<1>2. ASSUME AtHome(rows) PROVE AtHome(rows1)
  <2> SUFFICES ASSUME NEW x \in Ids, There(rows1, x), rows1[x].parent # Top
               PROVE  There(rows1, rows1[x].parent) /\ rows1[rows1[x].parent].org = rows1[x].org
    BY DEF AtHome
  <2>1. /\ There(rows, x) /\ rows1[x].parent = rows[x].parent /\ rows[x].parent # id
        /\ rows1[x].org = rows[x].org
    BY <1>0
  <2>2. There(rows, rows[x].parent) /\ rows[rows[x].parent].org = rows[x].org
    BY <1>2, <2>1 DEF AtHome
  <2> QED BY <1>0, <2>1, <2>2
<1>3. ASSUME NEW next, NEW t, Placed(rows, next, t) PROVE Placed(rows1, next, t)
  <2>1. \A org, p : Of(rows, next, org, p) => Of(rows1, next, org, p)
    BY <1>0 DEF Of
  <2> QED BY <1>3, <2>1 DEF Placed
<1>4. ASSUME NEW t \in Task, Climbing(rows, t) PROVE Climbing(rows1, t)
  <2> SUFFICES ASSUME t.pc = "walk", ~t.stale PROVE \E V \in SUBSET Ids : Behind(rows1, t, V)
    BY DEF Climbing
  <2>1. PICK V \in SUBSET Ids : Behind(rows, t, V)
    BY <1>4 DEF Climbing
  <2>2. Behind(rows1, t, V)
    BY <1>0, <2>1 DEF Behind
  <2> QED BY <2>2
<1>5. ASSUME NEW t \in Task, Apart(rows, t) PROVE Apart(rows1, t)
  <2>1. t.form.parent \in Places
    BY DEF Task, Form, Places
  <2>2. There(rows1, t.page) => There(rows, t.page) /\ t.page # Top
    BY <1>0, PlacesCounted DEF There
  <2> QED BY <1>0, <1>5, <2>1, <2>2 DEF Apart
<1>6. \A t \in Task : Sheltered(rows, t) => Sheltered(rows1, t)
  BY <1>4, <1>5 DEF Sheltered
<1> QED BY <1>1, <1>2, <1>3, <1>6 DEF rows1

-----------------------------------------------------------------------------
(* The requests on the tree.                                                *)

\* What the request at hand carries is sound, unless saves have overlapped or a walk was
\* cut short.
Housed(t) == Placed(pages, nextPage, t) /\ (Excused \/ Sheltered(pages, t))

LEMMA TreeInvIs ==
  TreeInv <=> /\ AtHome(pages)
              /\ Excused \/ Rooted(pages)
              /\ \A e \in Editors : Housed(tasks[e])
BY DEF TreeInv, Housed

\* Only a request that walks or is about to write has anything to show.
LEMMA OutsideHoused ==
  ASSUME NEW t, t.pc \notin {"walk", "write"} PROVE Housed(t)
BY DEF Housed, Placed, Sheltered, Climbing, Apart

LEMMA StepHouses ==
  ASSUME Inv, TreeInv, NEW e \in Editors, NEW CONSTANT task, Housed(task), Step(e, task)
  PROVE  TreeInv'
<1>1. /\ pages' = pages /\ nextPage' = nextPage /\ Excused' = Excused
      /\ \A x \in Editors : tasks'[x] = tasks[x] \/ tasks'[x] = task
  BY DEF Step, Inv, TypeOK, Excused
<1>2. ASSUME NEW x \in Editors
      PROVE  /\ Placed(pages', nextPage', tasks'[x])
             /\ Excused' \/ Sheltered(pages', tasks'[x])
  BY <1>1 DEF TreeInv, Housed
<1>3. AtHome(pages') /\ (Excused' \/ Rooted(pages'))
  BY <1>1 DEF TreeInv
<1> QED BY <1>2, <1>3 DEF TreeInv

\* A form without a parent goes straight to its write: the top is below nothing.
LEMMA CheckedHoused ==
  ASSUME Inv, NEW t \in Task PROVE Housed(Checked(t))
<1> DEFINE pc1 == IF t.form.parent = Top THEN "write" ELSE "parent"
           u == [t EXCEPT !.pc = pc1]
<1>1. Checked(t) = u /\ pages \in Rows
  BY DEF Checked, Inv, TypeOK, Rows
<1>2. u.pc = pc1 /\ u.form = t.form /\ u.page = t.page
  BY DEF Task
<1>3. CASE t.form.parent = Top
  <2>1. Line(pages, Top) = {Top}
    BY <1>1, LineParts, PlacesCounted DEF There
  <2>2. Apart(pages, u)
    BY <1>2, <1>3, <2>1, PlacesCounted DEF Apart, There
  <2>3. u.pc = "write" /\ u.form.parent = Top
    BY <1>2, <1>3
  <2> HIDE DEF u
  <2>4. Climbing(pages, u) /\ Placed(pages, nextPage, u)
    BY <2>3 DEF Climbing, Placed
  <2> QED BY <1>1, <2>2, <2>4 DEF Housed, Sheltered
<1>4. CASE t.form.parent # Top
  <2>1. u.pc = "parent"
    BY <1>2, <1>4
  <2> HIDE DEF u
  <2> QED BY <1>1, <2>1, OutsideHoused
<1> QED BY <1>3, <1>4

\* The requests that have not looked at the parent yet.
LEMMA EarlyHouses ==
  ASSUME Inv, TreeInv, NEW e \in Editors,
         \/ StartCreate(e) \/ Import(e) \/ ShowForm(e) \/ Submit(e) \/ StartRestore(e) \/ Leave(e)
  PROVE  TreeInv'
<1>0. pages \in Rows /\ tasks \in [Editors -> Task] /\ now \in Times
  BY DEF Inv, TypeOK, Rows
<1>1. CASE StartCreate(e)
  <2> PICK org \in Orgs, form \in Entered :
             Step(e, Checked([Idle EXCEPT !.kind = "create", !.org = org, !.form = form]))
    BY <1>1 DEF StartCreate
  <2> DEFINE t == [Idle EXCEPT !.kind = "create", !.org = org, !.form = form]
  <2>1. t \in Task
    BY IdleOK, EnteredForms DEF Task
  <2> HIDE DEF t
  <2>2. Housed(Checked(t))
    BY <2>1, CheckedHoused
  <2> QED BY <2>2, StepHouses DEF t
<1>2. CASE Import(e)
  <2> PICK org \in Orgs : Step(e, [Idle EXCEPT !.kind = "create", !.org = org, !.pc = "write"])
    BY <1>2 DEF Import
  <2> DEFINE t == [Idle EXCEPT !.kind = "create", !.org = org, !.pc = "write"]
  <2>1. t.pc = "write" /\ t.kind = "create" /\ t.form = Draft
    BY IdleOK DEF Task, Idle
  <2> HIDE DEF t
  <2>2. t.form.parent = Top
    BY <2>1 DEF Draft
  <2>3. Housed(t)
    BY <2>1, <2>2 DEF Housed, Placed, Sheltered, Climbing, Apart
  <2> QED BY <2>3, StepHouses DEF t
<1>3. CASE ShowForm(e)
  <2> PICK org \in Orgs, id \in Ids :
           Step(e, [Idle EXCEPT !.pc = "editing", !.kind = "update", !.org = org,
                                !.page = id, !.form = EditForm(pages[id], now),
                                !.shown = now])
    BY <1>3 DEF ShowForm
  <2> DEFINE t == [Idle EXCEPT !.pc = "editing", !.kind = "update", !.org = org,
                               !.page = id, !.form = EditForm(pages[id], now),
                               !.shown = now]
  <2>1. t.pc = "editing"
    BY DEF Idle
  <2> HIDE DEF t
  <2>2. Housed(t)
    BY <2>1, OutsideHoused
  <2> QED BY <2>2, StepHouses DEF t
<1>4. CASE Submit(e)
  <2> PICK form \in Entered \cup {tasks[e].form} :
           Step(e, Checked([tasks[e] EXCEPT !.form = form,
                   !.shown = IF form = tasks[e].form THEN @ ELSE Never]))
    BY <1>4 DEF Submit
  <2> DEFINE shown1 == IF form = tasks[e].form THEN tasks[e].shown ELSE Never
             t == [tasks[e] EXCEPT !.form = form, !.shown = shown1]
  <2>1. tasks[e] \in Task
    BY <1>0
  <2>2. form \in Form /\ shown1 \in Times \cup {Never}
    BY <2>1, EnteredForms DEF Task
  <2> HIDE DEF shown1
  <2>3. t \in Task
    BY <2>1, <2>2 DEF Task
  <2> HIDE DEF t
  <2>4. Housed(Checked(t))
    BY <2>3, CheckedHoused
  <2> QED BY <2>4, StepHouses DEF t, shown1
<1>5. CASE StartRestore(e)
  <2> PICK org \in Orgs, id \in Ids : \E r \in Snapshots(org, id) :
           Step(e, Checked([Idle EXCEPT !.kind = "restore", !.org = org, !.page = id,
                !.form = [parent |-> r.parent, published |-> pages[id].published,
                          due |-> pages[id].due]]))
    BY <1>5 DEF StartRestore
  <2> PICK r \in Snapshots(org, id) :
           Step(e, Checked([Idle EXCEPT !.kind = "restore", !.org = org, !.page = id,
                !.form = [parent |-> r.parent, published |-> pages[id].published,
                          due |-> pages[id].due]]))
    OBVIOUS
  <2> DEFINE form == [parent |-> r.parent, published |-> pages[id].published, due |-> pages[id].due]
             t == [Idle EXCEPT !.kind = "restore", !.org = org, !.page = id, !.form = form]
  <2>1. pages[id] \in Row /\ r \in Revision
    BY DEF Inv, TypeOK, Find, Exists, Snapshots
  <2>2. form \in Form
    BY <2>1 DEF Form, Row, Revision
  <2> HIDE DEF form
  <2>3. t \in Task
    BY <2>2, IdleOK DEF Task
  <2> HIDE DEF t
  <2>4. Housed(Checked(t))
    BY <2>3, CheckedHoused
  <2> QED BY <2>4, StepHouses DEF t, form
<1>6. CASE Leave(e)
  <2>1. Housed(Idle)
    BY IdleOK, OutsideHoused
  <2> QED BY <1>6, <2>1, StepHouses DEF Leave
<1> QED BY <1>1, <1>2, <1>3, <1>4, <1>5, <1>6

LEMMA FindIs ==
  ASSUME NEW org, NEW id PROVE Find(org, id) <=> There(pages, id) /\ pages[id].org = org
BY DEF Find, Exists, There

\* load_page of the parent: a new page needs no walk, another one starts it.
LEMMA LoadParentHouses ==
  ASSUME Inv, TreeInv, NEW e \in Editors, LoadParent(e)
  PROVE  TreeInv'
<1> DEFINE t == tasks[e]
           p == t.form.parent
<1>0. /\ pages \in Rows /\ t \in Task /\ Staged(t) /\ t.pc = "parent" /\ t.hops = 0
      /\ There(pages, p) /\ pages[p].org = t.org /\ p \in Ids /\ p # Top
      /\ Of(pages, nextPage, t.org, p)
  <2>1. pages \in Rows /\ t \in Task /\ Staged(t) /\ t.pc = "parent" /\ t.hops = 0
    BY DEF Inv, TypeOK, Rows, LoadParent, Staged
  <2>2. There(pages, p) /\ pages[p].org = t.org /\ p \in Ids
    BY FindIs DEF LoadParent, There
  <2>3. p # Top /\ p < nextPage
    BY <2>2, PlacesCounted DEF Inv, Fresh, Exists, There
  <2> QED BY <2>1, <2>2, <2>3 DEF Of
<1>1. CASE t.kind = "create"
  <2> DEFINE u == [t EXCEPT !.pc = "write"]
  <2>1. u.pc = "write" /\ u.kind = "create" /\ u.form = t.form /\ u.org = t.org
    BY <1>0, <1>1 DEF Task
  <2>2. Step(e, u)
    BY <1>1 DEF LoadParent
  <2> HIDE DEF u
  <2>3. Housed(u)
    BY <1>0, <2>1 DEF Housed, Placed, Sheltered, Climbing, Apart
  <2> HIDE DEF t
  <2> QED BY <2>2, <2>3, StepHouses
<1>2. CASE t.kind # "create"
  <2> DEFINE u == [t EXCEPT !.pc = "walk", !.at = p]
  <2>1. /\ u.pc = "walk" /\ u.kind = t.kind /\ u.form = t.form /\ u.org = t.org /\ u.at = p
        /\ u.hops = 0 /\ u.page = t.page /\ u.stale = t.stale
    BY <1>0 DEF Task
  <2>2. t.kind \in {"update", "restore"}
    BY <1>0, <1>2 DEF Task, Staged
  <2>3. Step(e, u)
    BY <1>2 DEF LoadParent
  <2> HIDE DEF u
  <2>4. Placed(pages, nextPage, u)
    BY <1>0, <2>1, <2>2 DEF Placed
  <2>5. Behind(pages, u, {})
    BY <2>1 DEF Behind
  <2>6. Climbing(pages, u)
    BY <2>5 DEF Climbing
  <2>7. Apart(pages, u)
    BY <2>1 DEF Apart
  <2> QED BY <2>3, <2>4, <2>6, <2>7, StepHouses DEF Housed, Sheltered
<1> QED BY <1>1, <1>2

\* Where the walk goes from a place.
NextUp(t) == IF Find(t.org, t.at) THEN pages[t.at].parent ELSE Top

\* The walk meets every page above: at the top it has all of them behind it.
LEMMA ClimbShelters ==
  ASSUME Inv, TreeInv, ~Excused, NEW t \in Task, t.pc = "walk", ~t.stale,
         Housed(t), t.at # t.page, NEW V \in SUBSET Ids, Behind(pages, t, V)
  PROVE  /\ NextUp(t) \in {Top, t.at} /\ There(pages, t.page)
               => t.page \notin Line(pages, t.form.parent)
         /\ NextUp(t) \notin {Top, t.at} =>
              /\ t.page \notin V \cup {t.at}
              /\ t.form.parent \in V \cup {t.at}
              /\ \A v \in V \cup {t.at} : There(pages, v) =>
                     pages[v].parent \in V \cup {t.at} \cup {NextUp(t), Top}
<1> DEFINE at == t.at
           next == NextUp(t)
<1>0. /\ pages \in Rows /\ Rooted(pages) /\ at \in Ids /\ at \in Places
      /\ (There(pages, at) => pages[at].org = t.org)
  BY PlacesCounted DEF Inv, TypeOK, Rows, TreeInv, Housed, Placed, Of
<1>1. /\ There(pages, at) => next = pages[at].parent
      /\ ~There(pages, at) => next = Top
  BY <1>0, FindIs DEF NextUp
<1>2. /\ t.page \notin V /\ t.form.parent \in V \cup {at}
      /\ \A v \in V : There(pages, v) => pages[v].parent \in V \cup {at, Top}
  BY DEF Behind
<1>3. t.page \notin V \cup {at}
  BY <1>2
<1> HIDE DEF next
<1>4. ASSUME next \in {Top, at}, There(pages, t.page)
      PROVE  t.page \notin Line(pages, t.form.parent)
  <2>1. There(pages, at) => next = Top
    BY <1>0, <1>1, <1>4, LineIs, ThereIs DEF Rooted
  <2> DEFINE C == V \cup {at, Top}
  <2>2. C \in SUBSET Places /\ t.form.parent \in C /\ t.form.parent \in Places
    BY <1>0, <1>2, PlacesCounted
  <2>3. UpClosed(pages, C)
    <3> SUFFICES ASSUME NEW v \in C, There(pages, v) PROVE pages[v].parent \in C
      BY DEF UpClosed
    <3>1. CASE v \in V
      BY <1>2, <3>1
    <3>2. CASE v = at
      BY <1>1, <2>1, <3>2
    <3>3. v # Top
      BY PlacesCounted DEF There
    <3> QED BY <3>1, <3>2, <3>3
  <2> HIDE DEF C
  <2>4. Line(pages, t.form.parent) \subseteq C
    BY <1>0, <2>2, <2>3, LineIs
  <2>5. t.page # Top
    BY <1>4, PlacesCounted DEF There
  <2> QED BY <1>3, <2>4, <2>5 DEF C
<1>5. ASSUME next \notin {Top, at}
      PROVE  \A v \in V \cup {at} : There(pages, v) =>
                 pages[v].parent \in V \cup {at} \cup {next, Top}
  BY <1>1, <1>2, <1>5
<1> QED BY <1>2, <1>3, <1>4, <1>5 DEF next

\* ancestors, one hop.
LEMMA ClimbHouses ==
  ASSUME Inv, TreeInv, NEW e \in Editors, Climb(e)
  PROVE  TreeInv'
<1> DEFINE t == tasks[e]
           next == NextUp(t)
<1>0. /\ t \in Task /\ Staged(t) /\ Housed(t) /\ t.pc = "walk" /\ t.at # t.page
      /\ t.kind \in {"update", "restore"} /\ pages \in Rows
      /\ t.form.parent # Top /\ Of(pages, nextPage, t.org, t.form.parent)
  <2>1. t \in Task /\ Staged(t) /\ Housed(t) /\ t.pc = "walk" /\ t.at # t.page /\ pages \in Rows
    BY TreeInvIs DEF Inv, TypeOK, Climb, Rows
  <2> QED BY <2>1 DEF Housed, Placed
<1>1. Step(e, IF next \in {Top, t.at} \/ t.hops + 1 = MaxHops
              THEN [t EXCEPT !.at = 0, !.hops = 0, !.pc = "write",
                             !.short = next \notin {Top, t.at}]
              ELSE [t EXCEPT !.at = next, !.hops = @ + 1])
  BY DEF Climb, NextUp
<1>2. ~Excused /\ ~t.stale => \E V \in SUBSET Ids : Behind(pages, t, V)
  BY <1>0 DEF Housed, Sheltered, Climbing
<1>3. CASE next \in {Top, t.at} \/ t.hops + 1 = MaxHops
  <2> DEFINE short1 == next \notin {Top, t.at}
             u == [t EXCEPT !.at = 0, !.hops = 0, !.pc = "write", !.short = short1]
  <2>1. Step(e, u)
    BY <1>1, <1>3
  <2>2. /\ u.pc = "write" /\ u.kind = t.kind /\ u.form = t.form /\ u.org = t.org
        /\ u.page = t.page /\ u.stale = t.stale /\ u.short = short1
    BY <1>0 DEF Task
  <2> HIDE DEF u, t, next
  <2>3. Placed(pages, nextPage, u) /\ Climbing(pages, u)
    BY <1>0, <2>2 DEF Placed, Climbing
  <2>4. ASSUME ~Excused, ~t.stale, ~short1, There(pages, t.page)
        PROVE  t.page \notin Line(pages, t.form.parent)
    BY <1>0, <1>2, <2>4, ClimbShelters DEF next
  <2>5. Excused \/ Apart(pages, u)
    BY <2>2, <2>4 DEF Apart
  <2>6. Housed(u)
    BY <2>3, <2>5 DEF Housed, Sheltered
  <2> QED BY <2>1, <2>6, StepHouses
<1>4. CASE ~(next \in {Top, t.at} \/ t.hops + 1 = MaxHops)
  <2> DEFINE u == [t EXCEPT !.at = next, !.hops = @ + 1]
  <2>1. Step(e, u)
    BY <1>1, <1>4
  <2>2. /\ u.pc = "walk" /\ u.kind = t.kind /\ u.form = t.form /\ u.org = t.org
        /\ u.page = t.page /\ u.stale = t.stale /\ u.at = next /\ u.hops = t.hops + 1
    BY <1>0 DEF Task
  <2>3. Of(pages, nextPage, t.org, next)
    <3>1. There(pages, t.at) /\ pages[t.at].org = t.org /\ next = pages[t.at].parent /\ next # Top
      BY <1>4, FindIs DEF NextUp
    <3>2. There(pages, next) /\ pages[next].org = t.org
      BY <3>1 DEF TreeInv, AtHome, There
    <3>3. next \in Ids /\ next < nextPage
      BY <3>2 DEF Inv, Fresh, Exists, There
    <3> QED BY <3>2, <3>3 DEF Of
  <2> HIDE DEF u, t, next
  <2>4. Placed(pages, nextPage, u) /\ Apart(pages, u)
    BY <1>0, <2>2, <2>3 DEF Placed, Apart
  <2>5. ASSUME ~Excused, ~t.stale
        PROVE  \E V \in SUBSET Ids : Behind(pages, u, V)
    <3> PICK V \in SUBSET Ids : Behind(pages, t, V)
      BY <1>2, <2>5
    <3> DEFINE V1 == V \cup {t.at}
    <3>1. /\ t.page \notin V1 /\ t.form.parent \in V1
          /\ \A v \in V1 : There(pages, v) => pages[v].parent \in V1 \cup {next, Top}
      BY <1>0, <1>4, <2>5, ClimbShelters DEF next
    <3>2. t.at \in Ids
      BY <1>0 DEF Housed, Placed, Of
    <3>3. V1 \in SUBSET Ids
      BY <3>2
    <3> HIDE DEF V1
    <3>4. Behind(pages, u, V1)
      BY <2>2, <3>1 DEF Behind
    <3> QED BY <2>2, <3>1, <3>3, <3>4
  <2>6. Excused \/ Climbing(pages, u)
    BY <2>2, <2>5 DEF Climbing
  <2>7. Housed(u)
    BY <2>4, <2>6 DEF Housed, Sheltered
  <2> QED BY <2>1, <2>7, StepHouses
<1> QED BY <1>3, <1>4

\* A row lands: everybody else has looked at an older tree.
LEMMA SaveHouses ==
  ASSUME Inv, TreeInv, NEW e \in Editors, NEW CONSTANT id \in Ids, NEW CONSTANT row \in Row,
         Save(id, row), tasks' = Finished(e),
         \/ There(pages, id) /\ pages[id].org = row.org /\ nextPage' = nextPage
         \/ id = nextPage /\ nextPage' = nextPage + 1,
         row.parent # Top => Of(pages, nextPage, row.org, row.parent),
         Excused' \/ (Rooted(pages) /\ id \notin Line(pages, row.parent))
  PROVE  TreeInv'
<1>0. /\ pages \in Rows /\ pages' = [pages EXCEPT ![id] = row] /\ tasks \in [Editors -> Task]
      /\ AtHome(pages) /\ nextPage \in Nat /\ nextPage <= nextPage'
      /\ row.parent = Top \/ There(pages, row.parent)
      /\ \A x : There(pages, x) => x < nextPage
      /\ nextPage' \in Nat
  <2>1. nextPage \in Nat
    BY DEF Inv, TypeOK
  <2> QED BY <2>1 DEF Inv, TypeOK, Rows, TreeInv, Save, Exists, There, Fresh
<1>1. /\ pages'[id] = row /\ There(pages', id)
      /\ \A x \in Ids : x # id => pages'[x] = pages[x]
      /\ \A x : x # id => (There(pages', x) <=> There(pages, x))
  BY <1>0, RowsExist DEF Rows, There
<1>2. There(pages, id) => pages[id].org = row.org
  BY <1>0
<1>3. AtHome(pages')
  <2> SUFFICES ASSUME NEW x \in Ids, There(pages', x), pages'[x].parent # Top
               PROVE  /\ There(pages', pages'[x].parent)
                      /\ pages'[pages'[x].parent].org = pages'[x].org
    BY DEF AtHome
  <2> DEFINE p == pages'[x].parent
  <2>1. There(pages, p) /\ pages[p].org = pages'[x].org
    <3>1. CASE x = id
      BY <1>0, <1>1, <3>1 DEF Of
    <3>2. CASE x # id
      BY <1>0, <1>1, <3>2 DEF AtHome
    <3> QED BY <3>1, <3>2
  <2>2. CASE p = id
    BY <1>1, <1>2, <2>1, <2>2
  <2>3. CASE p # id
    BY <1>1, <2>1, <2>3 DEF There
  <2> QED BY <2>2, <2>3
<1>4. ASSUME NEW org, NEW p, Of(pages, nextPage, org, p) PROVE Of(pages', nextPage', org, p)
  <2>1. p \in Ids /\ p < nextPage /\ p \in Nat
    BY <1>4 DEF Of, Ids
  <2>2. p < nextPage'
    BY <1>0, <2>1
  <2>3. CASE p = id
    <3>1. id # nextPage
      BY <1>0, <2>1, <2>3
    <3> QED BY <1>1, <1>4, <2>1, <2>2, <2>3, <3>1 DEF Of
  <2>4. CASE p # id
    BY <1>1, <1>4, <2>1, <2>2, <2>4 DEF Of
  <2> QED BY <2>3, <2>4
<1>5. ASSUME NEW x \in Editors
      PROVE  Placed(pages', nextPage', tasks'[x]) /\ Sheltered(pages', tasks'[x])
  <2>1. CASE x = e \/ tasks[x].pc = "idle"
    <3>1. tasks'[x].pc = "idle"
      <4>1. CASE x = e
        BY <4>1, IdleOK DEF Finished
      <4>2. CASE x # e
        <5> DEFINE stale1 == tasks[x].pc # "idle"
        <5>1. tasks'[x] = [tasks[x] EXCEPT !.stale = stale1] /\ tasks[x] \in Task
          BY <1>0, <4>2 DEF Finished
        <5> HIDE DEF stale1
        <5> QED BY <2>1, <4>2, <5>1 DEF Task
      <4> QED BY <4>1, <4>2
    <3> QED BY <3>1 DEF Placed, Sheltered, Climbing, Apart
  <2>2. CASE x # e /\ tasks[x].pc # "idle"
    <3>1. tasks'[x] = [tasks[x] EXCEPT !.stale = TRUE] /\ tasks[x] \in Task
      BY <1>0, <2>2 DEF Finished
    <3>2. /\ tasks'[x].stale /\ tasks'[x].pc = tasks[x].pc /\ tasks'[x].kind = tasks[x].kind
          /\ tasks'[x].form = tasks[x].form /\ tasks'[x].org = tasks[x].org
          /\ tasks'[x].at = tasks[x].at
      BY <3>1 DEF Task
    <3>3. Placed(pages, nextPage, tasks[x])
      BY DEF TreeInv
    <3>4. Placed(pages', nextPage', tasks'[x])
      BY <1>4, <3>2, <3>3 DEF Placed
    <3>5. Sheltered(pages', tasks'[x])
      BY <3>2 DEF Sheltered, Climbing, Apart
    <3> QED BY <3>4, <3>5
  <2> QED BY <2>1, <2>2
<1>6. Excused' \/ Rooted(pages')
  BY <1>0, Hang
<1> QED BY <1>3, <1>5, <1>6 DEF TreeInv

\* create: nobody is below a page that was not there.
LEMMA InsertHouses ==
  ASSUME Inv, TreeInv, NEW e \in Editors, Insert(e)
  PROVE  TreeInv'
<1> DEFINE form == tasks[e].form
           due == Normalized(form.published, form.due, now)
           row == [org |-> tasks[e].org, parent |-> form.parent, published |-> form.published,
                   due |-> due]
<1>1. /\ tasks[e] \in Task /\ form \in Form /\ tasks[e].org \in Orgs /\ tasks[e].pc = "write"
      /\ pages \in Rows
  BY DEF Inv, TypeOK, Task, Insert, Rows, Staged
<1>2. /\ Save(nextPage, row) /\ nextPage' = nextPage + 1 /\ tasks' = Finished(e)
      /\ Excused' = Excused /\ nextPage \in Ids
  BY PagesAssumption DEF Insert, Inv, TypeOK, Ids, Excused
<1>3. due \in Times \cup {Never}
  BY <1>1, NormalizedTyped
<1> HIDE DEF due
<1>4. row \in Row /\ row.org = tasks[e].org /\ row.parent = form.parent
  BY <1>1, <1>3 DEF Form, Row
<1> HIDE DEF row
<1>5. row.parent # Top => Of(pages, nextPage, row.org, row.parent)
  BY <1>1, <1>4 DEF TreeInv, Placed
<1>6. nextPage \notin Line(pages, row.parent)
  <2> DEFINE C == {p \in Places : p = Top \/ There(pages, p)}
  <2>1. ASSUME NEW p \in C, There(pages, p) PROVE pages[p].parent \in C
    <3>1. pages[p].parent \in Places /\ p \in Ids
      BY <1>1, <2>1, ThereIs
    <3>2. pages[p].parent # Top => There(pages, pages[p].parent)
      BY <2>1, <3>1 DEF TreeInv, AtHome
    <3> QED BY <3>1, <3>2
  <2>2. row.parent \in C /\ row.parent \in Places
    BY <1>2, <1>4 DEF Save, Row, Places, Exists, There
  <2>3. Line(pages, row.parent) \subseteq C
    BY <1>1, <2>1, <2>2, LineIs DEF UpClosed
  <2>4. ~There(pages, nextPage) /\ nextPage # Top
    BY <1>2, PlacesCounted DEF Inv, TypeOK, Fresh, Exists, There
  <2> QED BY <2>3, <2>4
<1>7. Excused' \/ (Rooted(pages) /\ nextPage \notin Line(pages, row.parent))
  BY <1>2, <1>6 DEF TreeInv
<1> QED BY <1>2, <1>4, <1>5, <1>7, SaveHouses

\* update: what the walk established still holds unless another save landed.
LEMMA UpdateHouses ==
  ASSUME Inv, TreeInv, NEW e \in Editors, Update(e)
  PROVE  TreeInv'
<1> DEFINE t == tasks[e]
           row == Written(e)
<1>1. /\ Save(t.page, row) /\ nextPage' = nextPage /\ tasks' = Finished(e)
      /\ Excused' = (Excused \/ t.stale \/ t.short)
      /\ There(pages, t.page) /\ pages[t.page].org = t.org
      /\ t.pc = "write" /\ t.kind \in {"update", "restore"}
  BY FindIs DEF Update, Written, Excused
<1>2. row \in Row /\ row.org = t.org /\ row.parent = t.form.parent /\ t.page \in Ids
  BY <1>1, WrittenTyped DEF Written, There
<1>3. row.parent # Top => Of(pages, nextPage, row.org, row.parent)
  BY <1>1, <1>2 DEF TreeInv, Placed
<1>4. ASSUME ~Excused, ~t.stale, ~t.short
      PROVE  Rooted(pages) /\ t.page \notin Line(pages, row.parent)
  BY <1>1, <1>2, <1>4 DEF TreeInv, Sheltered, Apart
<1>5. Excused' \/ (Rooted(pages) /\ t.page \notin Line(pages, row.parent))
  BY <1>1, <1>4
<1> HIDE DEF row, t
<1> QED BY <1>1, <1>2, <1>3, <1>5, SaveHouses

\* delete_page.
LEMMA DeleteHouses ==
  ASSUME Inv, TreeInv, NEW e \in Editors, Delete(e)
  PROVE  TreeInv'
<1> PICK id \in Ids :
           pages' = [p \in Ids |->
                IF p = id THEN NoPage
                ELSE IF Exists(p) /\ pages[p].parent = id THEN [pages[p] EXCEPT !.parent = Top]
                ELSE pages[p]]
  BY DEF Delete
<1>0. UNCHANGED <<nextPage, tasks>> /\ Excused' = Excused /\ pages \in Rows
  BY DEF Delete, Inv, TypeOK, Rows, Excused
<1>1. pages' = Removed(pages, id)
  BY DEF Removed, Exists, There
<1>2. AtHome(pages') /\ (Excused' \/ Rooted(pages'))
  BY <1>0, <1>1, RemovedKeeps DEF TreeInv
<1>3. ASSUME NEW x \in Editors
      PROVE  Placed(pages', nextPage', tasks'[x]) /\ (Excused' \/ Sheltered(pages', tasks'[x]))
  <2>1. tasks[x] \in Task /\ Placed(pages, nextPage, tasks[x])
        /\ (Excused \/ Sheltered(pages, tasks[x]))
    BY DEF Inv, TypeOK, TreeInv
  <2> QED BY <1>0, <1>1, <2>1, RemovedKeeps
<1> QED BY <1>2, <1>3 DEF TreeInv

LEMMA InitTree == Init => TreeInv
<1> SUFFICES ASSUME Init PROVE TreeInv
  OBVIOUS
<1>1. (\A x : ~There(pages, x)) /\ \A e \in Editors : tasks[e].pc = "idle"
  BY IdleOK DEF Init, There
<1>2. AtHome(pages) /\ Rooted(pages)
  BY <1>1 DEF AtHome, Rooted
<1>3. \A e \in Editors : Placed(pages, nextPage, tasks[e]) /\ Sheltered(pages, tasks[e])
  BY <1>1 DEF Placed, Sheltered, Climbing, Apart
<1> QED BY <1>2, <1>3 DEF TreeInv

LEMMA TreeInductive == Inv /\ TreeInv /\ [Next]_vars => TreeInv'
<1> SUFFICES ASSUME Inv, TreeInv, [Next]_vars PROVE TreeInv'
  OBVIOUS
<1>1. ASSUME NEW e \in Editors,
             \/ StartCreate(e) \/ Import(e) \/ ShowForm(e) \/ Submit(e) \/ StartRestore(e) \/ Leave(e)
      PROVE  TreeInv'
  BY <1>1, EarlyHouses
<1>2. ASSUME NEW e \in Editors, LoadParent(e) PROVE TreeInv'
  BY <1>2, LoadParentHouses
<1>3. ASSUME NEW e \in Editors, Climb(e) PROVE TreeInv'
  BY <1>3, ClimbHouses
<1>4. ASSUME NEW e \in Editors, Insert(e) PROVE TreeInv'
  BY <1>4, InsertHouses
<1>5. ASSUME NEW e \in Editors, Update(e) PROVE TreeInv'
  BY <1>5, UpdateHouses
<1>6. ASSUME NEW e \in Editors, Delete(e) PROVE TreeInv'
  BY <1>6, DeleteHouses
<1>7. ASSUME UNCHANGED <<pages, nextPage, tasks, overlapped, ranOut>> PROVE TreeInv'
  BY <1>7 DEF TreeInv, Excused
<1>8. CASE Tick
  BY <1>7, <1>8 DEF Tick
<1>9. CASE UNCHANGED vars
  BY <1>7, <1>9 DEF vars
<1> QED BY <1>1, <1>2, <1>3, <1>4, <1>5, <1>6, <1>8, <1>9 DEF Next

\* The tree of the pages never closes into a loop while no save is decided on
\* rows that another save has since written, or on an ancestor walk that spent its
\* hops below the top, and for any LIMIT of a listing and any rows it lets through
\* the panel shows exactly the pages whose ancestors are among them and offers
\* exactly the legal parents (walk_page_tree, walk_parent_options, the ancestor
\* walk of update_page); for any number of pages and any budget of hops.
THEOREM TheTreeIsShown == Spec => []PanelShowsTheTree
<1>1. Init => Inv /\ TreeInv
  BY InitInv, InitTree
<1>2. (Inv /\ TreeInv) /\ [Next]_vars => (Inv /\ TreeInv)'
  BY Inductive, TreeInductive
<1>3. Inv /\ TreeInv => PanelShowsTheTree
  <2> SUFFICES ASSUME Inv, TreeInv PROVE PanelShowsTheTree
    OBVIOUS
  <2>1. CASE Excused
    BY <2>1 DEF PanelShowsTheTree, Excused
  <2>2. CASE ~Excused
    BY <2>2, TreeShown DEF TreeInv, Inv, TypeOK, Rows
  <2> QED BY <2>1, <2>2
<1> QED BY <1>1, <1>2, <1>3, PTL DEF Spec

-----------------------------------------------------------------------------
(* Library.                                                                 *)

\* AUTOINCREMENT ids and stems above the counter were never used.
NotYet ==
    /\ \A p \in SitePageIds : p > created.page => sitePages[p] = NoSitePage
    /\ \A m \in MenuIds : m > created.menu => menus[m] = "none"
    /\ \A u \in Uploads : u > created.upload => media[u] = "none"
    /\ \A e \in Requests : requests[e].upload <= created.upload

\* An item sits in a menu and links a page that is there; unless it strayed, the
\* page belongs to that menu's organization.
ItemOK(i) ==
    items[i] # NoItem =>
        /\ menus[items[i].menu] # "none"
        /\ items[i].page # Url => sitePages[items[i].page] # NoSitePage
        /\ items[i].page # Url /\ i \notin strayed =>
               sitePages[items[i].page].org = menus[items[i].menu]

\* What a request has checked of its menu and its page holds as long as they exist.
Validated(q) ==
    /\ q.pc \in {"validate", "add", "save"} => q.menu \in MenuIds
    /\ q.pc = "validate" => q.org # "none"
    /\ q.pc = "add" \/ (q.pc = "validate" /\ q.item = 0) =>
           q.menu <= created.menu /\ menus[q.menu] \in {q.org, "none"}
    /\ q.pc \in {"add", "save"} /\ q.page # Url =>
           q.page <= created.page /\ sitePages[q.page].org \in {q.org, "none"}
    /\ q.pc \in {"save", "drop"} => q.item # 0

\* The request that makes or removes an upload has it to itself.
Holds(q, row, there, part, lost) ==
    /\ (q.upload # 0) <=> (q.pc \in {"thumb", "rollback", "row", "undo", "erase", "erase thumb"})
    /\ q.upload # 0 => row[q.upload] = "none" /\ q.org # "none"
    /\ q.pc \in {"thumb", "row"} => <<q.upload, "full">> \in there \ part
    /\ q.pc = "thumb" => <<q.upload, "thumb">> \notin there \cup part
    /\ q.pc = "row" => <<q.upload, "thumb">> \in there \ part
    /\ q.pc = "rollback" => <<q.upload, "thumb">> \notin there \/ <<q.upload, "thumb">> \in lost
    /\ q.pc = "erase thumb" => <<q.upload, "full">> \notin there \/ <<q.upload, "full">> \in lost
InHand(q) == Holds(q, media, files, partial, left)
Alone == \A d, e \in Requests : requests[d].upload = requests[e].upload /\ d # e
                                   => requests[d].upload = 0

Accounted == \A f \in files : \/ media[f[1]] # "none"
                              \/ f \in left
                              \/ \E e \in Requests : requests[e].upload = f[1]

\* A stem above the counter has no file, nor a part of one.
Unused == \A f \in files \cup partial : f[1] <= created.upload

Navigable == \A i \in ItemIds : ItemOK(i)
Filed == \A u \in Uploads : media[u] # "none" => Files(u) \subseteq files \ partial

LibraryInv ==
    /\ LibraryTypeOK /\ NotYet
    /\ Navigable /\ \A e \in Requests : Validated(requests[e])
    /\ Filed /\ Accounted /\ Unused /\ Alone /\ \A e \in Requests : InHand(requests[e])

MenuSteps == {"validate", "add", "save", "drop"}
MediaSteps == {"thumb", "rollback", "row", "undo", "erase", "erase thumb"}

\* The invariant in halves: what the menus' requests and what the media's requests touch.
MenusInv ==
    /\ \A p \in SitePageIds : p > created.page => sitePages[p] = NoSitePage
    /\ \A m \in MenuIds : m > created.menu => menus[m] = "none"
    /\ Navigable /\ \A e \in Requests : Validated(requests[e])
MediaInv ==
    /\ \A u \in Uploads : u > created.upload => media[u] = "none"
    /\ \A e \in Requests : requests[e].upload <= created.upload /\ InHand(requests[e])
    /\ Filed /\ Accounted /\ Unused /\ Alone

LEMMA Halves ==
  /\ LibraryInv <=> LibraryTypeOK /\ MenusInv /\ MediaInv
  /\ LibraryInv' <=> LibraryTypeOK' /\ MenusInv' /\ MediaInv'
BY DEF LibraryInv, NotYet, MenusInv, MediaInv

MenusRest ==
    /\ UNCHANGED <<sitePages, menus, items, strayed>>
    /\ created'.page = created.page /\ created'.menu = created.menu
    /\ \A d \in Requests : requests'[d] = requests[d] \/ requests'[d].pc \notin MenuSteps
MediaRests ==
    /\ UNCHANGED <<media, disk>> /\ created'.upload = created.upload
    /\ \A d \in Requests : \/ requests'[d] = requests[d]
                           \/ /\ requests[d].upload = 0 /\ requests'[d].upload = 0
                              /\ requests'[d].pc \notin MediaSteps

LEMMA MenusResting == MenusInv /\ MenusRest => MenusInv'
<1> SUFFICES ASSUME MenusInv, MenusRest PROVE MenusInv'
  OBVIOUS
<1>1. Navigable'
  BY DEF MenusInv, MenusRest, Navigable, ItemOK
<1>2. ASSUME NEW d \in Requests PROVE Validated(requests[d])'
  BY DEF MenusInv, MenusRest, Validated, MenuSteps
<1> QED BY <1>1, <1>2 DEF MenusInv, MenusRest

LEMMA MediaResting == MediaInv /\ MediaRests => MediaInv'
<1> SUFFICES ASSUME MediaInv, MediaRests PROVE MediaInv'
  OBVIOUS
<1>0. \A d \in Requests : requests'[d].upload = requests[d].upload
  BY DEF MediaRests
<1>1. Filed' /\ Alone'
  BY <1>0 DEF MediaInv, MediaRests, Filed, Alone, Files, disk
<1>2. Accounted' /\ Unused'
  BY <1>0 DEF MediaInv, MediaRests, Accounted, Unused, disk
<1>3. ASSUME NEW d \in Requests PROVE (requests[d].upload <= created.upload /\ InHand(requests[d]))'
  BY <1>0 DEF MediaInv, MediaRests, InHand, Holds, MediaSteps, disk
<1> QED BY <1>1, <1>2, <1>3 DEF MediaInv, MediaRests

\* The step of a request, to a new state of it or to the end.
LEMMA Goes ==
  ASSUME LibraryTypeOK, NEW e \in Requests, NEW q \in LibraryRequest, Goto(e, q)
  PROVE  /\ requests' \in [Requests -> LibraryRequest] /\ requests'[e] = q
         /\ \A d \in Requests : d # e => requests'[d] = requests[d]
BY DEF LibraryTypeOK, Goto

LEMMA IdleRequestOK ==
  /\ IdleRequest \in LibraryRequest /\ IdleRequest.pc = "idle"
  /\ IdleRequest.upload = 0 /\ IdleRequest.menu = 0 /\ IdleRequest.item = 0 /\ IdleRequest.page = 0
BY LibraryAssumption DEF IdleRequest, LibraryRequest, LibrarySteps

-----------------------------------------------------------------------------
(* The pages and the menus: nothing of the media is touched.                *)

LEMMA PageAddedKeeps == LibraryInv /\ PageAdded => LibraryInv'
<1> SUFFICES ASSUME LibraryInv, PageAdded PROVE LibraryInv'
  OBVIOUS
<1>1. PICK page \in SitePage : sitePages' = [sitePages EXCEPT ![created.page + 1] = page]
  BY DEF PageAdded
<1>2. /\ LibraryTypeOK /\ MenusInv /\ MediaInv
      /\ created' = [created EXCEPT !.page = @ + 1] /\ created.page < MaxSitePages
      /\ UNCHANGED <<menus, items, media, disk, requests, strayed>>
  BY Halves DEF PageAdded
<1>3. created.page + 1 \in SitePageIds /\ created'.page = created.page + 1
      /\ created'.menu = created.menu /\ created'.upload = created.upload
  BY <1>2, LibraryAssumption DEF LibraryTypeOK, SitePageIds
<1>4. LibraryTypeOK'
  BY <1>1, <1>2, <1>3, LibraryAssumption DEF LibraryTypeOK, disk
<1>5. \A p \in SitePageIds : p <= created.page => sitePages'[p] = sitePages[p]
  BY <1>1, <1>2 DEF LibraryTypeOK, SitePageIds
<1>6. Navigable'
  <2> SUFFICES ASSUME NEW i \in ItemIds, items[i] # NoItem PROVE ItemOK(i)'
    BY <1>2 DEF Navigable, ItemOK
  <2>1. ItemOK(i) /\ items[i] \in Item
    BY <1>2 DEF MenusInv, Navigable, LibraryTypeOK
  <2>2. CASE items[i].page = Url
    BY <1>2, <2>1, <2>2 DEF ItemOK
  <2>3. CASE items[i].page # Url
    <3>1. items[i].page \in SitePageIds /\ sitePages[items[i].page] # NoSitePage
      BY <2>1, <2>3 DEF ItemOK, Item, NoSitePage
    <3>2. items[i].page <= created.page
      BY <1>2, <3>1 DEF MenusInv, SitePageIds, LibraryTypeOK
    <3> QED BY <1>2, <1>5, <2>1, <3>1, <3>2 DEF ItemOK
  <2> QED BY <2>2, <2>3
<1>7. ASSUME NEW d \in Requests PROVE Validated(requests[d])'
  <2>1. requests[d] \in LibraryRequest /\ Validated(requests[d])
    BY <1>2 DEF MenusInv, LibraryTypeOK
  <2>2. requests[d].page # Url => requests[d].page \in SitePageIds
    BY <2>1, LibraryAssumption DEF LibraryRequest, SitePageIds, Url
  <2>3. requests[d].page \in Nat /\ created.page \in Nat
    BY <1>2, <2>1, LibraryAssumption DEF LibraryTypeOK, LibraryRequest
  <2> QED BY <1>2, <1>3, <1>5, <2>1, <2>2, <2>3 DEF Validated
<1>8. MenusInv'
  BY <1>1, <1>2, <1>3, <1>6, <1>7 DEF MenusInv, LibraryTypeOK, SitePageIds
<1>9. MediaRests
  BY <1>2, <1>3 DEF MediaRests
<1> QED BY <1>2, <1>4, <1>8, <1>9, MediaResting, Halves

LEMMA PagesChangeKeeps == LibraryInv /\ (PageShownOrHidden \/ PageDeleted) => LibraryInv'
<1> SUFFICES ASSUME LibraryInv, PageShownOrHidden \/ PageDeleted PROVE LibraryInv'
  OBVIOUS
<1>1. LibraryTypeOK /\ MenusInv /\ MediaInv /\ UNCHANGED <<menus, media, disk, created, requests, strayed>>
  BY Halves DEF PageShownOrHidden, PageDeleted
<1>2. MediaRests
  BY <1>1 DEF MediaRests
<1>3. CASE PageShownOrHidden
  <2>1. PICK p \in SitePageIds : /\ sitePages[p] # NoSitePage
                                 /\ sitePages' = [sitePages EXCEPT ![p].visible = ~@]
    BY <1>3 DEF PageShownOrHidden
  <2>2. UNCHANGED items
    BY <1>3 DEF PageShownOrHidden
  <2>3. sitePages[p] \in SitePage
    BY <1>1, <2>1 DEF LibraryTypeOK
  <2>4. [sitePages[p] EXCEPT !.visible = ~@] \in SitePage
    BY <2>3 DEF SitePage
  <2>5. LibraryTypeOK'
    BY <1>1, <2>1, <2>2, <2>4 DEF LibraryTypeOK, disk
  <2>6. \A q \in SitePageIds : /\ sitePages'[q].org = sitePages[q].org
                               /\ sitePages[q] = NoSitePage <=> sitePages'[q] = NoSitePage
    <3>1. NoSitePage \notin SitePage
      BY LibraryAssumption DEF SitePage, NoSitePage
    <3>2. [sitePages[p] EXCEPT !.visible = ~@].org = sitePages[p].org
      BY <2>3 DEF SitePage
    <3> QED BY <1>1, <2>1, <2>3, <2>4, <3>1, <3>2 DEF LibraryTypeOK
  <2>7. Navigable'
    BY <1>1, <2>2, <2>6 DEF MenusInv, Navigable, ItemOK, LibraryTypeOK, Item
  <2>8. ASSUME NEW d \in Requests PROVE Validated(requests[d])'
    <3>1. requests[d].page # Url => requests[d].page \in SitePageIds
      BY <1>1, LibraryAssumption DEF LibraryTypeOK, LibraryRequest, SitePageIds, Url
    <3> QED BY <1>1, <2>6, <3>1 DEF MenusInv, Validated
  <2>9. MenusInv'
    BY <1>1, <2>6, <2>7, <2>8 DEF MenusInv
  <2> QED BY <1>1, <1>2, <2>5, <2>9, MediaResting, Halves
<1>4. CASE PageDeleted
  <2>1. PICK p \in SitePageIds :
            /\ sitePages' = [sitePages EXCEPT ![p] = NoSitePage]
            /\ items' = [i \in ItemIds |-> IF items[i].page = p THEN NoItem ELSE items[i]]
    BY <1>4 DEF PageDeleted
  <2>2. \A i \in ItemIds : items'[i] = NoItem \/ (items'[i] = items[i] /\ items[i].page # p)
    BY <2>1
  <2>3. LibraryTypeOK'
    BY <1>1, <2>1, <2>2 DEF LibraryTypeOK, disk
  <2>4. \A q \in SitePageIds : sitePages'[q] = IF q = p THEN NoSitePage ELSE sitePages[q]
    BY <1>1, <2>1 DEF LibraryTypeOK
  <2>5. Navigable'
    BY <1>1, <2>2, <2>4 DEF MenusInv, Navigable, ItemOK, LibraryTypeOK, Item
  <2>6. ASSUME NEW d \in Requests PROVE Validated(requests[d])'
    <3>1. requests[d].page # Url => requests[d].page \in SitePageIds
      BY <1>1, LibraryAssumption DEF LibraryTypeOK, LibraryRequest, SitePageIds, Url
    <3> QED BY <1>1, <2>4, <3>1 DEF MenusInv, Validated, NoSitePage
  <2>7. MenusInv'
    BY <1>1, <2>4, <2>5, <2>6 DEF MenusInv
  <2> QED BY <1>1, <1>2, <2>3, <2>7, MediaResting, Halves
<1> QED BY <1>3, <1>4

LEMMA MenusChangeKeeps == LibraryInv /\ (CreateMenu \/ DeleteMenu) => LibraryInv'
<1> SUFFICES ASSUME LibraryInv, CreateMenu \/ DeleteMenu PROVE LibraryInv'
  OBVIOUS
<1>1. LibraryTypeOK /\ MenusInv /\ MediaInv /\ UNCHANGED <<sitePages, media, disk, requests, strayed>>
  BY Halves DEF CreateMenu, DeleteMenu
<1>3. CASE CreateMenu
  <2>1. PICK org \in Organizations : menus' = [menus EXCEPT ![created.menu + 1] = org]
    BY <1>3 DEF CreateMenu
  <2>2. /\ UNCHANGED items /\ created.menu < MaxMenus
        /\ created' = [created EXCEPT !.menu = @ + 1]
    BY <1>3 DEF CreateMenu
  <2>3. /\ created.menu + 1 \in MenuIds /\ created'.menu = created.menu + 1
        /\ created'.page = created.page /\ created'.upload = created.upload
    BY <1>1, <2>2, LibraryAssumption DEF LibraryTypeOK, MenuIds
  <2>4. LibraryTypeOK'
    BY <1>1, <2>1, <2>2, <2>3, LibraryAssumption DEF LibraryTypeOK, disk
  <2>5. \A m \in MenuIds : m # created.menu + 1 => menus'[m] = menus[m]
    BY <1>1, <2>1 DEF LibraryTypeOK
  <2>6. menus[created.menu + 1] = "none"
    BY <1>1, <2>3 DEF MenusInv, LibraryTypeOK
  <2>7. Navigable'
    BY <1>1, <2>2, <2>5, <2>6 DEF MenusInv, Navigable, ItemOK, LibraryTypeOK, Item
  <2>8. ASSUME NEW d \in Requests PROVE Validated(requests[d])'
    <3>1. created.menu \in Nat /\ created.page \in Nat
      BY <1>1 DEF LibraryTypeOK
    <3>2. requests[d].menu \in MenuIds => requests[d].menu \in Nat
      BY DEF MenuIds
    <3> QED BY <1>1, <2>3, <2>5, <3>1, <3>2 DEF MenusInv, Validated
  <2>9. \A m \in MenuIds : m > created'.menu => menus'[m] = "none"
    BY <1>1, <2>3, <2>5 DEF MenusInv, LibraryTypeOK, MenuIds
  <2>10. MenusInv'
    BY <1>1, <2>3, <2>7, <2>8, <2>9 DEF MenusInv
  <2>11. MediaRests
    BY <1>1, <2>3 DEF MediaRests
  <2> QED BY <1>1, <2>4, <2>10, <2>11, MediaResting, Halves
<1>4. CASE DeleteMenu
  <2>1. PICK m \in MenuIds :
            /\ menus' = [menus EXCEPT ![m] = "none"]
            /\ items' = [i \in ItemIds |-> IF items[i].menu = m THEN NoItem ELSE items[i]]
    BY <1>4 DEF DeleteMenu
  <2>2. \A i \in ItemIds : items'[i] = NoItem \/ (items'[i] = items[i] /\ items[i].menu # m)
    BY <2>1
  <2>3. UNCHANGED created
    BY <1>4 DEF DeleteMenu
  <2>4. LibraryTypeOK'
    BY <1>1, <2>1, <2>2, <2>3 DEF LibraryTypeOK, disk
  <2>5. \A n \in MenuIds : menus'[n] = IF n = m THEN "none" ELSE menus[n]
    BY <1>1, <2>1 DEF LibraryTypeOK
  <2>6. Navigable'
    BY <1>1, <2>2, <2>5 DEF MenusInv, Navigable, ItemOK, LibraryTypeOK, Item
  <2>7. ASSUME NEW d \in Requests PROVE Validated(requests[d])'
    BY <1>1, <2>3, <2>5 DEF MenusInv, Validated
  <2>8. MenusInv'
    BY <1>1, <2>3, <2>5, <2>6, <2>7 DEF MenusInv
  <2>9. MediaRests
    BY <1>1, <2>3 DEF MediaRests
  <2> QED BY <1>1, <2>4, <2>8, <2>9, MediaResting, Halves
<1> QED BY <1>3, <1>4

\* A request that only moves on, without having validated more than it carries.
LEMMA FormKeeps ==
  ASSUME LibraryInv, NEW e \in Requests, NEW q \in LibraryRequest, Goto(e, q),
         requests[e].upload = 0, q.upload = 0, q.pc \notin MediaSteps, Validated(q),
         UNCHANGED <<sitePages, menus, items, media, disk, created, strayed>>
  PROVE  LibraryInv'
<1>1. LibraryTypeOK /\ MenusInv /\ MediaInv
  BY Halves
<1>2. /\ requests' \in [Requests -> LibraryRequest] /\ requests'[e] = q
      /\ \A d \in Requests : d # e => requests'[d] = requests[d]
  BY <1>1, Goes
<1>3. LibraryTypeOK'
  BY <1>1, <1>2 DEF LibraryTypeOK, disk
<1>4. ASSUME NEW d \in Requests PROVE Validated(requests[d])'
  BY <1>1, <1>2 DEF MenusInv, Validated
<1>5. MenusInv'
  BY <1>1, <1>4 DEF MenusInv, Navigable, ItemOK
<1>6. MediaRests
  BY <1>2 DEF MediaRests
<1> QED BY <1>1, <1>3, <1>5, <1>6, MediaResting, Halves

LEMMA StartsKeep ==
  ASSUME LibraryInv, NEW e \in Requests, StartItem(e) \/ StartUpdate(e) \/ StartDrop(e)
  PROVE  LibraryInv'
<1>1. LibraryTypeOK /\ MenusInv /\ InHand(requests[e]) /\ requests[e].pc = "idle"
  BY Halves DEF MediaInv, StartItem, StartUpdate, StartDrop
<1>2. requests[e].upload = 0
  BY <1>1 DEF InHand, Holds
<1>3. CASE StartItem(e)
  <2>1. PICK org \in Organizations, m \in MenuIds, p \in SitePageIds \cup {Url} :
          /\ OwnsMenu(org, m)
          /\ Goto(e, [IdleRequest EXCEPT !.pc = "validate", !.org = org, !.menu = m, !.page = p])
    BY <1>3 DEF StartItem
  <2> DEFINE q == [IdleRequest EXCEPT !.pc = "validate", !.org = org, !.menu = m, !.page = p]
  <2>2. /\ q \in LibraryRequest /\ q.pc = "validate" /\ q.upload = 0
        /\ q.menu = m /\ q.org = org
    <3>1. ASSUME NEW r \in LibraryRequest, r.upload = 0, NEW s,
                 s = [r EXCEPT !.pc = "validate", !.org = org, !.menu = m, !.page = p]
          PROVE  /\ s \in LibraryRequest /\ s.pc = "validate" /\ s.upload = 0
                 /\ s.menu = m /\ s.org = org
      <4>1. m \in 0..MaxMenus /\ p \in 0..MaxSitePages
        BY LibraryAssumption DEF SitePageIds, MenuIds, Url
      <4> QED BY ONLY <3>1, <4>1 DEF LibraryRequest, LibrarySteps
    <3> QED BY <3>1, IdleRequestOK
  <2>3. m <= created.menu
    BY <1>1, <2>1, LibraryAssumption DEF MenusInv, OwnsMenu, LibraryTypeOK, MenuIds
  <2> HIDE DEF q
  <2>4. Validated(q)
    BY <2>1, <2>2, <2>3, LibraryAssumption DEF Validated, OwnsMenu
  <2> QED BY <1>2, <1>3, <2>1, <2>2, <2>4, FormKeeps DEF StartItem, MediaSteps, q
<1>4. CASE StartUpdate(e)
  <2>1. PICK org \in Organizations, i \in ItemIds, m \in MenuIds, p \in SitePageIds \cup {Url} :
          /\ OwnsItem(org, i)
          /\ Goto(e, [IdleRequest EXCEPT !.pc = "validate", !.org = org, !.item = i, !.menu = m,
                                  !.page = p])
    BY <1>4 DEF StartUpdate
  <2> DEFINE q == [IdleRequest EXCEPT !.pc = "validate", !.org = org, !.item = i, !.menu = m,
                                      !.page = p]
  <2>2. /\ q \in LibraryRequest /\ q.pc = "validate" /\ q.upload = 0
        /\ q.menu = m /\ q.item # 0 /\ q.org = org
    <3>1. ASSUME NEW r \in LibraryRequest, r.upload = 0, NEW s,
                 s = [r EXCEPT !.pc = "validate", !.org = org, !.item = i, !.menu = m,
                        !.page = p]
          PROVE  /\ s \in LibraryRequest /\ s.pc = "validate" /\ s.upload = 0
                 /\ s.menu = m /\ s.item # 0 /\ s.org = org
      <4>1. i \in 0..MaxItems /\ i # 0 /\ m \in 0..MaxMenus /\ p \in 0..MaxSitePages
        BY LibraryAssumption DEF SitePageIds, MenuIds, ItemIds, Url
      <4> QED BY ONLY <3>1, <4>1 DEF LibraryRequest, LibrarySteps
    <3> QED BY <3>1, IdleRequestOK
  <2> HIDE DEF q
  <2>3. Validated(q)
    BY <2>2, LibraryAssumption DEF Validated
  <2> QED BY <1>2, <1>4, <2>1, <2>2, <2>3, FormKeeps DEF StartUpdate, MediaSteps, q
<1>5. CASE StartDrop(e)
  <2>1. PICK org \in Organizations, i \in ItemIds :
          Goto(e, [IdleRequest EXCEPT !.pc = "drop", !.org = org, !.item = i])
    BY <1>5 DEF StartDrop
  <2> DEFINE q == [IdleRequest EXCEPT !.pc = "drop", !.org = org, !.item = i]
  <2>2. q \in LibraryRequest /\ q.pc = "drop" /\ q.upload = 0 /\ q.item # 0
    <3>1. ASSUME NEW r \in LibraryRequest, r.upload = 0, NEW s,
                 s = [r EXCEPT !.pc = "drop", !.org = org, !.item = i]
          PROVE  s \in LibraryRequest /\ s.pc = "drop" /\ s.upload = 0 /\ s.item # 0
      <4>1. i \in 0..MaxItems /\ i # 0
        BY LibraryAssumption DEF ItemIds
      <4> QED BY ONLY <3>1, <4>1 DEF LibraryRequest, LibrarySteps
    <3> QED BY <3>1, IdleRequestOK
  <2> HIDE DEF q
  <2>3. Validated(q)
    BY <2>2 DEF Validated
  <2> QED BY <1>2, <1>5, <2>1, <2>2, <2>3, FormKeeps DEF StartDrop, MediaSteps, q
<1> QED BY <1>3, <1>4, <1>5

LEMMA ValidateKeeps == ASSUME LibraryInv, NEW e \in Requests, Validate(e) PROVE LibraryInv'
<1>1. /\ LibraryTypeOK /\ MenusInv /\ InHand(requests[e]) /\ Validated(requests[e])
      /\ requests[e] \in LibraryRequest /\ requests[e].pc = "validate"
      /\ requests[e].page # Url => sitePages[requests[e].page].org = requests[e].org
  BY Halves DEF MediaInv, MenusInv, Validate, LibraryTypeOK
<1> DEFINE q == [requests[e] EXCEPT !.pc = IF requests[e].item = 0 THEN "add" ELSE "save"]
<1>2. /\ q \in LibraryRequest /\ q.pc \in {"add", "save"} /\ q.upload = requests[e].upload
      /\ q.menu = requests[e].menu /\ q.page = requests[e].page /\ q.org = requests[e].org
      /\ q.item = requests[e].item /\ (q.pc = "save" <=> q.item # 0)
  BY <1>1 DEF LibraryRequest, LibrarySteps
<1>3. requests[e].page # Url => requests[e].page <= created.page
  <2> SUFFICES ASSUME requests[e].page # Url PROVE requests[e].page <= created.page
    OBVIOUS
  <2>1. requests[e].page \in SitePageIds
    BY <1>1, LibraryAssumption DEF LibraryRequest, SitePageIds, Url
  <2>2. sitePages[requests[e].page] # NoSitePage
    BY <1>1 DEF NoSitePage, Validated
  <2> QED BY <1>1, <2>1, <2>2, LibraryAssumption DEF MenusInv, LibraryTypeOK, SitePageIds
<1> HIDE DEF q
<1>4. Validated(q)
  BY <1>1, <1>2, <1>3 DEF Validated
<1>5. requests[e].upload = 0
  BY <1>1 DEF InHand, Holds
<1>6. Goto(e, q) /\ UNCHANGED <<sitePages, menus, items, media, disk, created, strayed>>
  BY DEF Validate, q
<1> QED BY <1>2, <1>4, <1>5, <1>6, FormKeeps DEF MediaSteps

\* The item of a form is written with the menu and page that it validated.
LEMMA ItemWritten ==
  ASSUME LibraryInv, NEW e \in Requests, requests[e].pc \in {"add", "save", "drop"},
         NEW i \in ItemIds, Goto(e, IdleRequest),
         NEW item \in Item \cup {NoItem},
         item # NoItem => /\ requests[e].pc # "drop" /\ KeysHold(requests[e])
                          /\ item = [menu |-> requests[e].menu, page |-> requests[e].page],
         items' = [items EXCEPT ![i] = item],
         created' \in [page : {created.page}, menu : {created.menu}, item : 0..MaxItems,
                       upload : {created.upload}],
         strayed' \subseteq ItemIds, \A j \in ItemIds \ {i} : j \in strayed' <=> j \in strayed,
         item # NoItem => i \in strayed' \/ menus[requests[e].menu] = requests[e].org,
         UNCHANGED <<sitePages, menus, media, disk>>
  PROVE  LibraryInv'
<1>1. /\ LibraryTypeOK /\ MenusInv /\ MediaInv /\ InHand(requests[e]) /\ Validated(requests[e])
      /\ requests[e] \in LibraryRequest
  BY Halves DEF MediaInv, MenusInv, LibraryTypeOK
<1>2. /\ requests' \in [Requests -> LibraryRequest] /\ requests'[e] = IdleRequest
      /\ \A d \in Requests : d # e => requests'[d] = requests[d]
  BY <1>1, IdleRequestOK, Goes
<1>3. /\ created'.page = created.page /\ created'.menu = created.menu
      /\ created'.upload = created.upload /\ created.page \in 0..MaxSitePages
      /\ created.menu \in 0..MaxMenus /\ created.upload \in 0..MaxUploads
  BY <1>1 DEF LibraryTypeOK
<1>4. created' \in [page : 0..MaxSitePages, menu : 0..MaxMenus, item : 0..MaxItems,
                    upload : 0..MaxUploads]
  BY <1>3
<1>5. LibraryTypeOK'
  BY <1>1, <1>2, <1>4 DEF LibraryTypeOK, disk
<1>6. ASSUME NEW j \in ItemIds PROVE ItemOK(j)'
  <2>1. CASE j # i
    BY <1>1, <2>1 DEF ItemOK, MenusInv, Navigable, LibraryTypeOK
  <2>2. CASE j = i /\ item = NoItem
    BY <1>1, <2>2 DEF ItemOK, LibraryTypeOK
  <2>3. CASE j = i /\ item # NoItem
    <3>1. items'[j] = [menu |-> requests[e].menu, page |-> requests[e].page]
      BY <1>1, <2>3 DEF LibraryTypeOK
    <3>2. menus[requests[e].menu] # "none" /\ (j \in strayed' \/ menus[requests[e].menu] = requests[e].org)
      BY <1>1, <2>3 DEF KeysHold
    <3>3. requests[e].page # Url => /\ sitePages[requests[e].page] # NoSitePage
                                    /\ sitePages[requests[e].page].org = requests[e].org
      <4> SUFFICES ASSUME requests[e].page # Url
                   PROVE  /\ sitePages[requests[e].page] # NoSitePage
                          /\ sitePages[requests[e].page].org = requests[e].org
        OBVIOUS
      <4>1. sitePages[requests[e].page] # NoSitePage /\ sitePages[requests[e].page].org \in {requests[e].org, "none"}
        BY <1>1, <2>3 DEF KeysHold, Validated
      <4>2. requests[e].page \in SitePageIds
        BY <1>1, LibraryAssumption DEF LibraryRequest, SitePageIds, Url
      <4>3. sitePages[requests[e].page].org # "none"
        BY <1>1, <4>1, <4>2, LibraryAssumption DEF LibraryTypeOK, SitePage
      <4> QED BY <4>1, <4>3
    <3> QED BY <3>1, <3>2, <3>3 DEF ItemOK
  <2> QED BY <2>1, <2>2, <2>3
<1>7. ASSUME NEW d \in Requests PROVE Validated(requests[d])'
  BY <1>1, <1>2, <1>3, IdleRequestOK DEF MenusInv, Validated
<1>8. MenusInv'
  BY <1>1, <1>3, <1>6, <1>7 DEF MenusInv, Navigable
<1>9. MediaRests
  <2>1. requests[e].upload = 0
    BY <1>1 DEF InHand, Holds
  <2> QED BY <1>2, <1>3, <2>1, IdleRequestOK DEF MediaRests, MediaSteps
<1> QED BY <1>1, <1>5, <1>8, <1>9, MediaResting, Halves

LEMMA ItemsKeep ==
  ASSUME LibraryInv, NEW e \in Requests, AddItem(e) \/ SaveItem(e) \/ DropItem(e)
  PROVE  LibraryInv'
<1>1. /\ LibraryTypeOK /\ MenusInv /\ Validated(requests[e]) /\ InHand(requests[e])
      /\ requests[e] \in LibraryRequest
  BY Halves DEF MenusInv, MediaInv, LibraryTypeOK
<1>2. requests[e].pc \in {"add", "save"} =>
          [menu |-> requests[e].menu, page |-> requests[e].page] \in Item
  BY <1>1, LibraryAssumption DEF Validated, LibraryRequest, Item, SitePageIds, Url
<1>3. /\ created \in [page : {created.page}, menu : {created.menu}, item : 0..MaxItems,
                      upload : {created.upload}]
      /\ created.item \in 0..MaxItems
  BY <1>1 DEF LibraryTypeOK
<1>0. strayed \subseteq ItemIds
  BY <1>1 DEF LibraryTypeOK
<1>4. CASE AddItem(e)
  <2>1. created.item + 1 \in ItemIds /\ created.item + 1 \in 0..MaxItems
    BY <1>3, <1>4, LibraryAssumption DEF AddItem, ItemIds
  <2>2. created' \in [page : {created.page}, menu : {created.menu}, item : 0..MaxItems,
                      upload : {created.upload}]
    BY <1>3, <1>4, <2>1 DEF AddItem
  <2>3. menus[requests[e].menu] = requests[e].org
    BY <1>1, <1>4 DEF AddItem, Validated, KeysHold
  <2> QED BY <1>0, <1>2, <1>4, <2>1, <2>2, <2>3, ItemWritten DEF AddItem
<1>5. CASE SaveItem(e)
  <2>1. requests[e].item \in ItemIds
    BY <1>1, <1>5, LibraryAssumption DEF SaveItem, Validated, LibraryRequest, ItemIds
  <2>2. /\ strayed' \subseteq ItemIds
        /\ \A j \in ItemIds \ {requests[e].item} : j \in strayed' <=> j \in strayed
        /\ requests[e].item \in strayed' \/ menus[requests[e].menu] = requests[e].org
    BY <1>0, <1>5, <2>1 DEF SaveItem
  <2> QED BY <1>2, <1>3, <1>5, <2>1, <2>2, ItemWritten DEF SaveItem
<1>6. CASE DropItem(e)
  <2>1. requests[e].item \in ItemIds /\ requests[e].pc = "drop" /\ Goto(e, IdleRequest)
        /\ UNCHANGED <<sitePages, menus, media, disk, created, strayed>>
    BY <1>1, <1>6, LibraryAssumption DEF DropItem, Validated, LibraryRequest, ItemIds
  <2>2. CASE OwnsItem(requests[e].org, requests[e].item)
    BY <1>0, <1>3, <1>6, <2>1, <2>2, ItemWritten DEF DropItem
  <2>3. CASE ~OwnsItem(requests[e].org, requests[e].item)
    <3>1. items' = items
      BY <1>6, <2>3 DEF DropItem
    <3>2. Validated(IdleRequest) /\ requests[e].upload = 0
      BY <1>1, <2>1, IdleRequestOK DEF Validated, InHand, Holds
    <3> QED BY <2>1, <3>1, <3>2, FormKeeps, IdleRequestOK DEF MediaSteps
  <2> QED BY <2>2, <2>3
<1> QED BY <1>4, <1>5, <1>6

-----------------------------------------------------------------------------
(* The media: nothing of the menus is touched.                              *)

\* A step that writes, removes or names files of the upload u alone.
Names == Uploads \X {"full", "thumb"}
Touches(u) ==
    /\ files' \subseteq Names /\ partial' \subseteq Names /\ left' \subseteq Names
    /\ left \subseteq left'
    /\ \A f \in Names : f[1] # u => /\ f \in files' <=> f \in files
                                    /\ f \in partial' <=> f \in partial

LEMMA NamesOf == ASSUME NEW u \in Uploads
                 PROVE  /\ <<u, "full">> \in Names /\ <<u, "thumb">> \in Names
                        /\ <<u, "full">>[1] = u /\ <<u, "thumb">>[1] = u
                        /\ Files(u) = {f \in Names : f[1] = u}
<1>1. \A f \in Names : f[1] = u => f = <<u, "full">> \/ f = <<u, "thumb">>
  BY DEF Names
<1>2. <<u, "full">> \in Names /\ <<u, "thumb">> \in Names
  BY DEF Names
<1>3. <<u, "full">>[1] = u /\ <<u, "thumb">>[1] = u
  OBVIOUS
<1>4. ASSUME NEW f \in Files(u) PROVE f \in {g \in Names : g[1] = u}
  BY <1>2, <1>3 DEF Files
<1>5. ASSUME NEW f \in {g \in Names : g[1] = u} PROVE f \in Files(u)
  BY <1>1 DEF Files
<1>6. Files(u) = {f \in Names : f[1] = u}
  BY <1>4, <1>5
<1> QED BY <1>2, <1>3, <1>6

LEMMA DiskTyped == LibraryTypeOK => files \subseteq Names /\ partial \subseteq Names /\ left \subseteq Names
BY DEF LibraryTypeOK, Names

\* A request that works on an upload u of its own, or lets go of it.
LEMMA MediaStep ==
  ASSUME LibraryInv, NEW e \in Requests, NEW q \in LibraryRequest, Goto(e, q),
         requests[e].pc \notin MenuSteps, q.pc \notin MenuSteps,
         UNCHANGED <<sitePages, menus, items, strayed>>,
         created' \in [page : {created.page}, menu : {created.menu}, item : {created.item},
                       upload : 0..MaxUploads],
         created.upload <= created'.upload,
         media' \in [Uploads -> Organizations \cup {"none"}],
         NEW u \in Uploads, u <= created'.upload, Touches(u),
         q.upload \in {u, 0}, Holds(q, media', files', partial', left'),
         \A d \in Requests : d # e => requests[d].upload # u,
         \A v \in Uploads : v # u => media'[v] = media[v],
         requests[e].upload \in {u, 0},
         media'[u] # "none" => Files(u) \subseteq files' \ partial',
         \/ q.upload = u \/ media'[u] # "none"
         \/ \A f \in files' : f[1] = u => f \in left'
  PROVE  LibraryInv'
<1>1. LibraryTypeOK /\ MenusInv /\ MediaInv
  BY Halves
<1>2. /\ requests' \in [Requests -> LibraryRequest] /\ requests'[e] = q
      /\ \A d \in Requests : d # e => requests'[d] = requests[d]
  BY <1>1, Goes
<1>3. /\ created'.page = created.page /\ created'.menu = created.menu
      /\ created'.upload \in 0..MaxUploads /\ created.upload \in 0..MaxUploads
  BY <1>1 DEF LibraryTypeOK
<1>4. LibraryTypeOK'
  BY <1>1, <1>2 DEF LibraryTypeOK, Touches, Names
<1>5. MenusRest
  BY <1>2, <1>3 DEF MenusRest
<1>6. \A d \in Requests : requests[d] \in LibraryRequest /\ requests[d].upload <= created.upload
                          /\ InHand(requests[d])
  BY <1>1 DEF MediaInv, LibraryTypeOK
<1>7. \A v \in Uploads : v > created'.upload => media'[v] = "none"
  BY <1>1, <1>3, LibraryAssumption DEF MediaInv, Uploads
<1>8. ASSUME NEW d \in Requests
      PROVE  (requests[d].upload <= created.upload /\ InHand(requests[d]))'
  <2>1. CASE d = e
    <3>1. requests'[d] = q
      BY <1>2, <2>1
    <3>2. q.upload <= created'.upload
      BY <1>3, LibraryAssumption DEF Uploads
    <3> QED BY <3>1, <3>2 DEF InHand, Holds
  <2>2. CASE d # e
    <3>1. requests'[d] = requests[d] /\ requests[d].upload # u /\ requests[d].upload <= created'.upload
      BY <1>2, <1>3, <1>6, <2>2, LibraryAssumption DEF LibraryRequest
    <3>2. CASE requests[d].upload = 0
      BY <1>6, <3>1, <3>2 DEF InHand, Holds
    <3>3. CASE requests[d].upload # 0
      <4> DEFINE v == requests[d].upload
      <4>1. v \in Uploads /\ v # u
        BY <1>6, <3>1, <3>3, LibraryAssumption DEF LibraryRequest, Uploads
      <4>2. /\ media'[v] = media[v]
            /\ <<v, "full">> \in files' <=> <<v, "full">> \in files
            /\ <<v, "thumb">> \in files' <=> <<v, "thumb">> \in files
            /\ <<v, "full">> \in partial' <=> <<v, "full">> \in partial
            /\ <<v, "thumb">> \in partial' <=> <<v, "thumb">> \in partial
            /\ left \subseteq left'
        BY <4>1, NamesOf DEF Touches
      <4> QED BY <1>6, <3>1, <3>3, <4>2 DEF InHand, Holds
    <3> QED BY <3>2, <3>3
  <2> QED BY <2>1, <2>2
<1>9. Alone'
  BY <1>1, <1>2 DEF Alone, MediaInv
<1>10. Filed'
  <2> SUFFICES ASSUME NEW v \in Uploads, media'[v] # "none" PROVE Files(v) \subseteq files' \ partial'
    BY DEF Filed, Files
  <2>1. CASE v = u
    BY <2>1
  <2>2. CASE v # u
    <3>1. Files(v) \subseteq files \ partial
      BY <1>1, <2>2 DEF MediaInv, Filed
    <3>2. ASSUME NEW f \in Files(v) PROVE f \in Names /\ f[1] = v
      BY DEF Files, Names
    <3> QED BY <2>2, <3>1, <3>2 DEF Touches
  <2> QED BY <2>1, <2>2
<1>11. Accounted'
  <2> SUFFICES ASSUME NEW f \in files', f \notin left'
               PROVE  media'[f[1]] # "none" \/ \E d \in Requests : requests'[d].upload = f[1]
    BY DEF Accounted
  <2>1. f \in Names /\ f[1] \in Uploads
    BY DEF Touches, Names
  <2>2. CASE f[1] = u
    BY <1>2, <2>2
  <2>3. CASE f[1] # u
    <3>1. f \in files /\ f \notin left
      BY <2>1, <2>3 DEF Touches
    <3>2. \/ media[f[1]] # "none" \/ \E d \in Requests : requests[d].upload = f[1]
      BY <1>1, <3>1 DEF MediaInv, Accounted
    <3>3. CASE media[f[1]] # "none"
      BY <2>1, <2>3, <3>3
    <3>4. CASE \E d \in Requests : requests[d].upload = f[1]
      <4>1. PICK d \in Requests : requests[d].upload = f[1]
        BY <3>4
      <4>2. d # e
        BY <2>1, <2>3, <4>1, LibraryAssumption DEF Uploads
      <4> QED BY <1>2, <4>1, <4>2
    <3> QED BY <3>2, <3>3, <3>4
  <2> QED BY <2>2, <2>3
<1>12. Unused'
  <2> SUFFICES ASSUME NEW f \in files' \cup partial' PROVE f[1] <= created'.upload
    BY DEF Unused
  <2>1. f \in Names /\ f[1] \in Nat
    BY DEF Touches, Names, Uploads
  <2>2. CASE f[1] # u
    <3>1. f[1] <= created.upload
      BY <1>1, <2>1, <2>2 DEF Touches, MediaInv, Unused
    <3> QED BY <1>3, <2>1, <3>1
  <2> QED BY <2>2
<1>13. MediaInv'
  BY <1>7, <1>8, <1>9, <1>10, <1>11, <1>12 DEF MediaInv
<1> QED BY <1>1, <1>4, <1>5, <1>13, MenusResting, Halves

\* What the last step of a task leaves at rest.
LEMMA AtRest == /\ InHand(IdleRequest) /\ Holds(IdleRequest, media', files', partial', left')
                /\ IdleRequest.pc \notin MenuSteps
BY IdleRequestOK DEF InHand, Holds, MenuSteps

\* The three things that happen to one file.
LEMMA FileWritten ==
  ASSUME LibraryTypeOK, NEW u \in Uploads, NEW f \in Files(u), Writes(f)
  PROVE  Touches(u) /\ files' = files \cup {f} /\ partial' = partial /\ left' = left
<1>1. f \in Names /\ f[1] = u
  BY NamesOf
<1> QED BY <1>1, DiskTyped DEF Touches, Writes

LEMMA FileCutShort ==
  ASSUME LibraryTypeOK, NEW u \in Uploads, NEW f \in Files(u), CutShort(f)
  PROVE  /\ Touches(u) /\ (f \notin files => f \notin files' \/ f \in left')
         /\ \A g \in Names : g # f => /\ g \in files' <=> g \in files
                                      /\ g \in partial' <=> g \in partial
<1>1. f \in Names /\ f[1] = u
  BY NamesOf
<1>2. CASE UNCHANGED disk
  BY <1>1, <1>2, DiskTyped DEF Touches, disk
<1>3. CASE files' = files \cup {f} /\ partial' = partial \cup {f} /\ left' = left \cup {f}
  BY <1>1, <1>3, DiskTyped DEF Touches
<1> QED BY <1>2, <1>3 DEF CutShort

LEMMA FileTaken ==
  ASSUME LibraryTypeOK, NEW u \in Uploads, NEW f \in Files(u),
         \/ files' = files \ {f} /\ left' = left
         \/ files' = files /\ left' = left \cup {f},
         partial' = partial
  PROVE  /\ Touches(u) /\ (f \notin files' \/ f \in left')
         /\ \A g \in Names : g # f => (g \in files' <=> g \in files)
<1>1. f \in Names /\ f[1] = u
  BY NamesOf
<1> QED BY <1>1, DiskTyped DEF Touches

LEMMA UploadKeeps == ASSUME LibraryInv, NEW e \in Requests, Upload(e) PROVE LibraryInv'
<1>1. /\ LibraryTypeOK /\ MediaInv /\ InHand(requests[e]) /\ requests[e].pc = "idle"
      /\ requests[e].upload = 0 /\ created.upload < MaxUploads
  BY Halves DEF MediaInv, Upload, InHand, Holds
<1> DEFINE u == created.upload + 1
<1>2. PICK org \in Organizations :
        /\ created' = [created EXCEPT !.upload = u]
        /\ \/ /\ Writes(<<u, "full">>)
              /\ Goto(e, [IdleRequest EXCEPT !.pc = "thumb", !.org = org, !.upload = u])
           \/ CutShort(<<u, "full">>) /\ Goto(e, IdleRequest)
  BY DEF Upload
<1>3. UNCHANGED <<sitePages, menus, items, media, strayed>>
  BY DEF Upload
<1> DEFINE q == [IdleRequest EXCEPT !.pc = "thumb", !.org = org, !.upload = u]
<1>4. u \in Uploads /\ u \in 0..MaxUploads /\ u # 0 /\ created.upload <= u
      /\ created.upload \in Nat /\ ~(u <= created.upload)
  BY <1>1, LibraryAssumption DEF LibraryTypeOK, Uploads
<1>5. q \in LibraryRequest /\ q.pc = "thumb" /\ q.upload = u /\ q.org # "none"
  <2> HIDE DEF u
  <2>1. ASSUME NEW r \in LibraryRequest, NEW s,
               s = [r EXCEPT !.pc = "thumb", !.org = org, !.upload = u]
        PROVE  s \in LibraryRequest /\ s.pc = "thumb" /\ s.upload = u /\ s.org = org
    <3> QED BY ONLY <1>4, <2>1 DEF LibraryRequest, LibrarySteps
  <2> QED BY <1>4, <2>1, IdleRequestOK, LibraryAssumption
<1>6. /\ created' \in [page : {created.page}, menu : {created.menu}, item : {created.item},
                        upload : 0..MaxUploads]
      /\ created'.upload = u
  BY <1>1, <1>2, <1>4 DEF LibraryTypeOK
<1>7. media[u] = "none" /\ media \in [Uploads -> Organizations \cup {"none"}]
  BY <1>1, <1>4 DEF MediaInv, LibraryTypeOK
<1>8. \A d \in Requests : requests[d].upload # u
  BY <1>1, LibraryAssumption DEF MediaInv, LibraryTypeOK, LibraryRequest
<1>9. \A f \in Names : f[1] = u => f \notin files /\ f \notin partial
  BY <1>1, <1>4 DEF MediaInv, Unused
<1>10. <<u, "full">> \in Files(u) /\ <<u, "thumb">> # <<u, "full">>
  BY DEF Files
<1>11. CASE Writes(<<u, "full">>) /\ Goto(e, q)
  <2> HIDE DEF q, u
  <2>1. Touches(u) /\ files' = files \cup {<<u, "full">>} /\ partial' = partial /\ left' = left
    BY <1>1, <1>4, <1>10, <1>11, FileWritten
  <2>2. <<u, "full">> \in files' \ partial' /\ <<u, "thumb">> \notin files' \cup partial'
    BY <1>4, <1>9, <2>1, NamesOf
  <2>3. Holds(q, media', files', partial', left')
    BY <1>3, <1>4, <1>5, <1>7, <2>2 DEF Holds
  <2>4. u <= created'.upload /\ created.upload <= created'.upload /\ media'[u] = "none"
    BY <1>3, <1>4, <1>6, <1>7
  <2>5. requests[e].pc \notin MenuSteps /\ q.pc \notin MenuSteps
    BY <1>1, <1>5 DEF MenuSteps
  <2> QED BY <1>1, <1>3, <1>4, <1>5, <1>6, <1>7, <1>8, <1>11, <2>1, <2>3, <2>4, <2>5, MediaStep
<1>12. CASE CutShort(<<u, "full">>) /\ Goto(e, IdleRequest)
  <2> HIDE DEF q, u
  <2>1. /\ Touches(u) /\ (<<u, "full">> \notin files => <<u, "full">> \notin files' \/ <<u, "full">> \in left')
        /\ \A g \in Names : g # <<u, "full">> => (g \in files' <=> g \in files)
    BY <1>1, <1>4, <1>10, <1>12, FileCutShort
  <2>2. \A f \in files' : f[1] = u => f \in left'
    BY <1>4, <1>9, <2>1, NamesOf DEF Touches
  <2>3. u <= created'.upload /\ created.upload <= created'.upload /\ media'[u] = "none"
    BY <1>3, <1>4, <1>6, <1>7
  <2>4. requests[e].pc \notin MenuSteps
    BY <1>1 DEF MenuSteps
  <2> QED BY <1>1, <1>3, <1>4, <1>6, <1>7, <1>8, <1>12, <2>1, <2>2, <2>3, <2>4, AtRest, IdleRequestOK,
             MediaStep
<1> QED BY <1>2, <1>11, <1>12

LEMMA DeleteMediaKeeps == ASSUME LibraryInv, NEW e \in Requests, DeleteMedia(e) PROVE LibraryInv'
<1>1. /\ LibraryTypeOK /\ MediaInv /\ InHand(requests[e]) /\ requests[e].pc = "idle"
      /\ requests[e].upload = 0
  BY Halves DEF MediaInv, DeleteMedia, InHand, Holds
<1>2. PICK org \in Organizations, u \in Uploads :
        /\ media[u] = org
        /\ media' = [media EXCEPT ![u] = "none"]
        /\ Goto(e, [IdleRequest EXCEPT !.pc = "erase", !.org = org, !.upload = u])
  BY DEF DeleteMedia
<1>3. UNCHANGED <<sitePages, menus, items, disk, created, strayed>>
  BY DEF DeleteMedia
<1> DEFINE q == [IdleRequest EXCEPT !.pc = "erase", !.org = org, !.upload = u]
<1>4. u \in 0..MaxUploads /\ u # 0 /\ media[u] # "none"
  BY <1>2, LibraryAssumption DEF Uploads
<1>5. q \in LibraryRequest /\ q.pc = "erase" /\ q.upload = u /\ q.org # "none"
  <2>1. ASSUME NEW r \in LibraryRequest, NEW s,
               s = [r EXCEPT !.pc = "erase", !.org = org, !.upload = u]
        PROVE  s \in LibraryRequest /\ s.pc = "erase" /\ s.upload = u /\ s.org = org
    <3> QED BY ONLY <1>4, <2>1 DEF LibraryRequest, LibrarySteps
  <2> QED BY <1>4, <2>1, IdleRequestOK, LibraryAssumption
<1>6. /\ created' \in [page : {created.page}, menu : {created.menu}, item : {created.item},
                        upload : 0..MaxUploads]
      /\ created'.upload = created.upload /\ created.upload <= created'.upload
  BY <1>1, <1>3, LibraryAssumption DEF LibraryTypeOK
<1>7. u <= created'.upload
  BY <1>1, <1>4, <1>6, LibraryAssumption DEF MediaInv, LibraryTypeOK, Uploads
<1>8. \A d \in Requests : requests[d].upload # u
  BY <1>1, <1>4 DEF MediaInv, InHand, Holds
<1>9. /\ media' \in [Uploads -> Organizations \cup {"none"}] /\ media'[u] = "none"
      /\ \A v \in Uploads : v # u => media'[v] = media[v]
      /\ Touches(u)
  BY <1>1, <1>2, <1>3, DiskTyped DEF LibraryTypeOK, Touches, disk
<1>10. Goto(e, q)
  BY <1>2
<1> HIDE DEF q
<1>11. Holds(q, media', files', partial', left')
  BY <1>4, <1>5, <1>9 DEF Holds
<1> QED BY <1>1, <1>3, <1>5, <1>6, <1>7, <1>8, <1>9, <1>10, <1>11, MediaStep DEF MenuSteps

\* The steps of a request that holds its upload already.
LEMMA HeldSteps ==
  ASSUME LibraryInv, NEW e \in Requests, requests[e].pc \in MediaSteps,
         NEW q \in LibraryRequest, Goto(e, q), q.pc \notin MenuSteps,
         q.upload \in {requests[e].upload, 0}, Holds(q, media', files', partial', left'),
         UNCHANGED <<sitePages, menus, items, strayed, created>>,
         media' = media \/ media' = [media EXCEPT ![requests[e].upload] = requests[e].org],
         Touches(requests[e].upload),
         media' = media \/ Files(requests[e].upload) \subseteq files' \ partial',
         \/ q.upload # 0 \/ media' # media
         \/ \A f \in files' : f[1] = requests[e].upload => f \in left'
  PROVE  LibraryInv'
<1> DEFINE u == requests[e].upload
<1>1. /\ LibraryTypeOK /\ MediaInv /\ InHand(requests[e]) /\ requests[e] \in LibraryRequest
      /\ u <= created.upload
  BY Halves DEF MediaInv, LibraryTypeOK
<1>2. u # 0 /\ u \in Uploads /\ media[u] = "none"
  <2>1. u # 0
    BY <1>1 DEF InHand, Holds, MediaSteps
  <2>2. u \in Uploads
    BY <1>1, <2>1, LibraryAssumption DEF LibraryRequest, Uploads
  <2> QED BY <1>1, <2>1, <2>2 DEF InHand, Holds
<1>3. \A d \in Requests : d # e => requests[d].upload # u
  BY <1>1, <1>2 DEF MediaInv, Alone
<1>4. /\ created' \in [page : {created.page}, menu : {created.menu}, item : {created.item},
                        upload : 0..MaxUploads]
      /\ created'.upload = created.upload /\ created.upload <= created'.upload
  BY <1>1, LibraryAssumption DEF LibraryTypeOK
<1>5. /\ media' \in [Uploads -> Organizations \cup {"none"}]
      /\ \A v \in Uploads : v # u => media'[v] = media[v]
  BY <1>1, <1>2 DEF LibraryTypeOK, LibraryRequest
<1>6. media'[u] # "none" => Files(u) \subseteq files' \ partial'
  BY <1>2
<1>7. media' # media => media'[u] # "none"
  BY <1>1, <1>2 DEF LibraryTypeOK, InHand, Holds
<1>8. requests[e].pc \notin MenuSteps
  BY DEF MediaSteps, MenuSteps
<1>9. q.upload = u \/ media'[u] # "none" \/ \A f \in files' : f[1] = u => f \in left'
  BY <1>7
<1> HIDE DEF u
<1>10. q.upload \in {u, 0} /\ requests[e].upload \in {u, 0} /\ Touches(u)
  BY DEF u
<1> QED BY <1>1, <1>2, <1>3, <1>4, <1>5, <1>6, <1>8, <1>9, <1>10, MediaStep

\* What such a request knows of its upload.
LEMMA HeldUpload ==
  ASSUME LibraryInv, NEW e \in Requests, requests[e].pc \in MediaSteps
  PROVE  /\ LibraryTypeOK /\ InHand(requests[e]) /\ requests[e] \in LibraryRequest
         /\ requests[e].upload # 0 /\ requests[e].upload \in Uploads
         /\ media[requests[e].upload] = "none"
<1>1. LibraryTypeOK /\ InHand(requests[e]) /\ requests[e] \in LibraryRequest
  BY Halves DEF MediaInv, LibraryTypeOK
<1>2. requests[e].upload # 0
  BY <1>1 DEF InHand, Holds, MediaSteps
<1>3. requests[e].upload \in Uploads
  BY <1>1, <1>2, LibraryAssumption DEF LibraryRequest, Uploads
<1> QED BY <1>1, <1>2, <1>3 DEF InHand, Holds

LEMMA WriteThumbKeeps == ASSUME LibraryInv, NEW e \in Requests, WriteThumb(e) PROVE LibraryInv'
<1> DEFINE u == requests[e].upload
           thumb == <<u, "thumb">>
           full == <<u, "full">>
<1>1. /\ requests[e].pc = "thumb" /\ requests[e].pc \in MediaSteps
      /\ UNCHANGED <<sitePages, menus, items, media, created, strayed>>
  BY DEF WriteThumb, MediaSteps
<1>2. /\ LibraryTypeOK /\ requests[e] \in LibraryRequest /\ u # 0 /\ u \in Uploads /\ media[u] = "none"
      /\ full \in files \ partial /\ thumb \notin files \cup partial /\ requests[e].org # "none"
  BY <1>1, HeldUpload DEF InHand, Holds
<1>3. thumb \in Files(u) /\ full \in Names /\ thumb \in Names /\ full # thumb
  BY <1>2, NamesOf DEF Files
<1>4. CASE Writes(thumb) /\ Goto(e, [requests[e] EXCEPT !.pc = "row"])
  <2> DEFINE q == [requests[e] EXCEPT !.pc = "row"]
  <2>1. q \in LibraryRequest /\ q.pc = "row" /\ q.upload = u /\ q.org = requests[e].org
    BY <1>2 DEF LibraryRequest, LibrarySteps
  <2> HIDE DEF q
  <2>2. Touches(u) /\ files' = files \cup {thumb} /\ partial' = partial
    BY <1>2, <1>3, <1>4, FileWritten
  <2>3. Holds(q, media', files', partial', left')
    BY <1>1, <1>2, <2>1, <2>2 DEF Holds
  <2>4. Goto(e, q)
    BY <1>4 DEF q
  <2> QED BY <1>1, <1>2, <2>1, <2>2, <2>3, <2>4, HeldSteps DEF MenuSteps
<1>5. CASE CutShort(thumb) /\ Goto(e, [requests[e] EXCEPT !.pc = "rollback"])
  <2> DEFINE q == [requests[e] EXCEPT !.pc = "rollback"]
  <2>1. q \in LibraryRequest /\ q.pc = "rollback" /\ q.upload = u /\ q.org = requests[e].org
    BY <1>2 DEF LibraryRequest, LibrarySteps
  <2> HIDE DEF q
  <2>2. /\ Touches(u) /\ (thumb \notin files => thumb \notin files' \/ thumb \in left')
    BY <1>2, <1>3, <1>5, FileCutShort
  <2>3. thumb \in files' => thumb \in left'
    BY <1>2, <2>2
  <2>4. Holds(q, media', files', partial', left')
    BY <1>1, <1>2, <2>1, <2>3 DEF Holds
  <2>5. Goto(e, q)
    BY <1>5 DEF q
  <2> QED BY <1>1, <1>2, <2>1, <2>2, <2>4, <2>5, HeldSteps DEF MenuSteps
<1> QED BY <1>4, <1>5 DEF WriteThumb

LEMMA InsertMediaKeeps == ASSUME LibraryInv, NEW e \in Requests, InsertMedia(e) PROVE LibraryInv'
<1> DEFINE u == requests[e].upload
<1>1. /\ requests[e].pc = "row" /\ requests[e].pc \in MediaSteps
      /\ UNCHANGED <<sitePages, menus, items, disk, created, strayed>>
  BY DEF InsertMedia, MediaSteps
<1>2. /\ LibraryTypeOK /\ requests[e] \in LibraryRequest /\ u # 0 /\ u \in Uploads /\ media[u] = "none"
      /\ Files(u) \subseteq files \ partial /\ InHand(requests[e]) /\ requests[e].org # "none"
  BY <1>1, HeldUpload DEF InHand, Holds, Files
<1>3. Touches(u) /\ UNCHANGED <<files, partial, left>>
  BY <1>1, <1>2, DiskTyped DEF Touches, disk
<1>4. CASE media' = [media EXCEPT ![u] = requests[e].org] /\ Goto(e, IdleRequest)
  <2>1. media' # media
    BY <1>2, <1>4 DEF LibraryTypeOK
  <2> QED BY <1>1, <1>2, <1>3, <1>4, <2>1, HeldSteps, IdleRequestOK, AtRest
<1>5. CASE media' = media /\ Goto(e, [requests[e] EXCEPT !.pc = "undo"])
  <2> DEFINE q == [requests[e] EXCEPT !.pc = "undo"]
  <2>1. q \in LibraryRequest /\ q.pc = "undo" /\ q.upload = u /\ q.org = requests[e].org
    BY <1>2 DEF LibraryRequest, LibrarySteps
  <2> HIDE DEF q
  <2>2. Holds(q, media', files', partial', left')
    BY <1>2, <1>3, <1>5, <2>1 DEF Holds
  <2> QED BY <1>1, <1>2, <1>3, <1>5, <2>1, <2>2, HeldSteps DEF MenuSteps, q
<1> QED BY <1>4, <1>5 DEF InsertMedia

LEMMA RemovalsKeep ==
  ASSUME LibraryInv, NEW e \in Requests, Rollback(e) \/ Undo(e) \/ Erase(e) \/ EraseThumb(e)
  PROVE  LibraryInv'
<1> DEFINE u == requests[e].upload
           thumb == <<u, "thumb">>
           full == <<u, "full">>
<1>1. /\ requests[e].pc \in MediaSteps
      /\ UNCHANGED <<sitePages, menus, items, media, partial, created, strayed>>
  BY DEF Rollback, Undo, Erase, EraseThumb, Remove, MediaSteps
<1>2. /\ LibraryTypeOK /\ requests[e] \in LibraryRequest /\ u # 0 /\ u \in Uploads /\ media[u] = "none"
      /\ InHand(requests[e]) /\ requests[e].org # "none"
  BY <1>1, HeldUpload DEF InHand, Holds
<1>3. /\ Files(u) = {full, thumb} /\ full \in Names /\ thumb \in Names /\ full # thumb
      /\ \A f \in Names : f[1] = u => f = full \/ f = thumb
  BY <1>2, NamesOf DEF Files
<1>4. CASE Undo(e) \/ Erase(e)
  <2> DEFINE q == [requests[e] EXCEPT !.pc = "erase thumb"]
  <2>1. q \in LibraryRequest /\ q.pc = "erase thumb" /\ q.upload = u /\ q.org = requests[e].org
    BY <1>2 DEF LibraryRequest, LibrarySteps
  <2>2. /\ Goto(e, q)
        /\ \/ files' = files \ {full} /\ left' = left
           \/ files' = files /\ left' = left \cup {full}
    BY <1>4 DEF Undo, Erase, Remove
  <2> HIDE DEF q
  <2>3. Touches(u) /\ (full \notin files' \/ full \in left')
    BY <1>1, <1>2, <1>3, <2>2, FileTaken
  <2>4. Holds(q, media', files', partial', left')
    BY <1>1, <1>2, <2>1, <2>3 DEF Holds
  <2> QED BY <1>1, <1>2, <2>1, <2>2, <2>3, <2>4, HeldSteps DEF MenuSteps
<1>5. CASE EraseThumb(e)
  <2>1. /\ Goto(e, IdleRequest) /\ requests[e].pc = "erase thumb"
        /\ \/ files' = files \ {thumb} /\ left' = left
           \/ files' = files /\ left' = left \cup {thumb}
    BY <1>5 DEF EraseThumb, Remove
  <2>2. /\ Touches(u) /\ (thumb \notin files' \/ thumb \in left')
        /\ \A g \in Names : g # thumb => (g \in files' <=> g \in files)
    BY <1>1, <1>2, <1>3, <2>1, FileTaken
  <2>3. full \in files => full \in left
    BY <1>2, <2>1 DEF InHand, Holds
  <2>4. \A f \in files' : f[1] = u => f \in left'
    BY <1>3, <2>2, <2>3 DEF Touches
  <2> QED BY <1>1, <1>2, <2>1, <2>2, <2>4, HeldSteps, IdleRequestOK, AtRest
<1>6. CASE Rollback(e)
  <2>1. /\ Goto(e, IdleRequest) /\ requests[e].pc = "rollback"
        /\ \/ files' = files \ {full} /\ left' = left
           \/ files' = files /\ left' = left \cup {full}
    BY <1>6 DEF Rollback, Remove
  <2>2. /\ Touches(u) /\ (full \notin files' \/ full \in left')
        /\ \A g \in Names : g # full => (g \in files' <=> g \in files)
    BY <1>1, <1>2, <1>3, <2>1, FileTaken
  <2>3. thumb \in files => thumb \in left
    BY <1>2, <2>1 DEF InHand, Holds
  <2>4. \A f \in files' : f[1] = u => f \in left'
    BY <1>3, <2>2, <2>3 DEF Touches
  <2> QED BY <1>1, <1>2, <2>1, <2>2, <2>4, HeldSteps, IdleRequestOK, AtRest
<1> QED BY <1>4, <1>5, <1>6

LEMMA AbandonKeeps == ASSUME LibraryInv, NEW e \in Requests, Abandon(e) PROVE LibraryInv'
<1>1. /\ LibraryTypeOK /\ InHand(requests[e]) /\ requests[e] \in LibraryRequest
      /\ Goto(e, IdleRequest) /\ left' = left \cup {f \in files : f[1] = requests[e].upload}
      /\ UNCHANGED <<sitePages, menus, items, media, files, partial, created, strayed>>
  BY Halves DEF MediaInv, LibraryTypeOK, Abandon
<1>2. CASE requests[e].upload = 0
  <2>1. UNCHANGED disk
    <3>1. \A f \in files : f[1] # 0
      BY <1>1, LibraryAssumption, DiskTyped DEF Names, Uploads
    <3> QED BY <1>1, <1>2, <3>1 DEF disk
  <2>2. Validated(IdleRequest)
    BY IdleRequestOK DEF Validated
  <2> QED BY <1>1, <1>2, <2>1, <2>2, IdleRequestOK, FormKeeps DEF MediaSteps
<1>3. CASE requests[e].upload # 0
  <2>1. requests[e].pc \in MediaSteps
    BY <1>1, <1>3 DEF InHand, Holds, MediaSteps
  <2>2. Touches(requests[e].upload)
    BY <1>1, DiskTyped DEF Touches
  <2> QED BY <1>1, <2>1, <2>2, IdleRequestOK, AtRest, HeldSteps
<1> QED BY <1>2, <1>3

-----------------------------------------------------------------------------

LEMMA LibraryInitInv == LibraryInit => LibraryInv
<1> SUFFICES ASSUME LibraryInit PROVE LibraryInv
  OBVIOUS
<1>1. /\ \A e \in Requests : requests[e] = IdleRequest
      /\ \A i \in ItemIds : items[i] = NoItem
      /\ created.page = 0 /\ created.menu = 0 /\ created.item = 0 /\ created.upload = 0
  BY DEF LibraryInit
<1>2. LibraryTypeOK
  <2>1. created \in [page : 0..MaxSitePages, menu : 0..MaxMenus, item : 0..MaxItems,
                     upload : 0..MaxUploads]
    BY LibraryAssumption DEF LibraryInit
  <2> QED BY <2>1, IdleRequestOK DEF LibraryInit, LibraryTypeOK
<1>3. MenusInv
  BY <1>1, IdleRequestOK DEF LibraryInit, MenusInv, Navigable, ItemOK, Validated
<1>4. MediaInv
  <2>1. Alone /\ Filed /\ Accounted /\ Unused
    BY <1>1, IdleRequestOK DEF LibraryInit, Alone, Filed, Accounted, Unused
  <2> QED BY <1>1, <2>1, IdleRequestOK, AtRest DEF LibraryInit, MediaInv
<1> QED BY <1>2, <1>3, <1>4, Halves

LEMMA LibraryInductive == LibraryInv /\ [LibraryNext]_libraryVars => LibraryInv'
<1> SUFFICES ASSUME LibraryInv, [LibraryNext]_libraryVars PROVE LibraryInv'
  OBVIOUS
<1>1. CASE UNCHANGED libraryVars
  <2>1. MenusRest /\ MediaRests /\ LibraryTypeOK'
    BY <1>1, Halves DEF libraryVars, disk, MenusRest, MediaRests, LibraryTypeOK
  <2> QED BY <2>1, Halves, MenusResting, MediaResting
<1>2. CASE PageAdded \/ PageShownOrHidden \/ PageDeleted \/ CreateMenu \/ DeleteMenu
  BY <1>2, PageAddedKeeps, PagesChangeKeeps, MenusChangeKeeps
<1>3. ASSUME NEW e \in Requests,
             \/ StartItem(e) \/ StartUpdate(e) \/ Validate(e) \/ AddItem(e) \/ SaveItem(e)
             \/ StartDrop(e) \/ DropItem(e)
      PROVE  LibraryInv'
  BY <1>3, StartsKeep, ValidateKeeps, ItemsKeep
<1>4. ASSUME NEW e \in Requests,
             \/ Upload(e) \/ WriteThumb(e) \/ InsertMedia(e) \/ Rollback(e) \/ Undo(e)
             \/ DeleteMedia(e) \/ Erase(e) \/ EraseThumb(e) \/ Abandon(e)
      PROVE  LibraryInv'
  BY <1>4, UploadKeeps, WriteThumbKeeps, InsertMediaKeeps, RemovalsKeep, DeleteMediaKeeps,
     AbandonKeeps
<1> QED BY <1>1, <1>2, <1>3, <1>4 DEF LibraryNext

LEMMA LibraryInvariance == LibrarySpec => []LibraryInv
<1> QED BY LibraryInitInv, LibraryInductive, PTL DEF LibrarySpec

\* Menus and their items (cms.rs create_item, update_item and validate_item_form;
\* db.rs add_item, update_item and resolved): for any number of requests, whatever
\* pages, menus and items are deleted between the check of a form and its write,
\* the menu and the page of an item are there, and unless the item was last saved
\* through another organization's menu its page is one of its own organization, so
\* that the navigation links it only while that organization's visitors can open it.
THEOREM NavigationHolds == LibrarySpec => []NavigationOpens
<1>1. LibraryInv => NavigationOpens
  <2> SUFFICES ASSUME LibraryInv PROVE NavigationOpens
    OBVIOUS
  <2>1. LibraryTypeOK /\ Navigable
    BY Halves DEF MenusInv
  <2>2. ASSUME NEW org \in Organizations, NEW i \in Resolved(org), items[i].page # Url,
               i \notin strayed
        PROVE  sitePages[items[i].page] = [org |-> org, visible |-> TRUE]
    <3>1. /\ items[i] \in Item /\ items[i].page \in SitePageIds
          /\ sitePages[items[i].page].visible /\ sitePages[items[i].page].org = org
      BY <2>1, <2>2 DEF Resolved, Navigable, ItemOK, LibraryTypeOK, Item
    <3>2. sitePages[items[i].page] \in SitePage
      BY <2>1, <3>1 DEF LibraryTypeOK, NoSitePage
    <3> QED BY <3>1, <3>2 DEF SitePage
  <2> QED BY <2>1, <2>2 DEF NavigationOpens, Navigable, ItemOK
<1> QED BY <1>1, LibraryInvariance, PTL

\* upload_media and delete_media (media.rs): for any number of requests and
\* uploads, whatever write or removal fails and whatever it leaves on the disk, a
\* row has both its files and whole, and a file has a row, a request in charge of
\* it, or was left behind by the very step that failed.
THEOREM FilesKeepTheirRows == LibrarySpec => []FilesMatchRows
<1>1. LibraryInv => FilesMatchRows
  BY DEF LibraryInv, FilesMatchRows, Filed, Accounted
<1> QED BY <1>1, LibraryInvariance, PTL
=============================================================================
