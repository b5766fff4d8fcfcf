# wallermax-server: specification and verification

TLA+ modules of wallermax-server (a Rust HTTP server with a multi-tenant CMS,
`.jhs` templates rendered by a Node sidecar or an embedded engine, and a desktop
manager), the TLC configurations that check them on small instances, and
theorems about them that TLAPS checks for every value of the constants.

Run `tlc -config X.cfg M` for a run of `PROJECT.json` and `tlapm M.tla` for a
module of proofs.

## 1. Inventory

The server is one process: axum handlers on a tokio runtime, one SQLite database
behind a connection pool, shared `AppState`, one Node child for templates. The
manager is a second program that starts, watches and stops it, and edits its
configuration files.

| component | state it keeps | operations | what is hard | what makes it correct |
|---|---|---|---|---|
| refresh-token sessions (`routes/auth.rs`, `db.rs`) | table `refresh_tokens` | login, refresh, logout, logout_all, prune, cascade on account deletion | every statement is awaited: two refreshes of one token, a logout inside a refresh, a failure between two statements | one usable token per session; replays are noticed; ended sessions stay ended |
| access tokens, cookies (`auth.rs`, `session.rs`, `extractors.rs`) | signing key; one cookie per browser | mint, accept, set and clear the cookie | a stateless token outlives a role change, a logout, a restart; answers cross | lost power ends within a bound; signed out stays signed out |
| accounts, roles, membership mirror (`routes/auth.rs`, `routes/cms.rs`, `db.rs`) | `users`, the membership of every user in the organization `cms` | register, role changes, account deletion, boot-time repair | guard read, Argon2 await, write; role and membership are written by two statements | never without an administrator; role = membership |
| tenants and teams (`routes/tenants.rs`, `routes/team.rs`, `db.rs`) | `organizations`, `memberships`, `domains`, no foreign keys | create, delete, grant, revoke, map a host, set a root; seeders at boot | guards read before the writes, no keys to stop orphans | a tenant starts empty; an organization keeps an administrator; listed hosts are served |
| virtual-host snapshot (`state.rs`, `vhosts.rs`, `routes/mod.rs`) | the host map and the trees requests are routed by | refresh after every tenant write | reads, then an unversioned replace; every layer reads it on its own | the snapshot catches up with the rows; mapped hosts have trees |
| request path (`middleware/`, `routes/static_files.rs`, `routes/mod.rs`) | nothing of its own | layers, template layer, dispatcher, trees, panel guard | hosts, files and the default page change under a request | private content stays on its hosts; refusals are traceable; the panel acts where the guard looked |
| rate limiting, login throttle (`rate_limit.rs`) | buckets, failure counters per pair and per address | check, record, sweep | check before Argon2, record after; tables that fill up | bounded failures, locks that hold |
| sidecar supervisor and renderers (`template_engine/sidecar.rs`) | current child, generation, respawn slot, backoff, health flags | render, probe, respawn | flags written by racing threads; failures that arrive late | one respawn at a time; recovery; no fork bomb |
| sidecar worker pool (`sidecar/jhs-sidecar.mjs`) | slots, queue, pending jobs | submit, dispatch, kill, respawn | events of a killed worker that arrive late | each job is answered once; no slot is lost |
| embedded template engine, require bridge (`template_engine/`) | program and source caches, a registry per render | render, include, require | file changes between stat and read, cycles, modules that throw | a page is made of what its files held; a module runs once |
| CMS pages, revisions, menus (`routes/cms.rs`, `routes/search.rs`, `db.rs`) | `pages`, `revisions`, `menus`, `menu_items` | create, import, update, restore, delete, schedule; every public listing | the tree is checked by one read per hop and written later; schedules pass without a write | tree without cycles, truthful history, listings that agree with what opens |
| media library (`routes/media.rs`, `media.rs`) | two files and a row of `media` per upload | upload, delete | files and row are separate steps | rows have their files, files their rows |
| configuration (`config.rs`) | merged settings | load two files and the environment, validate | the two files are read one after the other | what is enabled can be served |
| server life cycle (`main.rs`, `server.rs`) | listeners, requests in flight, the hosts mapped at boot | boot, serve, graceful shutdown | files that change between two reads; requests that never end | a boot refuses for a reason; shutdown ends |
| manager: server process, log buffer (`process_manager.rs`, `app.rs`, `ui/app.js`) | slot, exit record, ring buffer, cursor | start, probe, stop, capture, poll | commands on a pool, late reaping, overlapping polls | one server at a time; stop means dead; a line is shown once |
| manager: configuration editor (`config_manager.rs`, `ui/app.js`) | two TOML layers, their backups, the page | load, save (form, raw), restore | several steps on disk, edits by others, answers that cross | the pair on disk stays valid; what is replaced can be restored |
| manager: takeover of the port (`app.rs`, `ports.rs`) | a banner, a list of owners | probe, list, kill, wait | processes and pids that come and go | only servers are killed |
| metrics, external API client, small handlers, markdown, desktop layout | counters or nothing | | | stateless; not modelled |

Interactions: every handler reads `AppState`; the tenants' handlers refresh the
virtual-host snapshot, which every layer of the request path reads; accounts
cascade to refresh tokens (foreign key) and mirror into memberships (application
code); renders go through the supervisor to the worker pool of the child it
spawned; the manager sees the server as a process, two pipes, a port and the two
files it boots from.

`PROJECT.json` lists every component with its status and every hazard at its
line.

## 2. Modules

| module | models | proofs |
|---|---|---|
| `RefreshTokens` | refresh-token sessions, one action per database round trip | `RefreshTokensProofs` |
| `AccessTokens` | signed access tokens and the session cookie | `AccessTokensProofs` |
| `Accounts` | registration, the user panel, the membership mirror and its boot pass; one action per statement | `IdentityProofs` |
| `Team` | the three pages that change an organization's members | `IdentityProofs` |
| `Tenants` | organizations, host names, roots, their content, the boot's seeders, the snapshot; one action per statement | `TenantsProofs` |
| `Dispatch` | one request through layers, template layer, dispatcher, trees and panel guard | `ServingProofs` |
| `LoginThrottle` | token buckets, pair and address counters, login's check and record | `ServingProofs` |
| `TemplateCache` | the caches of the embedded engine and the require bridge | `ServingProofs` |
| `Pages` | pages, revisions, schedule, the tree and every reading of it | `ContentProofs` |
| `Library` | menus and items, media rows and files | `ContentProofs` |
| `SidecarSupervisor` | supervisor, `AutoRenderer`, `StrictSidecar`, one action per atomic access or critical section | `SidecarProofs` |
| `WorkerPool` | the broker of the sidecar: slots, queue, budgets, worker events; one action per event handler | `SidecarProofs` |
| `Configuration` | the laws of `validate()` and the merge of the layers (operators only) | |
| `ServerLife` | boot, listeners, requests, shutdown; takes its rules from `Configuration`, its files from `ConfigFiles` | `ManagerProofs` |
| `ServerProcess` | `ProcessManager`, `LogBuffer`, `App::start_server`/`stop_server`, the shell's poller | `ManagerProofs` |
| `ConfigFiles` | abstract: one file at a time is replaced and the pair stays acceptable | |
| `ConfigEditor` | page, save, backup, rename, restore; implements `ConfigFiles` | `ManagerProofs` |
| `Takeover` | the port conflict and its one-click recovery | `ManagerProofs` |

`MC<module>` holds the constants of a module's runs. Definitions introduced by
"Slip:" are plausible mistakes in the code next to them; no specification uses
them. Each one, put in the place of the definition it distorts, violates a
property of a run (`mutants` in `PROJECT.json`).

Four MC modules put several modules under one configuration: `MCIdentity`
(Accounts, Team, RefreshTokens, AccessTokens), `MCContent` (Pages, Library),
`MCServing` (LoginThrottle, Dispatch, TemplateCache) and `MCManager`
(ServerProcess, ConfigEditor, ServerLife, Takeover). A behaviour picks one `part`
(`stage`) at its start and the others' variables stay at rest, so the states add
up instead of multiplying and the parts do not interact: no step of the code in
one of them reads what the others keep, except where a module has both sides
itself (`Tenants` owns the snapshot, `ServerLife` takes its settings from
`Configuration`). `MCContent`, `MCServing` and `MCManager` extend their parts,
`MCIdentity` Accounts and Team: the properties are the components' own there. The other parts
are instances, and a property of theirs is stated in the MC module under its own
name, guarded by the part.

### RefreshTokens

A handler is `task[h]`: its step (the statement it will send next), the token it
works on, and what it remembers of the row it read (`family`, `user`), which may
be stale by the time it is used. `table` is the table; row ids come from
AUTOINCREMENT and are never reused. `save_refresh_token` for a new family is two
statements (`Save`, `Adopt`): between them the row carries the placeholder
family 0. `Refresh` → `Prune` → `Find` → `Rotate` → `Account` → `Mint` is the
happy path; `RevokeReused` is the reuse branch. `Abort` is everything that ends
a handler between two statements: a storage error, a signing error, a dropped
connection (the future is dropped at its await), a crash of the process. A
logout is two statements (`LogoutFind`, `LogoutRevoke`), a logout_all one.
`issued` and `ended` are history: tokens handed to clients, families revoked at
least once. Clients present only tokens they were given; an unknown token is
answered 401 without an effect.

Bounds: three rows are enough for login, successor and a second successor or a
second family; two handlers race; the clock has three values, so a row can be
live, expired, or just at its boundary (`expires_at <= now`). With two accounts
(`identity`) two rows suffice: one each; there `SessionsEnd` says that no session
outlives either account.

### AccessTokens

`tokens` are the signed tokens in use or on their way, `logins` the requests
that mint or clear, `jar` the browser's cookies. A request reads the role, may
wait as long as `request_timeout`, signs, and its answer may reach the browser
after a later one's. The server accepts a token by signature, lifetime and
leeway alone. `held` and `signedOut` are history: when an account last had a
role, whether the last session answer was a clear; `moved` records a change of
`cookie_domain` between two starts. One account, two requests, a clock of five
seconds with all durations 1, two starts: a token can be minted late, outlive a
demotion, reach the end of its leeway and meet another key.

### Accounts and Team

A handler is `tasks[h]`, at the statement it will send next; what it decided
earlier may be stale. `Abort` is a failed statement or a dropped request,
`Crash` the death of the server, at any step, also between the two statements of
the boot pass (`BootMirror`, `BootPrune`). The membership row is written by a
statement of its own (`Sync`) after the role. `disturbed` is history: accounts
whose last role write was cut off before its `Sync`, or overlapped with another
one. For those the membership may differ from the role until the next role write
or boot; migration 0009 (lines 24-25) promises no more than "every boot and
every role write", so this is not counted as a divergence.

`Team` has one organization and the three pages that change its members: the
tenant's Team page, the platform's Tenants page and account deletion. They count
differently: the first two the listed members (rows joined with accounts), the
last the rows. `raced` is history: some write landed between another handler's
check and its write. `AdminRemains` and `LastAdministratorStays` are checked for
checks that nothing overlapped: the guards are a count followed by a write, two
operators who demote each other both pass, and the comment at `cms.rs:303`
accepts that window.

### Tenants

The rows of `organizations` and `domains`, the ids that own `content` (pages,
media, menus), and `snapshot`, the mapping with the trees requests are routed
by. Handlers create, delete, map, unmap and set a root, each statement a step,
followed by the refresh: read the rows, replace the snapshot. Two refreshes may
cross (the one that read first may replace last) and one may be cut off;
`adrift` records it. `Crash` happens at any step and a boot seeds the
organizations and the `[cms] hosts` list statement by statement. One tenant key,
one host name, two roots, two handlers, four organizations ever (the two seeded
ones, a tenant and its re-creation). The rows are sets: keys and host names are unique.

### Dispatch

One request, from the outermost layer to its answer; each layer that reads the
live mapping reads it in its own step, and between steps hosts are mapped,
remapped or unmapped, files come and go, the default page changes (`changes`
bounded by 1: every place in the chain at which one change can fall is covered,
two changes in one request are not). `dispatching` is fixed at boot, when
`build_app` mounts either the dispatcher or the single tree. The inputs are the
eleven kinds of requests that the chain tells apart on three disks: everything
there, only the later links of a chain, nothing. A page's handler (`Content`)
answers the page, the 404 view (`Unshown`) or an error; `Home` shows the default
page or, when the slug is gone by then or the lookup fails, leaves the request to
the rest of the chain. Refusals are `Limited` and `TooLarge` at the layers that make them.

### LoginThrottle

`clock` is read by an attempt in one step and used in another, so two attempts
may be recorded out of order. `slate` and `meter` are history: what was tried
since a pair was first seen, what a bucket admitted. One address, two names, two
attempts in flight, limits of 2 and 3 failures, lockouts doubling once to their
cap; tables that hold one entry so that both the sweep and the overflow happen.

### TemplateCache

A cache entry is looked up, its files are stat'ed, read and compiled in separate
steps; an editor changes files and the clock may stand still between two edits,
which gives two contents one mtime (`blurred`). One template, one partial that
may include itself, one module that requires itself or throws, two renders on
the blocking pool.

### Pages and Library

`Pages`: an editor's request checks its ancestors with one SELECT per hop
(`Climb`), then opens its transaction; the clock passes schedules. Every listing
(panel, index, search, feeds, sitemap, children, dashboard) is an operator
translated from its SQL. `overlapped` and `stale` record that another write
landed in between. Two pages and three saves: enough for a page under another, a
restore of an older parent and a history pruned at two. A history is a set of
numbered revisions: the numbers are unique (`MAX + 1` inside the transaction).

The walk has a budget (`MaxHops`, 128 in the code) and ends there as it does at
the top: `ancestors` answers the chain it has seen. `ranOut` records a save
decided on such a walk; part `hasty` of the run has a budget of one hop and the
trees of two organizations, part `pages` the whole budget and the schedules of one
(`OneSite`). The
panel's listings read under a LIMIT (`Listings(org, limit)`: which pages are cut
off depends on when they were updated, so any may be), and a page whose parent is
among those cut off has no row: `PanelShowsTheTree` says which pages have one for
every limit and every choice of pages.

`Library`: `StartUpdate` takes the menu from the address, as `update_item` does,
and `strayed` records the items last saved into a menu of another organization.
An upload writes file, thumbnail and row in this order and undoes what the code
undoes: a full file that could not be written is left as it is, after a failed
thumbnail the full file alone is removed (`Rollback`), after a failed row both
(`Undo`). A failed write leaves nothing or part of a file (`partial`). `left` are
the files that a failing step left behind. Menus and media share no variable but
`requests`, so the run has them in two parts.

### SidecarSupervisor

`children` is every child that was ever launched; `current` and `generation` are
the supervisor's. A render thread walks `AutoRenderer::dispatch`: `LoadLast`,
`StoreLast`, `Heal`, `Check` are its atomic accesses; a call is chosen
(`current()`) and answered in different steps, so its child may be replaced or
die in between. `Ask`, `Due`, `Release` are `request_respawn`; `SpawnOk`,
`SpawnFails`, `CountFailure`, `Reset`, `Install`, `FreeSlot` are the detached
`respawn_once`. Atomics are modelled sequentially consistent. The code reads
`generation` and `last_generation` relaxed; the mutex of `current` still orders
them: a load of `generation` that precedes taking the mutex cannot see an
increment that follows a later critical section of the writer.

Time is a countdown; one tick is RESPAWN_BACKOFF_BASE. Children fail at most
`MaxFaults` times and spawns at most `MaxSpawnFails` times: with a bounded
number of faults, recovery must happen. One fault is enough for a call that
fails on the old child while the fresh one is already in place; two failed
spawns are needed to see the backoff grow and reach its cap. The run starts with
either backend.

### WorkerPool

The broker is one JavaScript thread, so a handler with the microtasks it leaves
behind is one action, and the broker's functions (`SpawnInto`, `ReplaceSlot`,
`DrainQueue`, `FinishJob`) are operators on its state. `workers` is every thread
ever started, with the slot its handlers close over, the jobs posted to it and
the events the broker has not handled. Events of one worker arrive in order,
those of different workers in any order. A stopped worker posts nothing more;
what it posted before is delivered. `DrainQueue` goes through the queue in turns,
one job and one free slot at a time, as the loop of the code does. A render either ends or loops for ever
(`Finish` is never obliged). A worker that ran out of heap reports `error` and
`exit` in one go (`oom`), one with an uncaught exception reports `error` first
and `exit` when the thread has ended.

Bounds: two slots and three jobs leave one job in the queue; one crash races
with the budgets. `MaxOvertakes` bounds how often a fresh worker is ready before
the exit of the one it replaces has been handled. When it is, that exit finds
the slot alive and terminates the fresh worker, whose own exit can be late
again: without a bound this repeats for ever. One such race is in the run.

### ServerProcess

`server[r]` is run r: leader, rest of its process group (the sidecar), the exit
recorded by the reaper, and the log buffer. `caller` are the pool threads that
run `start_server` and `stop_server`; `Spawn` is the critical section of the
slot lock in which `start` tests and replaces the slot. `Exit` is a process
that ends, because of SIGTERM or not: SIGTERM obliges nobody. `Page`, `Ask`,
`Respond`, `Deliver`, `OpenLogs` are the log protocol from the buffer to
`state.logLines`. A pid is the run's number: reuse of a pid by the operating
system between the test and the signal of a stop is not modelled here (it is in
`Takeover`). A reaper whose `wait` fails finds the child gone too
and records an exit without a code.

The shell may have any number of polls in flight (`Polls`): each remembers the
cursor it asked with, and an answer appends its page whatever has landed in
between. `late` counts the answers that another one overtook; it is part of what
`shown` records of a line. `ShownOnce` says that between two late answers lines
are appended once and in order: duplicates are possible only across a late
answer. The run allows two polls and one late answer (`MaxLate`); `LogBounds`
has the server end by itself there and print one line per run when there are two
runs (stops are the business of `server_commands`).

### Configuration, ServerLife, ConfigFiles, ConfigEditor

A file is a partial function from the keys `validate()` looks at to a value that
is good, bad or a switch, or `Missing`, or `Malformed`; `Accepts` is the
conjunction of its laws on the merged settings, one operator per section
(`ServerOK`, `CmsOK`, `SidecarOK`, ...). A law that only looks at one value makes
it good or bad; the times of the sidecar that are compared with each other are
numbers, in tenths of a second: the render budget has at least one, and the
client waits longer than the budget.

`ServerLife` reads the two files in two steps with edits in between (`read.torn`
when they were changed), merges the environment, validates, seeds, mounts,
binds, serves, is signalled and waits `Timeout` for its requests. `settings` are
empty until a configuration is loaded.

`ConfigEditor` is the page of the shell (loads whose answers may be late or
fail, the widget of the form and of the raw text), and the manager's save:
validate the pair, back up, write a temporary file, rename. A write fails or the
manager dies at any step, also half-way through the copy of the backup
(`CopyCutShort`), and somebody else edits. The run starts on the base file of a site
with a CMS; typed over it are a whole text and one that switches the static tree
off, which only the pair can refuse. `KeepsThePromise` is the
refinement: `ConfigEditor` implements `ConfigFiles` with its disk and `foreign`
as `disturbed`.

### Takeover

`procs` says who has each pid, who started it and whether it listens on the port;
processes end and pids are reused at any step (`reborn` is history). `netstat`,
`tasklist` and `taskkill` are the three steps of the code. The kill is
`taskkill /PID p /T /F`: the owner and whatever is below it (`Tree`) end, or some
of them survive. `killed` keeps of each the program and the owner in whose tree it
was, so `OnlyServersKilled` speaks of the children too: they die with a server, never with
something else. A parent's pid is kept when the parent is gone, as the system does.
Two pids: an owner and a child, an owner and a newcomer under a reused pid, two owners.

## 3. Runs

| run | question | bounds |
|---|---|---|
| `refresh_rotation` | can a session fork, a replay go unnoticed, a closed session revive, a session outlive its account? | 1 account, 2 handlers, 3 rows, 3 clock values |
| `refresh_successor_survives` (violation) | does a successor die with its family? | 1 account, 2 rows |
| `identity` | is the membership the role's mirror, does an administrator remain (platform, organization), does a session or a signed role outlive its account, does a logout reach a stranger? | 2 registrations, 1 operator, 3 accounts; 3 accounts and 2 requests of a team; 2 accounts, 2 handlers, 2 rows; 1 account, 2 tokens, 5 seconds |
| `tenants` | are listed and mapped hosts served, does the snapshot follow the rows, does a tenant start empty? | 2 handlers, 1 tenant key, 1 host, 2 roots, 4 organizations |
| `serving` | what does brute force get, what does a bucket admit, do locks hold; whose content answers, where does the panel act; of what is a page made? | 2 attempts, clock 0..4; 1 host, 11 requests, 1 change; 2 renders, 1 edit |
| `sources_never_raw` (violation) | "never served raw anywhere" | 1 host, 1 change |
| `content` | does the panel show the tree it guards, does the history tell the truth, do listings and pages agree, does an untouched form leave visibility alone, do items and files keep their rows? | 2 editors, 2 pages, 3 saves, 1 organization; the same with 2 organizations, 1 hop and no schedules; 2 requests, 2 organizations, 2 menus, 1 item, 2 pages; 2 requests, 1 upload |
| `pages_cycle` (violation) | "cycles are prevented" | 2 editors, 2 pages |
| `sidecar` | is the respawn slot owned once, is a generation announced only when its child is in place, does the backoff hold, do renders end up on a live child? | 2 threads, either backend, 1 fault, 2 failed spawns |
| `worker_pool` | one render per slot, one answer per job, every job answered | 2 slots, 3 jobs, 1 crash, 1 overtaking |
| `server_commands` | one server at a time, stop means dead, commands end | 2 threads, 2 runs |
| `manager` | is the log buffer the window of the newest lines, is a line shown once; does the editor keep its promise, lose nothing and save what was shown; does a boot refuse for a reason, serve what is enabled and end; are only servers and what is below them killed? | 2 runs, 3 lines, capacity 2, pages of 1 line, 2 polls, 1 late answer; 2 writes, 1 load; 2 boots, 2 edits, 1 client; 2 pids |

A violation run checks what a comment of the code says and finds a behaviour of
the code that contradicts it; `PROJECT.json` quotes the comment under
`findings`:

- a family revoked between the UPDATE and the INSERT of a rotation gets a live
  successor;
- two editors who move two pages under each other close a cycle, and both pages
  vanish from the panel;
- a server booted without mapped hosts keeps its single tree, which hands out a
  template's source once the panel has mapped the first host.

`CHECK_DEADLOCK FALSE` is in the cfgs whose systems rest: all jobs answered
(`worker_pool`), or the bounded ids, saves and accounts used up and nobody in
flight (`identity`, `content`, `pages_cycle`).

### Fairness

- `sidecar`: threads and the respawn thread are scheduled, time passes, and
  renders keep coming. The last one is an assumption about traffic and is
  needed: the code has no timer that heals the sidecar, renders do.
- `worker_pool`: timers fire, threads start and obey `terminate()`, events are
  handled. Renders owe nothing, which is what the budget is for.
- `server_commands`: command threads and the reaper run. The server owes nothing.
- `manager`, part of `ServerLife`: weak fairness on the server's own tasks
  (`ServerStep`: the boot's next step, the shutdown's wait and its deadline).
  Clients, editors and whoever starts it owe nothing, and a request need never
  end: the deadline is what ends the process.

Everything else is safety under no fairness.

## 4. Proofs

`RefreshTokensProofs` proves, for any sets of users and handlers and any bounds,
`TypeCorrect`, `SingleUse` and `EndedStaysEnded`. `SingleUsableToken` is not
inductive: a rotation winner that has not inserted its successor is invisible in
the table. `OneHeir` adds it (an unrotated row and a winner exclude each other,
and so do two winners); `Allocated` says that what tasks remember agrees with
the tables, and `AdoptionPrivate` that a row in the placeholder family is known
to its own login only.

It also proves `SessionsOwned`, `TheftIsNoticed` and `LogoutTouchesOwnSession`.
Rows disappear by housekeeping, which deletes revoked ones, and with their
account. A family that was never revoked is complete or spent
(`CompleteOrSpent`); for the deletion this needs that all rows of a family and
all handlers bound to it belong to one account (`OneUser`), and for a login's
late family id that nobody descends from a token not yet handed out
(`Descent`). A logout counts as bound from its ownership test on, so `OneUser`
also says that the family it revokes holds no row of somebody else.

`AccessTokensProofs` proves `PowerIsBounded` (its hypothesis: the durations are
natural numbers), `SignedOut` and `TypeCorrect`. A request is no older than its budget
(`Timely`), read its role when the account had it (`Read`), and what it signs
therefore expires soon enough (`Signed`).

`IdentityProofs` proves of `Accounts`, for any number of registrations and
operators, `TypeCorrect` and `MirrorHolds`. `MirrorUnlessDisturbed` says nothing while the
server boots and nothing of an account that is being written; the strengthening
says what holds there: `SyncAgrees` (a pending `Sync` of an undisturbed account
is the only one and carries the role the account has), `Targets` (a pending
write concerns an account that was created) and `BootHalfway` (after the first
statement of the boot, editors and administrators already have their
membership).

`OneOperatorKeepsAnAdmin` (one operator at a time is its hypothesis, as in
`AdminRemains`) adds what a request has checked when it is past its guard
(`OthersRemain`) and that new accounts take nobody's id (`Newcomers`). Of `Team`
it proves `AdministratorKept`: what a handler has checked still holds when it
writes (`StillSafe`), unless a write came in between; and the two ways of
counting administrators agree because no administrator's row is left without its
account (`NoOrphanAdmin`).

`SessionsEndInTime` and `LogoutsAreOwn` are about `MCIdentity`, where sessions
and tokens run beside accounts and teams. The step lemmas of
`RefreshTokensProofs` and `AccessTokensProofs` are taken over by `INSTANCE` with
the substitutions of `MCIdentity`; `SameSessions` and `SameAccess` say that the
formulas are those of its own instances. The invariant (`IdentityInv`) is that of
the part that moves, beside those of the parts at rest. Time limits and the
accounts of the sessions are the run's there; for every value of them the
theorems of the two proof modules hold.

`TenantsProofs` proves `HostsReachTheirOrganization`, `SnapshotKeptUp` and
`NobodyInherits`. What the seeders own is never the panel's to take away
(`Bootstrap`: the CMS organization is there; `Claims`: the seeder has claimed a
prefix of its list); an id is above every id in use when AUTOINCREMENT hands it out
(`Numbered`); a read that nothing outdated is what the rows say (`FreshReads`), and
the snapshot is theirs too unless a request is on its way to the refresh
(`SnapshotFollows`).

`ContentProofs` proves of `Pages` `HistoryIsTrue`, `VisitorsSeeWhatOpens` and
`UntouchedStaysVisible`. `MAX(revision) + 1` follows what pruning left, so the
numbers of a history form a series (`Series`); the newest revision tells the parent
of the row, unless that parent is gone, and no id is handed out twice (`Told`,
`Fresh`); what an untouched request carries of the publication agrees with the row
unless the request is stale (`Carries`).

`TheTreeIsShown` is about what recursive functions compute, so it needs induction:
`LeastNatural` gets it from the well-foundedness of `<` on the naturals, and
`RoundsReach` says that after as many rounds as there are pages a search has found
everything a relation reaches. The line of a page (`Line`) is where `parent_id`
leads. The walk of a request has behind it a set of pages without the one to be
moved, whose parents are in that set, at the place it stands on, or the top
(`Behind`): so a walk that was not cut short by its hop budget has seen all the
ancestors when it ends (`Apart`), and the page may be hung there (`Hang`). A save
decided on part of a chain, or on rows that had changed, is what the theorem
excuses (`Excused`). Deletions in between only shorten
lines (`RemovedLines`). With no loop (`Rooted`), pages whose parents are all among
them do not exist (`NoLoop`), so none is missing from the listing or from the
parents offered.

Of `Library` it proves `NavigationHolds` and `FilesKeepTheirRows`: what is about
to be written was validated against a page of the request's organization
(`Validated`), so only the menu of the address can take an item elsewhere, and that
is recorded; every file is a row's, whole, or in the hand of the one request that is
writing or removing it (`InHand`), or was left behind (`Accounted`).

`SidecarProofs` proves `SlotAndGenerations` and `FailuresKeepTheirDistance` for
any number of render threads, any cap and any number of faults. Launches are
numbered, so the generation lags them only while the respawn thread holds a
child it has not announced (`Numbered`); what is left to wait and what has gone
by make up the backoff in force (`Paced`).

Of `WorkerPool` it proves `OneRenderAtATime` and `AnsweredOnlyOnce` for any number
of slots and jobs. A job is in one place: queued, dispatched once, or answered (`OnePlace`); a slot's
worker was started for it (`OwnWorkers`), and a slot with a pending job is busy with
that one (`OneRender`). The broker's functions are proved once, as
operators on its state, and every event handler is a composition of them.

`ServingProofs` has the three components a request meets.

- `LoginThrottle`: `LimitsAreKept` and `LocksAreKept`, for any clients, names,
  attempts and limits. What a bucket admitted and what is left in it never exceed
  the burst and the tokens of the time it was paid for; when a request that read
  the clock earlier moves `last_refill` back, the time counted twice is exactly
  `rewound` (`Metered`). For the guesses, the attempts that can still slip in
  while a pair is locked are those that were past the check when the lock fell
  (`Slipping`): their number only falls, and the lockout just counted pays for
  all of them.
- `Dispatch`: `AnswersAreOwn` and `ActsAreAuthorized`. The history `seen` only
  grows, so a layer's reading stays among the surfaces of the request (`Present`,
  `Reads`), and more than one surface there is the trace of a move. What
  the guard allowed is edited by the user and is what the handler acts on; only
  the alternative texts follow a new reading of the mapping, which differs from
  the guard's only after a move (`PanelSound`). `Showing` says of what each stage has in hand where it may
  come from; `ChainSound` that, while nothing moved, the links of the homepage's
  chain that were passed do not exist; `Traced` that what is answered has the layers
  around it still to pass.
- `TemplateCache`: `PagesAreCurrent`. Of a file whose mtimes never repeat, an
  mtime names a content, and whoever looked when that mtime was the file's and
  trusts a cache that goes by it has been shown that content (`Known`). The
  invariant is that every pair of an mtime and a content in the two caches, and
  of a template being compiled, is known in this sense (`CachedSound`,
  `SourcesSound`, `Embedding`). It needs that an mtime is noted before the content
  is read: an edit in between leaves the pair harmless, as the mtime is no longer
  the file's. That a body runs once needs only that what ran is registered (`Once`).

`ManagerProofs` proves of `ServerProcess` `OneServer`, `StoppedIsDead`,
`LogsAreWindow` and `LinesAreShownOnce`. The strengthening is `ExitsRecorded`: every run but the last has a
recorded exit, and a recorded exit is the exit of a dead leader. Steps are sorted by
what they do to the runs (`Ageing`: runs only end and get recorded), so each lemma is
about one effect and the actions only establish it. For the panel, what is
shown of the run that serves now since the last late answer lies before the cursor
(`BeforeCursor`), also after a restart, when the cursor is still a number of the run
before and nothing of the new one is shown; an answer that nothing overtook was asked
for with the cursor as it still is (`PollSound`) and continues what is shown
(`Continues`); one that was overtaken opens another stretch of lines.

Of `ConfigEditor` it proves `PromiseKept` (the refinement: initial states map to
initial states, each step to a step or a stutter of `ConfigFiles`),
`ReplacedIsKept` and `SavesAreOwn`. Between the validation and the rename the text
under way is still acceptable with the other layer, as only one write is under way
and an edit by somebody else is recorded (`UnderWay`); the backup is the file about
to be replaced (`BackedUp`); the last load that waits is for the widget on display
(`LoadsAreCurrent`). What `Accepts` means plays no part in these.

It does in `ServerLife`, of which it proves `RefusalsAreReasonable` and
`EnabledIsMounted`: the pair on disk is acceptable unless somebody else wrote a file
(`PairKept`), what is loaded passed the rules (`Configured`), so a CMS without
database or accounts is not enabled and a CMS with listed hosts has its tree
(`SeededList`, `Assembled`). Of `Takeover` it proves `NothingElseIsKilled`: what is
left to kill was listed, everything listed ran the server and may since have ended but
not become something else under the same pid (`TakeoverInv`).

`Dispatch` assumes of its constants that no tenant has the name of a built-in
surface and that requests and disks are made of the paths the chain tells apart;
`TemplateCache` that templates and partials include partials, and modules and
programs require modules.

Theorems assume the named `ASSUME` of their module and nothing else, save the
hypotheses named above: durations that are natural numbers and, for its types, at
least one start of the server (`AccessTokens`), one operator
(`OneOperatorKeepsAnAdmin`).

Only model-checked:

- liveness under fairness (`Recovers`, `JobsAnswered`, `CommandsEnd`,
  `ShutdownEnds`), which is outside what TLAPS decides.

## 5. What the code does that a reader may not expect

Seen while modelling, present in the models, and no run's subject:

- Two first registrations both become administrators (`auth.rs:213`): the count
  is read before the password is hashed.
- Replaying a token of a revoked family does not revoke it again, although
  migration 0002 (line 7) reads as if any reuse did.
- "Access tokens die with their lifetime" (`cms.rs:3877`), plus 30 s of leeway
  and up to a request timeout for a login in flight. A wrong password on the
  login form clears the browser's session cookie; a change of `cookie_domain`
  leaves the older cookie in place; a password change revokes no session.
- A call that hung on the previous sidecar has the fresh one replaced. A worker
  that exhausts its heap just as its budget runs out is replaced twice and the
  first replacement is never ended.
- Two crossing requests move `last_refill` of a bucket back. Failures in flight
  on a locked pair do not reach the address' counter, and a success in flight
  lifts the lock.
- Layers of one request may see different mappings; a server that dispatches
  keeps its dispatcher when the last host is unmapped. A missing `index.html`
  and a tenant's missing shared asset are answered with a plain 404.
- The templates' caches trust mtimes, `clear_cache` has no caller outside tests,
  a repeated `require` counts towards the budget again, and a module that threw
  stays half-made in its render's registry.
- An edit form opened before a schedule is reached and sent back after it takes
  the page off again. A restore writes back the state of publication that it
  loaded earlier. Breadcrumbs show ancestors that are drafts.
- A page of logs cut at its limit answers the counter of all lines as cursor, so
  the shell skips the rest. A poll whose answer another one overtook appends a
  page twice; after a restart its old cursor skips the first lines of the new run.
- A stop that does not escalate leaves the other processes of the group alone;
  the grace of five seconds is shorter than the server's own shutdown timeout.
- Two saves between the server's two file reads make a boot refuse, though every
  pair on disk was accepted. The manager validates without the environment. A
  manager that dies while it copies leaves a partial backup. A save pressed
  before a load is answered may write the other layer's text.
- The takeover knows a process by its pid and its image: a pid reused between
  `tasklist` and `taskkill` is killed, and so is any server of the same image. With a
  server dies whatever it started.
- `ancestors` ends a walk of 128 hops like one that reached the top, although its
  comment (`db.rs:1297`) speaks of an error; the panel's page list stops at 200 pages
  and leaves out what hangs below the missing ones.
- `update_item` saves an item into the menu its address names, whosever it is; a
  failed write of an upload leaves the part of the file it wrote.

## 6. Plan

1. The shutdown of the sidecar's broker; the Windows variants of the process
   control; the manager's settings and discovery of endpoints; the forwarded
   addresses (`proxy.rs`) that the limiters key on.
2. An abstract pool of jobs (queued, running, answered) that `WorkerPool`
   implements and `SidecarSupervisor` takes as its child.

## 7. Not modelled

Rendering JavaScript, HTTP parsing, cryptography, Markdown, image decoding,
ranking and markup of search and feeds, caching headers, CORS, metrics, the
external API client, layout and notifications of the desktop shell: stateless,
text, or outside the reach of a model checker. Names, passwords, texts and files
are model values; whether two names collide after normalisation is not asked.
`PROJECT.json` gives the reason per component.
