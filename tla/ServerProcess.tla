---------------------------- MODULE ServerProcess ----------------------------
(***************************************************************************)
(* The manager's supervision of the server: ProcessManager and LogBuffer    *)
(* (src/manager/crates/wallermax-manager-core/src/process_manager.rs), the  *)
(* start and stop commands of App (app.rs) and the log poller of the        *)
(* desktop shell (src/manager/ui/app.js), on Unix.                          *)
(*                                                                          *)
(* Commands run on a thread pool (spawn_blocking), so several may be under  *)
(* way.  A critical section of the slot lock or of the log lock is one      *)
(* action; whatever runs between two of them (the boot probe, the waits of  *)
(* a stop) is a step of its own.  Waiting has no clock: a window or a grace *)
(* may run out at any time.  A captured line is its sequence number.        *)
(***************************************************************************)
EXTENDS Naturals, Sequences, FiniteSets, Functions

CONSTANTS Callers,     \* threads that run start and stop commands
          Polls,       \* log polls the shell may have in flight
          PageLimit,   \* `limit` of a log page
          Capacity,    \* LOG_CAPACITY
          MaxRuns,     \* bound: servers ever spawned
          MaxLines,    \* bound: lines a server prints
          MaxLate      \* bound: late answers to polls since the log page was opened

ASSUME ServerProcessAssumption ==
    /\ PageLimit \in Nat \ {0} /\ Capacity \in Nat \ {0}
    /\ MaxRuns \in Nat /\ MaxLines \in Nat /\ MaxLate \in Nat

VARIABLES
    slot,    \* ProcessManager.slot: the last run (0: nothing started yet)
    server,  \* every run: its processes, Managed.exit and Managed.logs
    caller,  \* commands: what they do, on which run, and their last answer
    poll,    \* log polls of the shell; late: another answer landed since it was asked
    cursor,  \* state.logCursor of the shell
    shown,   \* state.logLines of the shell, as <<run, sequence number, late answers so far>>
    late     \* late answers that landed since the log page was opened

vars == <<slot, server, caller, poll, cursor, shown, late>>

Runs == 1..slot

\* A run: its leader and the rest of its process group, Managed.exit, the
\* lines printed so far, LogBuffer.written and LogBuffer.lines.
Server == [leader : BOOLEAN, helpers : BOOLEAN, exit : BOOLEAN,
           printed : 0..MaxLines, written : 0..MaxLines,
           lines : Seq(0..MaxLines)]

Fresh == [leader |-> TRUE, helpers |-> TRUE, exit |-> FALSE,
          printed |-> 0, written |-> 0, lines |-> << >>]

PCs == {"idle", "start", "probe", "terminate", "grace", "kill", "killed"}
Answers == {"none", "refused", "booted", "died", "stopped", "stuck"}

TypeOK ==
    /\ slot \in 0..MaxRuns
    /\ server \in [Runs -> Server]
    /\ caller \in [Callers -> [pc : PCs, run : 0..slot, answer : Answers]]
    /\ poll \in [Polls -> [pc : {"idle", "asked", "answered"}, since : 0..MaxLines,
                           run : 0..slot, lines : Seq(0..MaxLines),
                           next : 0..MaxLines, late : BOOLEAN]]
    /\ cursor \in 0..MaxLines
    /\ shown \in Seq((1..slot) \X (0..MaxLines) \X (0..MaxLate))
    /\ late \in 0..MaxLate

At(pc, run, answer) == [pc |-> pc, run |-> run, answer |-> answer]
Quiet == [pc |-> "idle", since |-> 0, run |-> 0, lines |-> << >>, next |-> 0, late |-> FALSE]

Init ==
    /\ slot = 0
    /\ server = << >>
    /\ caller = [c \in Callers |-> At("idle", 0, "none")]
    /\ poll = [p \in Polls |-> Quiet]
    /\ cursor = 0
    /\ shown = << >>
    /\ late = 0

Alive(r) == ~server[r].exit   \* Managed::is_alive
Running == slot # 0 /\ Alive(slot)

Move(c, pc) == caller' = [caller EXCEPT ![c] = At(pc, caller[c].run, "none")]
Put(r, s) == server' = [server EXCEPT ![r] = s]
Answer(c, a) == caller' = [caller EXCEPT ![c] = At("idle", caller[c].run, a)]

-----------------------------------------------------------------------------
(* App::start_server and ProcessManager::start.                             *)

\* The pre-flight: status(), and the port probe when nothing is supervised.
\* The port may be taken by a stranger; the slot lock is not held.
StartServer(c) ==
    /\ caller[c].pc = "idle"
    /\ \/ Move(c, "start")
       \/ ~Running /\ Answer(c, "refused")
    /\ UNCHANGED <<slot, server, poll, cursor, shown, late>>

\* Slip: the status read by the pre-flight is trusted.
SpawnTrusting(c) ==
    /\ caller[c].pc = "start"
    /\ \/ /\ slot < MaxRuns
          /\ slot' = slot + 1
          /\ server' = Append(server, Fresh)
          /\ caller' = [caller EXCEPT ![c] = At("probe", slot + 1, "none")]
       \/ /\ Answer(c, "refused")
          /\ UNCHANGED <<slot, server>>
    /\ UNCHANGED <<poll, cursor, shown, late>>

\* The critical section of start: refuse while the last run is alive (or the
\* program cannot be spawned), else spawn and replace the slot.
Spawn(c) ==
    /\ caller[c].pc = "start"
    /\ \/ /\ ~Running
          /\ slot < MaxRuns
          /\ slot' = slot + 1
          /\ server' = Append(server, Fresh)
          /\ caller' = [caller EXCEPT ![c] = At("probe", slot + 1, "none")]
       \/ /\ Answer(c, "refused")
          /\ UNCHANGED <<slot, server>>
    /\ UNCHANGED <<poll, cursor, shown, late>>

\* probe_boot: the marker was captured or the window passed ("booted"), or
\* the exit was recorded first ("died").
Probe(c) ==
    LET s == server[caller[c].run] IN
    /\ caller[c].pc = "probe"
    /\ \/ s.written > 0 /\ Answer(c, "booted")   \* some line is the marker
       \/ s.exit /\ Answer(c, "died")
       \/ ~s.exit /\ Answer(c, "booted")
    /\ UNCHANGED <<slot, server, poll, cursor, shown, late>>

-----------------------------------------------------------------------------
(* ProcessManager::stop.                                                    *)

\* Only the identity is taken under the lock; nothing to stop is a success.
StopServer(c) ==
    /\ caller[c].pc = "idle"
    /\ IF Running
       THEN caller' = [caller EXCEPT ![c] = At("terminate", slot, "none")]
       ELSE caller' = [caller EXCEPT ![c] = At("idle", slot, "stopped")]
    /\ UNCHANGED <<slot, server, poll, cursor, shown, late>>

\* SIGTERM reaches the group; each member decides when to obey (Exit).
Terminate(c) ==
    /\ caller[c].pc = "terminate"
    /\ Move(c, "grace")
    /\ UNCHANGED <<slot, server, poll, cursor, shown, late>>

\* Slip: a stop waits for the exit without a deadline.
WaitForDeathForever(c) ==
    /\ caller[c].pc \in {"grace", "killed"}
    /\ server[caller[c].run].exit
    /\ Answer(c, "stopped")
    /\ UNCHANGED <<slot, server, poll, cursor, shown, late>>

\* Slip: a stop answers once it has sent the signal.
WaitForNothing(c) ==
    /\ caller[c].pc \in {"grace", "killed"}
    /\ Answer(c, "stopped")
    /\ UNCHANGED <<slot, server, poll, cursor, shown, late>>

\* wait_until_dead, after SIGTERM and again after SIGKILL.
WaitForDeath(c) ==
    /\ caller[c].pc \in {"grace", "killed"}
    /\ \/ /\ server[caller[c].run].exit
          /\ Answer(c, "stopped")
       \/ /\ ~server[caller[c].run].exit
          /\ IF caller[c].pc = "grace" THEN Move(c, "kill") ELSE Answer(c, "stuck")
    /\ UNCHANGED <<slot, server, poll, cursor, shown, late>>

\* SIGKILL to the group.
Kill(c) ==
    /\ caller[c].pc = "kill"
    /\ Put(caller[c].run,
           [server[caller[c].run] EXCEPT !.leader = FALSE, !.helpers = FALSE])
    /\ Move(c, "killed")
    /\ UNCHANGED <<slot, poll, cursor, shown, late>>

-----------------------------------------------------------------------------
(* The server, its reaper and its two pipes.                                *)

\* The leader or the helpers end, by themselves or because of SIGTERM.
Exit(r) ==
    /\ \/ server[r].leader /\ Put(r, [server[r] EXCEPT !.leader = FALSE])
       \/ server[r].helpers /\ Put(r, [server[r] EXCEPT !.helpers = FALSE])
    /\ UNCHANGED <<slot, caller, poll, cursor, shown, late>>

\* spawn_reaper: try_wait, every 120 ms.  A wait that fails -- somebody else
\* waited for the child -- finds it gone too, and records an exit without a code.
Reap(r) ==
    /\ ~server[r].leader
    /\ ~server[r].exit
    /\ Put(r, [server[r] EXCEPT !.exit = TRUE])
    /\ UNCHANGED <<slot, caller, poll, cursor, shown, late>>

PrintLine(r) ==
    /\ server[r].leader \/ server[r].helpers
    /\ server[r].printed < MaxLines
    /\ Put(r, [server[r] EXCEPT !.printed = @ + 1])
    /\ UNCHANGED <<slot, caller, poll, cursor, shown, late>>

\* Slip: eviction is forgotten.
EvictedNever(lines) == lines

\* The oldest line goes when the buffer is over its capacity.
Evicted(lines) == IF Len(lines) > Capacity THEN Tail(lines) ELSE lines

\* LogBuffer::push: the number is allocated and the line appended under one
\* lock.
Push(r) ==
    /\ server[r].written < server[r].printed
    /\ Put(r, [server[r] EXCEPT !.written = @ + 1,
                                !.lines = Evicted(Append(@, server[r].written))])
    /\ UNCHANGED <<slot, caller, poll, cursor, shown, late>>

-----------------------------------------------------------------------------
(* LogBuffer::page and the poller of the desktop shell.                     *)

Least(a, b) == IF a < b THEN a ELSE b

\* The lines from `since` on, at most PageLimit of them: the buffer is in order,
\* so what the filter drops is its head.
Wanted(s, since) ==
    LET older == Cardinality({i \in DOMAIN s.lines : s.lines[i] < since})
    IN  SubSeq(s.lines, older + 1, Least(older + PageLimit, Len(s.lines)))

\* Slip: the next page starts at the last line answered.
PageRepeating(s, since) ==
    LET page == Wanted(s, since)
    IN  [lines |-> page,
         next  |-> IF page = << >> THEN s.written ELSE page[Len(page)]]

\* The wanted lines and the cursor to ask from next: the number of lines ever
\* written.
Page(s, since) == [lines |-> Wanted(s, since), next |-> s.written]

\* The polls under way beside p do not know what landed now.
Overtaken(p, next) ==
    poll' = [q \in Polls |->
                IF q = p THEN next
                ELSE [poll[q] EXCEPT !.late = poll[q].pc # "idle"]]

\* pollLogs, on its interval and whether or not the last one was answered: the
\* request leaves with the current cursor.
Ask(p) ==
    /\ poll[p].pc = "idle"
    /\ poll' = [poll EXCEPT ![p] = [Quiet EXCEPT !.pc = "asked", !.since = cursor]]
    /\ UNCHANGED <<slot, server, caller, cursor, shown, late>>

\* showPage("logs"): start over, and poll at once.
OpenLogs(p) ==
    /\ poll[p].pc = "idle"
    /\ cursor' = 0
    /\ shown' = << >>
    /\ late' = 0
    /\ Overtaken(p, [Quiet EXCEPT !.pc = "asked"])
    /\ UNCHANGED <<slot, server, caller>>

\* ProcessManager::logs.
Respond(p) ==
    LET since == poll[p].since
        page  == IF slot = 0 THEN [lines |-> << >>, next |-> since]
                 ELSE Page(server[slot], since)
    IN
    /\ poll[p].pc = "asked"
    /\ poll' = [poll EXCEPT ![p] = [pc |-> "answered", since |-> since, run |-> slot,
                                    lines |-> page.lines, next |-> page.next, late |-> @.late]]
    /\ UNCHANGED <<slot, server, caller, cursor, shown, late>>

\* The answer reaches the shell, which neither compares it with the cursor nor with
\* what is shown.
Deliver(p) ==
    /\ poll[p].pc = "answered"
    /\ late' = IF poll[p].late THEN late + 1 ELSE late
    /\ late' <= MaxLate
    /\ cursor' = poll[p].next
    /\ shown' = shown \o [i \in DOMAIN poll[p].lines |->
                             <<poll[p].run, poll[p].lines[i], late'>>]
    /\ Overtaken(p, Quiet)
    /\ UNCHANGED <<slot, server, caller>>

-----------------------------------------------------------------------------

Command(c) == Spawn(c) \/ Probe(c) \/ Terminate(c) \/ WaitForDeath(c) \/ Kill(c)

Next ==
    \/ \E c \in Callers : StartServer(c) \/ StopServer(c) \/ Command(c)
    \/ \E r \in Runs : Exit(r) \/ Reap(r) \/ PrintLine(r) \/ Push(r)
    \/ \E p \in Polls : Ask(p) \/ OpenLogs(p) \/ Respond(p) \/ Deliver(p)

Spec == Init /\ [][Next]_vars

\* The threads of the manager run; the server owes it nothing.
FairSpec ==
    /\ Spec
    /\ \A c \in Callers : WF_vars(Command(c))
    /\ \A r \in 1..MaxRuns : WF_vars(r \in Runs /\ Reap(r))

-----------------------------------------------------------------------------
(* Properties.                                                              *)

\* "Supervises at most one server process at a time": racing starts and stops
\* never leave two servers alive, although the status that start_server looks
\* at first is read under another hold of the lock.
OneServerAtATime ==
    \A q, r \in Runs : server[q].leader /\ server[r].leader => q = r

\* The inductive form: only the last run may be unrecorded, and a recorded
\* exit is the exit of a dead leader.
ExitsRecorded ==
    /\ \A r \in Runs : server[r].exit => ~server[r].leader
    /\ \A r \in Runs : r # slot => server[r].exit

\* A stop that succeeded found its server dead, whichever of SIGTERM, SIGKILL,
\* the server's own exit or another stop ended it, and a probe that reported a
\* death likewise.
StopMeansDead ==
    \A c \in Callers :
        /\ caller[c].answer \in {"stopped", "died"}
        /\ caller[c].run # 0
        => ~server[caller[c].run].leader

\* Commands end: a server that ignores SIGTERM cannot keep a stop waiting, and
\* a silent one cannot keep a start waiting.
CommandsEnd == \A c \in Callers : caller[c].pc # "idle" ~> caller[c].pc = "idle"

\* The buffer holds the last lines written, in order and without holes, never
\* more than its capacity.
IsWindow(s) ==
    /\ Len(s.lines) = Least(Capacity, s.written)
    /\ \A i \in DOMAIN s.lines : s.lines[i] = s.written - Len(s.lines) + i - 1

BufferIsWindow == \A r \in Runs : IsWindow(server[r])

\* Between two late answers the shell appends no line twice, and in order within each
\* run, across evictions and restarts of the server: however many polls overlap, a line
\* is shown at most once more than answers landed late since the page was opened.
ShownOnce ==
    /\ TypeOK
    /\ \A i, j \in DOMAIN shown :
          i < j => \/ shown[i][3] < shown[j][3]
                   \/ /\ shown[i][3] = shown[j][3]
                      /\ \/ shown[i][1] < shown[j][1]
                         \/ shown[i][1] = shown[j][1] /\ shown[i][2] < shown[j][2]
=============================================================================
