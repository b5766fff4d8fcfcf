---------------------------- MODULE ManagerProofs ----------------------------
(***************************************************************************)
(* The manager, for any number of command threads, polls and runs of the    *)
(* server, and for all texts, forms and bounds of the configuration files.  *)
(*                                                                          *)
(* ServerProcess: at most one server is alive, a stop that succeeded found  *)
(* its server dead, the log buffer is the window of the last lines, and a   *)
(* shell shows none of them twice between two late answers (PanelInv).      *)
(*                                                                          *)
(* ConfigEditor: KeepsThePromise speaks of the disk only; between the       *)
(* validation and the replacement it rests on the text under way being      *)
(* still acceptable with the other layer (UnderWay). NothingLost rests on   *)
(* the backup being the file that is about to be replaced (BackedUp), and   *)
(* what is saved on the last load being for the widget on display           *)
(* (LoadsAreCurrent). What Accepts means plays no part in these.            *)
(*                                                                          *)
(* ServerLife: the pair on disk is acceptable unless somebody else wrote a  *)
(* file (PairKept), and what was loaded passed the rules (Configured).      *)
(*                                                                          *)
(* Takeover: what is left to kill was listed and ran the server.            *)
(***************************************************************************)
EXTENDS ServerProcess, ConfigEditor, ServerLife, Takeover, FiniteSetTheorems,
        SequenceTheorems, TLAPS

-----------------------------------------------------------------------------
(* ServerProcess.                                                           *)

\* The part of the types the arguments below need.
Shape ==
    /\ slot \in Nat
    /\ server \in Seq(Server)
    /\ Len(server) = slot
    /\ caller \in [Callers -> [pc : PCs, run : Nat, answer : Answers]]
    /\ \A c \in Callers :
          /\ caller[c].run \in 0..slot
          /\ caller[c].pc \notin {"idle", "start"} => caller[c].run # 0

Inv == Shape /\ ExitsRecorded /\ StopMeansDead

-----------------------------------------------------------------------------
(* What the actions do to the runs.                                         *)

\* No run is added, and those there are only end and get recorded.
Ageing ==
    /\ slot' = slot
    /\ server' \in Seq(Server)
    /\ Len(server') = Len(server)
    /\ \A r \in 1..slot :
          /\ server'[r].leader => server[r].leader
          /\ server[r].exit => server'[r].exit
          /\ server'[r].exit => server[r].exit \/ ~server[r].leader

LEMMA AgeingKeepsRecords ==
    ASSUME Shape, ExitsRecorded, Ageing
    PROVE  ExitsRecorded'
BY DEF Shape, ExitsRecorded, Ageing, Runs

\* A command that moves without an answer, or keeps one that was right.
LEMMA AgeingKeepsAnswers ==
    ASSUME Shape, StopMeansDead, Ageing, UNCHANGED caller
    PROVE  Shape' /\ StopMeansDead'
<1>1. Shape'
  BY DEF Shape, Ageing
<1>2. StopMeansDead'
  BY DEF Shape, Ageing, StopMeansDead
<1> QED
  BY <1>1, <1>2

LEMMA StutterAges ==
    ASSUME Shape, UNCHANGED <<slot, server>>
    PROVE  Ageing
BY DEF Shape, Ageing

LEMMA ServerUpdate ==
    ASSUME Shape, NEW r \in 1..slot, NEW s \in Server,
           server' = [server EXCEPT ![r] = s], slot' = slot,
           s.leader => server[r].leader,
           server[r].exit => s.exit,
           s.exit => server[r].exit \/ ~server[r].leader
    PROVE  Ageing
<1>1. server' \in Seq(Server) /\ Len(server') = Len(server)
  BY ExceptSeq DEF Shape
<1> QED
  BY <1>1 DEF Shape, Ageing

LEMMA CommandKeeps ==
    ASSUME Inv, Ageing,
           NEW c \in Callers, NEW pc \in PCs, NEW run \in 0..slot, NEW answer \in Answers,
           caller' = [caller EXCEPT ![c] = At(pc, run, answer)],
           pc \notin {"idle", "start"} => run # 0,
           answer \in {"stopped", "died"} /\ run # 0 => ~server[run].leader
    PROVE  Inv'
<1>1. Shape'
  BY DEF Inv, Shape, Ageing, At
<1>2. ExitsRecorded'
  BY AgeingKeepsRecords DEF Inv
<1>3. StopMeansDead'
  BY DEF Inv, Shape, Ageing, StopMeansDead, At
<1> QED
  BY <1>1, <1>2, <1>3 DEF Inv

LEMMA AgeingKeeps ==
    ASSUME Inv, Ageing, UNCHANGED caller
    PROVE  Inv'
BY AgeingKeepsRecords, AgeingKeepsAnswers DEF Inv

\* Replacing fields of a run leaves a run.
LEMMA ServerFields ==
    ASSUME NEW s \in Server
    PROVE  /\ [s EXCEPT !.leader = FALSE] \in Server
           /\ [s EXCEPT !.helpers = FALSE] \in Server
           /\ [s EXCEPT !.exit = TRUE] \in Server
           /\ [s EXCEPT !.leader = FALSE, !.helpers = FALSE] \in Server
           /\ \A n \in 0..MaxLines : [s EXCEPT !.printed = n] \in Server
           /\ \A n \in 0..MaxLines, q \in Seq(0..MaxLines) :
                    [s EXCEPT !.written = n, !.lines = q] \in Server
<1>1. [s EXCEPT !.leader = FALSE] \in Server
  BY DEF Server
<1>2. [s EXCEPT !.helpers = FALSE] \in Server
  BY DEF Server
<1>3. [s EXCEPT !.exit = TRUE] \in Server
  BY DEF Server
<1>4. [s EXCEPT !.leader = FALSE, !.helpers = FALSE] \in Server
  BY DEF Server
<1>5. ASSUME NEW n \in 0..MaxLines PROVE [s EXCEPT !.printed = n] \in Server
  BY DEF Server
<1>6. ASSUME NEW n \in 0..MaxLines, NEW q \in Seq(0..MaxLines)
      PROVE [s EXCEPT !.written = n, !.lines = q] \in Server
  BY DEF Server
<1> QED
  BY <1>1, <1>2, <1>3, <1>4, <1>5, <1>6

LEMMA PushedLines ==
    ASSUME NEW s \in Server, s.written < s.printed
    PROVE  /\ s.written + 1 \in 0..MaxLines
           /\ Evicted(Append(s.lines, s.written)) \in Seq(0..MaxLines)
<1>1. /\ s.written \in 0..MaxLines /\ s.printed \in 0..MaxLines
      /\ s.lines \in Seq(0..MaxLines)
  BY DEF Server
<1>2. s.written + 1 \in 0..MaxLines
  BY <1>1, ServerProcessAssumption
<1>3. /\ Append(s.lines, s.written) \in Seq(0..MaxLines)
      /\ Append(s.lines, s.written) # << >>
  BY <1>1
<1>4. Tail(Append(s.lines, s.written)) \in Seq(0..MaxLines)
  BY <1>3, HeadTailProperties
<1> QED
  BY <1>2, <1>3, <1>4 DEF Evicted

-----------------------------------------------------------------------------
(* The steps.                                                               *)

LEMMA InitEstablishes == Init => Inv
BY EmptySeq DEF Init, Inv, Shape, ExitsRecorded, StopMeansDead, Runs, At, PCs, Answers

\* A fresh run joins the recorded ones.
LEMMA SpawnKeeps ==
    ASSUME Inv, NEW c \in Callers, Spawn(c)
    PROVE  Inv'
<1>1. CASE /\ ~Running
           /\ slot' = slot + 1
           /\ server' = Append(server, Fresh)
           /\ caller' = [caller EXCEPT ![c] = At("probe", slot + 1, "none")]
  <2>1. Fresh \in Server
    BY ServerProcessAssumption, EmptySeq DEF Fresh, Server
  <2>2. /\ server' \in Seq(Server) /\ Len(server') = slot'
        /\ \A r \in 1..slot : server'[r] = server[r]
        /\ server'[slot'] = Fresh
    BY <1>1, <2>1 DEF Inv, Shape
  <2>3. Shape'
    BY <1>1, <2>2 DEF Inv, Shape, At, PCs, Answers
  <2>4. \A r \in 1..slot : server[r].exit
    BY <1>1 DEF Inv, Shape, ExitsRecorded, Running, Alive, Runs
  <2>5. ExitsRecorded'
    BY <1>1, <2>2, <2>4 DEF Inv, Shape, ExitsRecorded, Runs, Fresh
  <2>6. StopMeansDead'
    BY <1>1, <2>2 DEF Inv, Shape, StopMeansDead, At
  <2> QED
    BY <2>3, <2>5, <2>6 DEF Inv
<1>2. CASE Answer(c, "refused") /\ UNCHANGED <<slot, server>>
  BY <1>2, StutterAges, CommandKeeps DEF Inv, Shape, Answer, PCs, Answers
<1> QED
  BY <1>1, <1>2 DEF Spawn

LEMMA CommandStepsKeep ==
    ASSUME Inv, NEW c \in Callers,
           StartServer(c) \/ StopServer(c) \/ Probe(c) \/ Terminate(c) \/ WaitForDeath(c)
    PROVE  Inv'
<1> DEFINE run == caller[c].run
<1>1. Ageing
  BY StutterAges DEF Inv, StartServer, StopServer, Probe, Terminate, WaitForDeath
<1>2. /\ run \in 0..slot /\ slot \in 0..slot
      /\ caller[c].pc \notin {"idle", "start"} => run # 0
      /\ \A r \in 1..slot : server[r].exit => ~server[r].leader
  BY DEF Inv, Shape, ExitsRecorded, Runs
<1>3. CASE StartServer(c)
  <2>1. CASE Move(c, "start")
    BY <1>1, <1>2, <2>1, CommandKeeps DEF Move, PCs, Answers
  <2>2. CASE Answer(c, "refused")
    BY <1>1, <1>2, <2>2, CommandKeeps DEF Answer, PCs, Answers
  <2> QED
    BY <1>3, <2>1, <2>2 DEF StartServer
<1>4. CASE StopServer(c)
  <2>1. CASE Running /\ caller' = [caller EXCEPT ![c] = At("terminate", slot, "none")]
    BY <1>1, <1>2, <2>1, CommandKeeps DEF Running, PCs, Answers
  <2>2. CASE ~Running /\ caller' = [caller EXCEPT ![c] = At("idle", slot, "stopped")]
    <3>1. slot # 0 => ~server[slot].leader
      BY <1>2, <2>2 DEF Running, Alive, Inv, Shape
    <3> QED
      BY <1>1, <1>2, <2>2, <3>1, CommandKeeps DEF PCs, Answers
  <2> QED
    BY <1>4, <2>1, <2>2 DEF StopServer
<1>5. CASE Probe(c)
  <2>1. run # 0
    BY <1>2, <1>5 DEF Probe
  <2>2. CASE Answer(c, "booted")
    BY <1>1, <1>2, <2>2, CommandKeeps DEF Answer, PCs, Answers
  <2>3. CASE server[run].exit /\ Answer(c, "died")
    <3>1. ~server[run].leader
      BY <1>2, <2>1, <2>3 DEF Inv, Shape
    <3>2. /\ caller' = [caller EXCEPT ![c] = At("idle", run, "died")]
          /\ "idle" \in PCs /\ "died" \in Answers
      BY <2>3 DEF Answer, PCs, Answers
    <3> QED
      BY <1>1, <1>2, <3>1, <3>2, CommandKeeps
  <2> QED
    BY <1>5, <2>2, <2>3 DEF Probe
<1>6. CASE Terminate(c)
  BY <1>1, <1>2, <1>6, CommandKeeps DEF Terminate, Move, PCs, Answers
<1>7. CASE WaitForDeath(c)
  <2>1. run # 0
    BY <1>2, <1>7 DEF WaitForDeath
  <2>2. CASE server[run].exit /\ Answer(c, "stopped")
    <3>1. ~server[run].leader
      BY <1>2, <2>1, <2>2 DEF Inv, Shape
    <3>2. /\ caller' = [caller EXCEPT ![c] = At("idle", run, "stopped")]
          /\ "idle" \in PCs /\ "stopped" \in Answers
      BY <2>2 DEF Answer, PCs, Answers
    <3> QED
      BY <1>1, <1>2, <3>1, <3>2, CommandKeeps
  <2>3. CASE Move(c, "kill")
    BY <1>1, <1>2, <2>1, <2>3, CommandKeeps DEF Move, PCs, Answers
  <2>4. CASE Answer(c, "stuck")
    BY <1>1, <1>2, <2>4, CommandKeeps DEF Answer, PCs, Answers
  <2> QED
    BY <1>7, <2>2, <2>3, <2>4 DEF WaitForDeath
<1> QED
  BY <1>3, <1>4, <1>5, <1>6, <1>7

LEMMA KillKeeps ==
    ASSUME Inv, NEW c \in Callers, Kill(c)
    PROVE  Inv'
<1> DEFINE run == caller[c].run
           s   == [server[run] EXCEPT !.leader = FALSE, !.helpers = FALSE]
<1>1. run \in 1..slot /\ server[run] \in Server
  BY DEF Kill, Inv, Shape
<1>2. s \in Server /\ ~s.leader /\ (s.exit <=> server[run].exit)
  BY <1>1, ServerFields DEF Server
<1>3. Ageing
  BY <1>1, <1>2, ServerUpdate DEF Kill, Put, Inv
<1>4. /\ caller' = [caller EXCEPT ![c] = At("killed", run, "none")]
      /\ "killed" \in PCs /\ "none" \in Answers
  BY DEF Kill, Move, PCs, Answers
<1>5. run \in 0..slot /\ run # 0
  BY <1>1 DEF Inv, Shape
<1> QED
  BY <1>3, <1>4, <1>5, CommandKeeps

LEMMA RunStepsKeep ==
    ASSUME Inv, NEW r \in Runs, Exit(r) \/ Reap(r) \/ PrintLine(r) \/ Push(r)
    PROVE  Inv'
<1>1. r \in 1..slot /\ server[r] \in Server /\ UNCHANGED <<slot, caller>>
  BY DEF Inv, Shape, Runs, Exit, Reap, PrintLine, Push
<1>2. CASE Exit(r)
  <2>1. CASE Put(r, [server[r] EXCEPT !.leader = FALSE])
    <3> DEFINE s == [server[r] EXCEPT !.leader = FALSE]
    <3>1. s \in Server /\ ~s.leader /\ (s.exit <=> server[r].exit)
      BY <1>1, ServerFields DEF Server
    <3>2. Ageing
      BY <1>1, <2>1, <3>1, ServerUpdate DEF Put, Inv
    <3> QED
      BY <1>1, <3>2, AgeingKeeps
  <2>2. CASE Put(r, [server[r] EXCEPT !.helpers = FALSE])
    <3> DEFINE s == [server[r] EXCEPT !.helpers = FALSE]
    <3>1. /\ s \in Server
          /\ (s.leader <=> server[r].leader) /\ (s.exit <=> server[r].exit)
      BY <1>1, ServerFields DEF Server
    <3>2. Ageing
      BY <1>1, <2>2, <3>1, ServerUpdate DEF Put, Inv
    <3> QED
      BY <1>1, <3>2, AgeingKeeps
  <2> QED
    BY <1>2, <2>1, <2>2 DEF Exit
<1>3. CASE Reap(r)
  <2> DEFINE s == [server[r] EXCEPT !.exit = TRUE]
  <2>1. s \in Server /\ (s.leader <=> server[r].leader) /\ s.exit
    BY <1>1, ServerFields DEF Server
  <2>2. Ageing
    BY <1>1, <1>3, <2>1, ServerUpdate DEF Put, Reap, Inv
  <2> QED
    BY <1>1, <2>2, AgeingKeeps
<1>4. CASE PrintLine(r)
  <2> DEFINE s == [server[r] EXCEPT !.printed = @ + 1]
  <2>1. server[r].printed + 1 \in 0..MaxLines
    BY <1>1, <1>4, ServerProcessAssumption DEF PrintLine, Server
  <2>2. /\ s \in Server
        /\ (s.leader <=> server[r].leader) /\ (s.exit <=> server[r].exit)
    BY <1>1, <2>1, ServerFields DEF Server
  <2>3. Ageing
    BY <1>1, <1>4, <2>2, ServerUpdate DEF Put, PrintLine, Inv
  <2> QED
    BY <1>1, <2>3, AgeingKeeps
<1>5. CASE Push(r)
  <2> DEFINE s == [server[r] EXCEPT !.written = @ + 1,
                        !.lines = Evicted(Append(@, server[r].written))]
  <2>1. /\ server[r].written + 1 \in 0..MaxLines
        /\ Evicted(Append(server[r].lines, server[r].written)) \in Seq(0..MaxLines)
    BY <1>1, <1>5, PushedLines DEF Push
  <2>2. /\ s \in Server
        /\ (s.leader <=> server[r].leader) /\ (s.exit <=> server[r].exit)
    BY <1>1, <2>1, ServerFields DEF Server
  <2>3. Ageing
    BY <1>1, <1>5, <2>2, ServerUpdate DEF Put, Push, Inv
  <2> QED
    BY <1>1, <2>3, AgeingKeeps
<1> QED
  BY <1>2, <1>3, <1>4, <1>5

LEMMA NextKeeps ==
    ASSUME Inv, [Next]_vars
    PROVE  Inv'
<1>1. ASSUME NEW c \in Callers, StartServer(c) \/ StopServer(c) \/ Command(c)
      PROVE  Inv'
  BY <1>1, SpawnKeeps, CommandStepsKeep, KillKeeps DEF Command
<1>2. ASSUME NEW r \in Runs, Exit(r) \/ Reap(r) \/ PrintLine(r) \/ Push(r)
      PROVE  Inv'
  BY <1>2, RunStepsKeep
<1>3. ASSUME NEW p \in Polls, Ask(p) \/ OpenLogs(p) \/ Respond(p) \/ Deliver(p)
      PROVE  Inv'
  <2>1. UNCHANGED <<slot, server, caller>>
    BY <1>3 DEF Ask, OpenLogs, Respond, Deliver
  <2> QED
    BY <2>1, StutterAges, AgeingKeeps DEF Inv
<1>4. CASE UNCHANGED vars
  BY <1>4, StutterAges, AgeingKeeps DEF Inv, vars
<1> QED
  BY <1>1, <1>2, <1>3, <1>4 DEF Next

THEOREM Invariance == Spec => []Inv
<1>1. Init => Inv
  BY InitEstablishes
<1>2. Inv /\ [Next]_vars => Inv'
  BY NextKeeps
<1> QED
  BY <1>1, <1>2, PTL DEF Spec

\* However starts and stops race, two servers are never alive at once
\* (ProcessManager::start tests and replaces the slot under one lock).
THEOREM OneServer == Spec => []OneServerAtATime
<1>1. Inv => OneServerAtATime
  BY DEF Inv, Shape, ExitsRecorded, OneServerAtATime, Runs
<1> QED
  BY <1>1, Invariance, PTL

\* A stop that answered Ok, and a boot probe that reported a death, found
\* the server dead, and it stays dead while the answer stands.
THEOREM StoppedIsDead == Spec => []StopMeansDead
<1>1. Inv => StopMeansDead
  BY DEF Inv
<1> QED
  BY <1>1, Invariance, PTL

-----------------------------------------------------------------------------
(* The log buffer.                                                          *)

\* The numbers from n - Len(q) on, up to n - 1.
Consecutive(q, n) ==
    /\ q \in Seq(Nat)
    /\ \A i \in 1..Len(q) : q[i] = n - Len(q) + i - 1

LEMMA ConsecutiveAppend ==
    ASSUME NEW n \in Nat, NEW q, Consecutive(q, n)
    PROVE  Consecutive(Append(q, n), n + 1) /\ Len(Append(q, n)) = Len(q) + 1
<1>1. /\ q \in Seq(Nat) /\ Append(q, n) \in Seq(Nat) /\ Len(q) \in Nat
      /\ Len(Append(q, n)) = Len(q) + 1
      /\ \A i \in 1..Len(q) : Append(q, n)[i] = q[i]
      /\ Append(q, n)[Len(q) + 1] = n
  BY DEF Consecutive
<1>2. ASSUME NEW i \in 1..Len(Append(q, n))
      PROVE  Append(q, n)[i] = (n + 1) - Len(Append(q, n)) + i - 1
  <2>1. CASE i \in 1..Len(q)
    BY <1>1, <2>1 DEF Consecutive
  <2>2. CASE i = Len(q) + 1
    BY <1>1, <2>2
  <2> QED
    BY <1>1, <2>1, <2>2
<1> QED
  BY <1>1, <1>2 DEF Consecutive

LEMMA ConsecutiveTail ==
    ASSUME NEW n \in Nat, NEW q, Consecutive(q, n), q # << >>
    PROVE  Consecutive(Tail(q), n) /\ Len(Tail(q)) = Len(q) - 1
<1>1. /\ q \in Seq(Nat) /\ Len(q) \in Nat /\ Tail(q) \in Seq(Nat)
      /\ Len(Tail(q)) = Len(q) - 1
      /\ \A i \in 1..Len(Tail(q)) : Tail(q)[i] = q[i + 1]
  BY HeadTailProperties, LenProperties DEF Consecutive
<1>2. ASSUME NEW i \in 1..Len(Tail(q))
      PROVE  Tail(q)[i] = n - Len(Tail(q)) + i - 1
  <2>1. i + 1 \in 1..Len(q)
    BY <1>1
  <2>2. q[i + 1] = n - Len(q) + (i + 1) - 1
    BY <2>1 DEF Consecutive
  <2> QED
    BY <1>1, <2>2
<1> QED
  BY <1>1, <1>2 DEF Consecutive

LEMMA WindowIsConsecutive ==
    ASSUME NEW s \in Server
    PROVE  /\ s.written \in Nat /\ s.lines \in Seq(Nat) /\ Len(s.lines) \in Nat
           /\ IsWindow(s) <=> Len(s.lines) = Least(Capacity, s.written)
                               /\ Consecutive(s.lines, s.written)
<1>1. s.written \in 0..MaxLines /\ s.lines \in Seq(0..MaxLines)
  BY DEF Server
<1>2. s.written \in Nat /\ s.lines \in Seq(Nat)
  BY <1>1, SeqMonotonic, ServerProcessAssumption
<1>3. Len(s.lines) \in Nat /\ DOMAIN s.lines = 1..Len(s.lines)
  BY <1>2, LenProperties
<1> QED
  BY <1>2, <1>3 DEF IsWindow, Consecutive

LEMMA PushedWindow ==
    ASSUME NEW s \in Server, IsWindow(s), s.written < s.printed,
           NEW t \in Server, t.written = s.written + 1,
           t.lines = Evicted(Append(s.lines, s.written))
    PROVE  IsWindow(t)
<1> DEFINE q == Append(s.lines, s.written)
<1>1. /\ s.written \in Nat /\ Capacity \in Nat \ {0} /\ Len(s.lines) \in Nat
      /\ Consecutive(s.lines, s.written)
      /\ Len(s.lines) = (IF Capacity < s.written THEN Capacity ELSE s.written)
  BY ServerProcessAssumption, WindowIsConsecutive DEF Least
<1>2. Consecutive(q, t.written) /\ Len(q) = Len(s.lines) + 1
  BY <1>1, ConsecutiveAppend
<1> HIDE DEF q
<1>3. q # << >> /\ t.written \in Nat
  BY <1>1, <1>2, EmptySeq
<1>4. Consecutive(Tail(q), t.written) /\ Len(Tail(q)) = Len(q) - 1
  BY <1>1, <1>2, <1>3, ConsecutiveTail
<1>5. CASE Len(q) > Capacity
  <2>1. t.lines = Tail(q)
    BY <1>5 DEF Evicted, q
  <2>2. Len(t.lines) = Least(Capacity, t.written)
    BY <1>1, <1>2, <1>4, <1>5, <2>1 DEF Least
  <2> QED
    BY <1>4, <2>1, <2>2, WindowIsConsecutive
<1>6. CASE ~(Len(q) > Capacity)
  <2>1. t.lines = q
    BY <1>6 DEF Evicted, q
  <2>2. Len(t.lines) = Least(Capacity, t.written)
    BY <1>1, <1>2, <1>6, <2>1 DEF Least
  <2> QED
    BY <1>2, <2>1, <2>2, WindowIsConsecutive
<1> QED
  BY <1>5, <1>6

\* A step that leaves the lines of a run alone.
LEMMA SameLinesSameWindow ==
    ASSUME Inv, BufferIsWindow, NEW r \in Runs, NEW s \in Server,
           slot' = slot, Put(r, s), IsWindow(s)
    PROVE  BufferIsWindow'
BY DEF Inv, Shape, BufferIsWindow, Put, Runs

LEMMA NextKeepsWindow ==
    ASSUME Inv, BufferIsWindow, [Next]_vars
    PROVE  BufferIsWindow'
<1>1. CASE UNCHANGED <<slot, server>>
  BY <1>1 DEF BufferIsWindow, Runs
<1>2. ASSUME NEW c \in Callers, Spawn(c), ~UNCHANGED <<slot, server>>
      PROVE  BufferIsWindow'
  <2>1. slot' = slot + 1 /\ server' = Append(server, Fresh)
    BY <1>2 DEF Spawn
  <2>2. IsWindow(Fresh)
    BY ServerProcessAssumption, EmptySeq DEF Fresh, IsWindow, Least
  <2>3. /\ \A r \in 1..slot : server'[r] = server[r]
        /\ server'[slot + 1] = Fresh
    BY <2>1 DEF Inv, Shape
  <2> QED
    BY <2>1, <2>2, <2>3 DEF BufferIsWindow, Runs, Inv, Shape
<1>3. ASSUME NEW c \in Callers, Kill(c)
      PROVE  BufferIsWindow'
  <2> DEFINE run == caller[c].run
             s   == [server[run] EXCEPT !.leader = FALSE, !.helpers = FALSE]
  <2>1. run \in Runs /\ server[run] \in Server
    BY <1>3 DEF Kill, Inv, Shape, Runs
  <2>2. s \in Server /\ s.lines = server[run].lines /\ s.written = server[run].written
    BY <2>1, ServerFields DEF Server
  <2>3. IsWindow(s)
    BY <2>1, <2>2 DEF BufferIsWindow, IsWindow
  <2> QED
    BY <1>3, <2>1, <2>2, <2>3, SameLinesSameWindow DEF Kill
<1>4. ASSUME NEW r \in Runs, Exit(r) \/ Reap(r) \/ PrintLine(r)
      PROVE  BufferIsWindow'
  <2>1. server[r] \in Server /\ IsWindow(server[r]) /\ slot' = slot
    BY <1>4 DEF Inv, Shape, Runs, BufferIsWindow, Exit, Reap, PrintLine
  <2>2. ASSUME NEW s \in Server, s.lines = server[r].lines,
               s.written = server[r].written, Put(r, s)
        PROVE  BufferIsWindow'
    BY <2>1, <2>2, SameLinesSameWindow DEF IsWindow
  <2>3. CASE Put(r, [server[r] EXCEPT !.leader = FALSE])
    <3> DEFINE s == [server[r] EXCEPT !.leader = FALSE]
    <3>1. s \in Server /\ s.lines = server[r].lines /\ s.written = server[r].written
      BY <2>1, ServerFields DEF Server
    <3> QED
      BY <2>2, <2>3, <3>1
  <2>4. CASE Put(r, [server[r] EXCEPT !.helpers = FALSE])
    <3> DEFINE s == [server[r] EXCEPT !.helpers = FALSE]
    <3>1. s \in Server /\ s.lines = server[r].lines /\ s.written = server[r].written
      BY <2>1, ServerFields DEF Server
    <3> QED
      BY <2>2, <2>4, <3>1
  <2>5. CASE Put(r, [server[r] EXCEPT !.exit = TRUE])
    <3> DEFINE s == [server[r] EXCEPT !.exit = TRUE]
    <3>1. s \in Server /\ s.lines = server[r].lines /\ s.written = server[r].written
      BY <2>1, ServerFields DEF Server
    <3> QED
      BY <2>2, <2>5, <3>1
  <2>6. CASE PrintLine(r)
    <3> DEFINE s == [server[r] EXCEPT !.printed = @ + 1]
    <3>1. server[r].printed + 1 \in 0..MaxLines
      BY <2>1, <2>6, ServerProcessAssumption DEF PrintLine, Server
    <3>2. s \in Server /\ s.lines = server[r].lines /\ s.written = server[r].written
      BY <2>1, <3>1, ServerFields DEF Server
    <3> QED
      BY <2>2, <2>6, <3>2 DEF PrintLine
  <2> QED
    BY <1>4, <2>3, <2>4, <2>5, <2>6 DEF Exit, Reap
<1>5. ASSUME NEW r \in Runs, Push(r)
      PROVE  BufferIsWindow'
  <2> DEFINE s == [server[r] EXCEPT !.written = @ + 1,
                        !.lines = Evicted(Append(@, server[r].written))]
  <2>1. server[r] \in Server /\ IsWindow(server[r])
    BY DEF Inv, Shape, Runs, BufferIsWindow
  <2>2. /\ server[r].written + 1 \in 0..MaxLines
        /\ Evicted(Append(server[r].lines, server[r].written)) \in Seq(0..MaxLines)
    BY <1>5, <2>1, PushedLines DEF Push
  <2>3. /\ s \in Server /\ s.written = server[r].written + 1
        /\ s.lines = Evicted(Append(server[r].lines, server[r].written))
    BY <2>1, <2>2, ServerFields DEF Server
  <2>4. IsWindow(s)
    BY <1>5, <2>1, <2>3, PushedWindow DEF Push
  <2> QED
    BY <1>5, <2>3, <2>4, SameLinesSameWindow DEF Push
<1> QED
  BY <1>1, <1>2, <1>3, <1>4, <1>5
  DEF Next, vars, Command, StartServer, StopServer, Probe, Terminate, WaitForDeath,
      Ask, OpenLogs, Respond, Deliver

\* The log buffer always holds the newest lines, numbered without holes up to
\* the counter that pages hand out as their next cursor.
THEOREM LogsAreWindow == Spec => []BufferIsWindow
<1>1. Init => BufferIsWindow
  BY DEF Init, BufferIsWindow, Runs
<1>2. Inv /\ BufferIsWindow /\ [Next]_vars => BufferIsWindow'
  BY NextKeepsWindow
<1> QED
  BY <1>1, <1>2, Invariance, PTL DEF Spec

-----------------------------------------------------------------------------
(* The log panel of the shell.                                              *)

\* Before in the numbering of the servers; before a late answer, or so.
Numbered(x, y) == x[1] < y[1] \/ (x[1] = y[1] /\ x[2] < y[2])
Earlier(x, y) == x[3] < y[3] \/ (x[3] = y[3] /\ Numbered(x, y))

PollType == [pc : {"idle", "asked", "answered"}, since : 0..MaxLines, run : 0..slot,
             lines : Seq(0..MaxLines), next : 0..MaxLines, late : BOOLEAN]
Entry == (1..slot) \X (0..MaxLines) \X (0..MaxLate)

PanelTypes ==
    /\ slot <= MaxRuns
    /\ poll \in [Polls -> PollType]
    /\ cursor \in 0..MaxLines
    /\ shown \in Seq(Entry)
    /\ late \in 0..MaxLate

\* What of the run that serves now is shown since the last late answer lies before
\* the cursor.
BeforeCursor ==
    \A i \in 1..Len(shown) :
        shown[i][3] = late /\ shown[i][1] = slot => shown[i][2] < cursor

\* An answer holds lines that were written, in order, and the cursor passes them.
PageSound(a) ==
    /\ \A i \in 1..Len(a.lines) :
          /\ a.run # 0 /\ a.since <= a.lines[i] /\ a.lines[i] < a.next
          /\ a.lines[i] < server[a.run].written
    /\ \A i, j \in 1..Len(a.lines) : i < j => a.lines[i] < a.lines[j]

\* It continues what is shown since the last late answer.
Continues(a) ==
    \A i \in 1..Len(shown) :
        shown[i][3] = late =>
            /\ shown[i][1] <= a.run
            /\ shown[i][1] = a.run => shown[i][2] < a.since /\ shown[i][2] < a.next

PollSound(a) ==
    /\ a.pc = "asked" /\ ~a.late => a.since = cursor
    /\ a.pc = "answered" => PageSound(a)
    /\ a.pc = "answered" /\ ~a.late => Continues(a)

ShownSound ==
    /\ \A i, j \in 1..Len(shown) : i < j => Earlier(shown[i], shown[j])
    /\ \A i \in 1..Len(shown) : shown[i][2] < server[shown[i][1]].written /\ shown[i][3] <= late
    /\ BeforeCursor

PanelInv ==
    /\ PanelTypes
    /\ ShownSound
    /\ \A p \in Polls : PollSound(poll[p])

LEMMA RunTyped ==
    ASSUME Shape, NEW r \in 1..slot
    PROVE  server[r] \in Server /\ server[r].written \in Nat
<1>1. server[r] \in Server
  BY ElementOfSeq DEF Shape
<1>2. server[r].written \in 0..MaxLines
  BY <1>1 DEF Server
<1> QED
  BY <1>1, <1>2

LEMMA PanelShownOnce ==
    ASSUME Inv, PanelInv
    PROVE  ShownOnce
<1>1. server \in [Runs -> Server] /\ slot \in 0..MaxRuns
  BY LenProperties, ServerProcessAssumption DEF Inv, Shape, Runs, PanelInv, PanelTypes
<1>2. caller \in [Callers -> [pc : PCs, run : 0..slot, answer : Answers]]
  <2>1. \A c \in Callers : caller[c] \in [pc : PCs, run : 0..slot, answer : Answers]
    BY DEF Inv, Shape
  <2>2. caller = [c \in Callers |-> caller[c]]
    BY DEF Inv, Shape
  <2> QED
    BY <2>1, <2>2
<1>3. TypeOK
  BY <1>1, <1>2 DEF TypeOK, PanelInv, PanelTypes, PollType, Entry
<1>4. DOMAIN shown = 1..Len(shown)
  BY LenProperties DEF PanelInv, PanelTypes
<1> QED
  BY <1>3, <1>4 DEF ShownOnce, PanelInv, ShownSound, Earlier, Numbered

\* What is shown, entry by entry.
LEMMA ShownTyped ==
    ASSUME PanelTypes
    PROVE  /\ Len(shown) \in Nat
           /\ \A i \in 1..Len(shown) : /\ shown[i][1] \in 1..slot /\ shown[i][2] \in 0..MaxLines
                                       /\ shown[i][3] \in 0..MaxLate
<1>1. \A i \in 1..Len(shown) : shown[i] \in Entry
  BY ElementOfSeq DEF PanelTypes
<1>2. Len(shown) \in Nat
  BY LenProperties DEF PanelTypes
<1> QED
  BY <1>1, <1>2 DEF Entry

\* Whatever commands and servers do: no run disappears, and none takes back a line.
LEMMA GrowthKeepsPanel ==
    ASSUME Inv, PanelInv, slot' \in Nat, slot <= slot', slot' <= MaxRuns,
           \A r \in 1..slot : server'[r].written \in Nat
                              /\ server[r].written <= server'[r].written,
           UNCHANGED <<poll, cursor, shown, late>>
    PROVE  PanelInv'
<1>0. /\ PanelTypes /\ ShownSound /\ slot \in Nat /\ MaxRuns \in Nat /\ MaxLines \in Nat
      /\ \A r \in 1..slot : server[r] \in Server /\ server[r].written \in Nat
  BY ServerProcessAssumption, RunTyped DEF PanelInv, Inv, Shape
<1>1. /\ Len(shown) \in Nat
      /\ \A i \in 1..Len(shown) : shown[i][1] \in 1..slot /\ shown[i][2] \in 0..MaxLines
  BY <1>0, ShownTyped
<1>2. PanelTypes'
  <2>1. Entry \subseteq Entry'
    BY <1>0 DEF Entry
  <2>2. shown \in Seq(Entry')
    BY <1>0, <2>1, ElementOfSeq, SeqMonotonic DEF PanelTypes
  <2>3. PollType \subseteq PollType'
    BY <1>0 DEF PollType
  <2>4. poll \in [Polls -> PollType']
    BY <1>0, <2>3 DEF PanelTypes
  <2> QED
    BY <1>0, <2>2, <2>4 DEF PanelTypes
<1>3. ASSUME NEW i \in 1..Len(shown')
      PROVE  shown'[i][2] < server'[shown'[i][1]].written /\ shown'[i][3] <= late'
  <2>1. /\ shown'[i] = shown[i] /\ i \in 1..Len(shown) /\ late' = late
        /\ shown[i][2] < server[shown[i][1]].written /\ shown[i][3] <= late
    BY <1>0 DEF ShownSound
  <2>2. shown[i][1] \in 1..slot /\ shown[i][2] \in Nat
    BY <1>0, <1>1, <2>1
  <2> QED
    BY <1>0, <2>1, <2>2
<1>4. BeforeCursor'
  BY <1>0, <1>1 DEF ShownSound, BeforeCursor
<1>5. ASSUME NEW a \in PollType, PageSound(a), NEW i \in 1..Len(a.lines)
      PROVE  a.lines[i] < server'[a.run].written
  <2>1. a.run # 0 /\ a.run \in 0..slot /\ a.lines[i] < server[a.run].written
    BY <1>5 DEF PageSound, PollType
  <2>2. a.lines[i] \in 0..MaxLines
    BY ElementOfSeq DEF PollType
  <2>3. a.run \in 1..slot /\ a.lines[i] \in Nat
    BY <1>0, <2>1, <2>2
  <2> QED
    BY <1>0, <2>1, <2>3
<1>6. ASSUME NEW p \in Polls PROVE PollSound(poll[p])'
  <2>1. poll[p] \in PollType /\ PollSound(poll[p]) /\ poll' = poll
    BY <1>0 DEF PanelInv, PanelTypes
  <2>2. PageSound(poll[p]) => PageSound(poll[p])'
    BY <1>5, <2>1 DEF PageSound
  <2>3. Continues(poll[p]) => Continues(poll[p])'
    BY <2>1 DEF Continues
  <2> QED
    BY <2>1, <2>2, <2>3 DEF PollSound
<1>7. (\A i, j \in 1..Len(shown) : i < j => Earlier(shown[i], shown[j]))'
  BY <1>0 DEF ShownSound, Earlier, Numbered
<1>8. ShownSound'
  BY <1>3, <1>4, <1>7 DEF ShownSound
<1> QED
  BY <1>2, <1>6, <1>8 DEF PanelInv

\* What commands and servers do to the lines written.
LEMMA RunsOnlyWrite ==
    ASSUME Inv, slot <= MaxRuns,
           \/ \E c \in Callers : StartServer(c) \/ StopServer(c) \/ Command(c)
           \/ \E r \in Runs : Exit(r) \/ Reap(r) \/ PrintLine(r) \/ Push(r)
           \/ UNCHANGED vars
    PROVE  /\ slot' \in Nat /\ slot <= slot' /\ slot' <= MaxRuns
           /\ \A r \in 1..slot : server'[r].written \in Nat
                                 /\ server[r].written <= server'[r].written
<1>0. /\ slot \in Nat /\ server \in Seq(Server) /\ Len(server) = slot
      /\ \A r \in 1..slot : server[r] \in Server /\ server[r].written \in Nat
  BY RunTyped DEF Inv, Shape
<1>1. CASE UNCHANGED <<slot, server>>
  BY <1>0, <1>1
<1>2. ASSUME NEW r \in 1..slot, NEW s, s.written \in Nat, server[r].written <= s.written,
             Put(r, s), slot' = slot
      PROVE  /\ slot' \in Nat /\ slot <= slot' /\ slot' <= MaxRuns
             /\ \A q \in 1..slot : server'[q].written \in Nat
                                   /\ server[q].written <= server'[q].written
  <2>1. server \in [1..slot -> Server]
    BY <1>0, LenProperties
  <2>2. \A q \in 1..slot : server'[q] = IF q = r THEN s ELSE server[q]
    BY <1>2, <2>1 DEF Put
  <2>3. ASSUME NEW q \in 1..slot
        PROVE  server'[q].written \in Nat /\ server[q].written <= server'[q].written
    <3>1. server[q].written \in Nat /\ server[q].written <= server[q].written
      BY <1>0
    <3> QED
      BY <1>2, <2>2, <3>1
  <2> QED
    BY <1>0, <1>2, <2>3
<1>3. ASSUME NEW c \in Callers, Spawn(c), ~UNCHANGED <<slot, server>>
      PROVE  /\ slot' \in Nat /\ slot <= slot' /\ slot' <= MaxRuns
             /\ \A q \in 1..slot : server'[q].written \in Nat
                                   /\ server[q].written <= server'[q].written
  <2>1. slot' = slot + 1 /\ server' = Append(server, Fresh) /\ slot < MaxRuns
    BY <1>3 DEF Spawn
  <2>2. \A q \in 1..slot : server'[q] = server[q]
    BY <1>0, <2>1
  <2> QED
    BY <1>0, <2>1, <2>2, ServerProcessAssumption
<1>4. ASSUME NEW c \in Callers, Kill(c)
      PROVE  /\ slot' \in Nat /\ slot <= slot' /\ slot' <= MaxRuns
             /\ \A q \in 1..slot : server'[q].written \in Nat
                                   /\ server[q].written <= server'[q].written
  <2> DEFINE run == caller[c].run
             s   == [server[run] EXCEPT !.leader = FALSE, !.helpers = FALSE]
  <2>1. run \in 1..slot /\ slot' = slot /\ Put(run, s)
    BY <1>4 DEF Kill, Inv, Shape
  <2>2. s.written = server[run].written /\ server[run].written \in Nat
    BY <1>0, <2>1 DEF Server
  <2> HIDE DEF s, run
  <2> QED
    BY <1>2, <2>1, <2>2
<1>5. ASSUME NEW r \in Runs, Exit(r) \/ Reap(r) \/ PrintLine(r) \/ Push(r)
      PROVE  /\ slot' \in Nat /\ slot <= slot' /\ slot' <= MaxRuns
             /\ \A q \in 1..slot : server'[q].written \in Nat
                                   /\ server[q].written <= server'[q].written
  <2>0. r \in 1..slot /\ slot' = slot /\ server[r] \in Server /\ server[r].written \in Nat
    BY <1>0, <1>5 DEF Runs, Exit, Reap, PrintLine, Push
  <2>1. PICK s : Put(r, s) /\ s.written \in {server[r].written, server[r].written + 1}
    <3>1. CASE Put(r, [server[r] EXCEPT !.leader = FALSE])
      BY <2>0, <3>1 DEF Server
    <3>2. CASE Put(r, [server[r] EXCEPT !.helpers = FALSE])
      BY <2>0, <3>2 DEF Server
    <3>3. CASE Put(r, [server[r] EXCEPT !.exit = TRUE])
      BY <2>0, <3>3 DEF Server
    <3>4. CASE PrintLine(r)
      <4> DEFINE s == [server[r] EXCEPT !.printed = @ + 1]
      <4>1. s.written = server[r].written
        BY <2>0 DEF Server
      <4> QED
        BY <3>4, <4>1 DEF PrintLine
    <3>5. CASE Push(r)
      <4> DEFINE s == [server[r] EXCEPT !.written = @ + 1,
                            !.lines = Evicted(Append(@, server[r].written))]
      <4>1. s.written = server[r].written + 1
        BY <2>0 DEF Server
      <4> QED
        BY <3>5, <4>1 DEF Push
    <3> QED
      BY <1>5, <3>1, <3>2, <3>3, <3>4, <3>5 DEF Exit, Reap
  <2>2. s.written \in Nat /\ server[r].written <= s.written
    BY <2>0, <2>1
  <2> QED
    BY <1>2, <2>0, <2>1, <2>2
<1>6. CASE \E c \in Callers : StartServer(c) \/ StopServer(c) \/ Command(c)
  <2> PICK c \in Callers : StartServer(c) \/ StopServer(c) \/ Command(c)
    BY <1>6
  <2>1. CASE Spawn(c)
    BY <1>1, <1>3, <2>1
  <2>2. CASE Kill(c)
    BY <1>4, <2>2
  <2>3. CASE ~Spawn(c) /\ ~Kill(c)
    BY <1>1, <2>3 DEF Command, StartServer, StopServer, Probe, Terminate, WaitForDeath
  <2> QED
    BY <2>1, <2>2, <2>3
<1>7. CASE UNCHANGED vars
  BY <1>1, <1>7 DEF vars
<1> QED
  BY <1>5, <1>6, <1>7

\* What a page holds of a window: lines from `since` on, in order.
LEMMA WantedIs ==
    ASSUME NEW s \in Server, IsWindow(s), NEW since \in Nat
    PROVE  LET q == Wanted(s, since)
           IN  /\ q \in Seq(0..MaxLines)
               /\ \A i \in 1..Len(q) : since <= q[i] /\ q[i] < s.written
               /\ \A i, j \in 1..Len(q) : i < j => q[i] < q[j]
<1> DEFINE n     == Len(s.lines)
           low   == s.written - n
           below == {i \in DOMAIN s.lines : s.lines[i] < since}
           older == Cardinality(below)
           last  == Least(older + PageLimit, n)
           q     == Wanted(s, since)
<1>1. /\ s.written \in Nat /\ n \in Nat /\ DOMAIN s.lines = 1..n /\ low \in Nat
      /\ \A i \in 1..n : s.lines[i] = low + i - 1 /\ s.lines[i] \in 0..MaxLines
      /\ PageLimit \in Nat
  <2>1. s.written \in 0..MaxLines /\ s.lines \in Seq(0..MaxLines)
    BY DEF Server
  <2>2. s.written \in Nat /\ n \in Nat /\ DOMAIN s.lines = 1..n /\ n = Least(Capacity, s.written)
    BY <2>1, LenProperties, ServerProcessAssumption DEF IsWindow
  <2>3. n <= s.written /\ low \in Nat
    BY <2>2, ServerProcessAssumption DEF Least
  <2> QED
    BY <2>1, <2>2, <2>3, ElementOfSeq, ServerProcessAssumption DEF IsWindow
<1>2. q = SubSeq(s.lines, older + 1, last)
  BY DEF Wanted
<1> HIDE DEF n, low, q
<1>3. PICK m \in 0..n : below = 1..m
  <2>1. CASE since <= low
    <3>1. below = 1..0
      BY <1>1, <2>1
    <3> QED
      BY <1>1, <3>1
  <2>2. CASE since > low + n
    <3>1. below = 1..n
      BY <1>1, <2>2
    <3> QED
      BY <1>1, <3>1
  <2>3. CASE low < since /\ since <= low + n
    <3>1. below = 1..(since - low)
      BY <1>1, <2>3
    <3>2. since - low \in 0..n
      BY <1>1, <2>3
    <3> QED
      BY <3>1, <3>2
  <2>4. n \in Nat /\ low \in Nat
    BY <1>1
  <2>5. since <= low \/ since > low + n \/ (low < since /\ since <= low + n)
    BY <2>4
  <2> QED
    BY <2>1, <2>2, <2>3, <2>5
<1>4. older = m /\ m \in Nat
  <2>1. m \in Nat
    BY <1>1
  <2>2. Cardinality(1..m) = m
    BY <2>1, FS_Interval
  <2> QED
    BY <1>3, <2>1, <2>2
<1>5. \A i \in 1..n : i > m => since <= s.lines[i]
  <2> SUFFICES ASSUME NEW i \in 1..n, i > m PROVE since <= s.lines[i]
    OBVIOUS
  <2>1. i \notin below
    BY <1>3, <1>4
  <2> QED
    BY <1>1, <2>1
<1> HIDE DEF older, below
<1>6. last \in Nat /\ last <= n
  BY <1>1, <1>4 DEF Least
<1> HIDE DEF last
<1>7. \A i \in (older + 1)..last : s.lines[i] \in 0..MaxLines
  BY <1>1, <1>4, <1>6
<1>8. /\ q \in Seq(0..MaxLines) /\ Len(q) = (IF older + 1 <= last THEN last - older ELSE 0)
      /\ \A i \in 1..(last - older) : q[i] = s.lines[i + older]
  <2>1. older + 1 \in Int /\ last \in Int
    BY <1>4, <1>6
  <2>2. /\ q \in Seq(0..MaxLines)
        /\ Len(q) = IF older + 1 <= last THEN last - (older + 1) + 1 ELSE 0
        /\ \A i \in 1..(last - (older + 1) + 1) : q[i] = s.lines[(older + 1) + i - 1]
    BY <1>2, <1>7, <2>1, SubSeqProperties
  <2> QED
    BY <1>4, <1>6, <2>2
<1>9. ASSUME NEW i \in 1..Len(q)
      PROVE  i \in Nat /\ q[i] = low + i + m - 1 /\ since <= q[i] /\ q[i] < s.written
  <2>1. i \in 1..(last - older) /\ i + m \in 1..n /\ i + m > m
    BY <1>1, <1>4, <1>6, <1>8
  <2>2. q[i] = s.lines[i + m]
    BY <1>4, <1>8, <2>1
  <2>3. since <= s.lines[i + m] /\ s.lines[i + m] = low + (i + m) - 1
    BY <1>1, <1>5, <2>1
  <2>4. low + n = s.written
    BY <1>1 DEF low
  <2> QED
    BY <1>1, <1>4, <2>1, <2>2, <2>3, <2>4
<1>10. ASSUME NEW i \in 1..Len(q), NEW j \in 1..Len(q), i < j PROVE q[i] < q[j]
  <2>1. q[i] = low + i + m - 1 /\ q[j] = low + j + m - 1 /\ i \in Nat /\ j \in Nat
    BY <1>9
  <2> QED
    BY <1>1, <1>4, <1>10, <2>1
<1> QED
  BY <1>8, <1>9, <1>10 DEF q

\* A step of a poll that lets nothing land: the others stay as sound as they were.
LEMMA PollStep ==
    ASSUME PanelInv, NEW p \in Polls, NEW CONSTANT a,
           poll' = [poll EXCEPT ![p] = a], UNCHANGED <<slot, server, cursor, shown, late>>,
           a \in PollType, PollSound(a)'
    PROVE  PanelInv'
<1>1. /\ poll' \in [Polls -> PollType]
      /\ \A q \in Polls : poll'[q] = IF q = p THEN a ELSE poll[q]
  BY DEF PanelInv, PanelTypes
<1>2. PanelTypes'
  BY <1>1 DEF PanelInv, PanelTypes, PollType, Entry
<1>3. ShownSound'
  BY DEF PanelInv, ShownSound, BeforeCursor, Earlier, Numbered
<1>4. ASSUME NEW q \in Polls PROVE PollSound(poll[q])'
  <2>1. CASE q = p
    BY <1>1, <2>1 DEF PollSound, PageSound, Continues
  <2>2. CASE q # p
    <3>1. poll'[q] = poll[q] /\ PollSound(poll[q])
      BY <1>1, <2>2 DEF PanelInv
    <3> QED
      BY <3>1 DEF PollSound, PageSound, Continues
  <2> QED
    BY <2>1, <2>2
<1> QED
  BY <1>2, <1>3, <1>4 DEF PanelInv

\* Something landed: the others are late, and only owe a page in order.
LEMMA LandedStep ==
    ASSUME PanelInv, NEW p \in Polls, NEW CONSTANT a,
           Overtaken(p, a), UNCHANGED <<slot, server>>,
           a \in PollType, PollSound(a)',
           cursor' \in 0..MaxLines, shown' \in Seq(Entry), late' \in 0..MaxLate, ShownSound'
    PROVE  PanelInv'
<1>1. \A q \in Polls : poll[q] \in PollType /\ PollSound(poll[q])
  BY DEF PanelInv, PanelTypes
<1>2. \A q \in Polls : poll'[q] = IF q = p THEN a
                                   ELSE [poll[q] EXCEPT !.late = poll[q].pc # "idle"]
  BY DEF Overtaken
<1>3. poll' \in [Polls -> PollType]
  <2>1. \A q \in Polls : [poll[q] EXCEPT !.late = poll[q].pc # "idle"] \in PollType
    BY <1>1 DEF PollType
  <2> QED
    BY <1>2, <2>1 DEF Overtaken
<1>4. PanelTypes'
  BY <1>3 DEF PanelInv, PanelTypes, PollType, Entry
<1>5. ASSUME NEW q \in Polls PROVE PollSound(poll[q])'
  <2>1. CASE q = p
    BY <1>2, <2>1 DEF PollSound, PageSound, Continues
  <2>2. CASE q # p
    <3> PICK busy \in BOOLEAN : busy = (poll[q].pc # "idle")
      OBVIOUS
    <3>0. poll'[q] = [poll[q] EXCEPT !.late = busy] /\ poll[q] \in PollType
      BY <1>1, <1>2, <2>2
    <3>1. /\ poll'[q].pc = poll[q].pc /\ poll'[q].run = poll[q].run
          /\ poll'[q].since = poll[q].since /\ poll'[q].lines = poll[q].lines
          /\ poll'[q].next = poll[q].next /\ poll'[q].late = busy
      BY <3>0 DEF PollType
    <3>2. PageSound(poll[q]) => PageSound(poll[q])'
      BY <3>1 DEF PageSound
    <3>3. poll[q].pc = "answered" => PageSound(poll[q])
      BY <1>1 DEF PollSound
    <3>4. poll[q].pc # "idle" => poll'[q].late
      <4> SUFFICES ASSUME poll[q].pc # "idle" PROVE poll'[q].late
        OBVIOUS
      <4>1. busy = TRUE
        OBVIOUS
      <4> QED
        BY <3>1, <4>1
    <3> QED
      BY <3>1, <3>2, <3>3, <3>4 DEF PollSound
  <2> QED
    BY <2>1, <2>2
<1> QED
  BY <1>4, <1>5 DEF PanelInv

LEMMA QuietTyped ==
    ASSUME Inv
    PROVE  /\ Quiet \in PollType /\ Quiet.since = 0 /\ Quiet.pc = "idle"
           /\ [Quiet EXCEPT !.pc = "asked"] \in PollType
<1>1. << >> \in Seq(0..MaxLines) /\ 0 \in 0..MaxLines
  BY EmptySeq, ServerProcessAssumption
<1>2. 0 \in 0..slot
  BY DEF Inv, Shape
<1>3. Quiet \in PollType
  BY <1>1, <1>2 DEF Quiet, PollType
<1>4. [Quiet EXCEPT !.pc = "asked"] \in PollType
  BY <1>3 DEF PollType
<1> QED
  BY <1>3, <1>4 DEF Quiet

LEMMA AskKeepsPanel ==
    ASSUME Inv, PanelInv, NEW p \in Polls, Ask(p)
    PROVE  PanelInv'
<1> PICK a : a = [Quiet EXCEPT !.pc = "asked", !.since = cursor]
  OBVIOUS
<1>1. poll' = [poll EXCEPT ![p] = a] /\ UNCHANGED <<slot, server, cursor, shown, late>>
  BY DEF Ask
<1>2. a \in PollType /\ a.pc = "asked" /\ a.since = cursor
  BY QuietTyped DEF PanelInv, PanelTypes, PollType
<1>3. PollSound(a)'
  BY <1>1, <1>2 DEF PollSound
<1> QED
  BY <1>1, <1>2, <1>3, PollStep

LEMMA OpenLogsKeepsPanel ==
    ASSUME Inv, PanelInv, NEW p \in Polls, OpenLogs(p)
    PROVE  PanelInv'
<1> PICK a : a = [Quiet EXCEPT !.pc = "asked"]
  OBVIOUS
<1>1. /\ Overtaken(p, a) /\ UNCHANGED <<slot, server>>
      /\ cursor' = 0 /\ shown' = << >> /\ late' = 0
  BY DEF OpenLogs
<1>2. a \in PollType /\ a.pc = "asked" /\ a.since = 0
  BY QuietTyped DEF PollType
<1>3. Len(shown') = 0 /\ shown' \in Seq(Entry)
  BY <1>1, EmptySeq
<1>4. PollSound(a)'
  BY <1>1, <1>2 DEF PollSound
<1>5. ShownSound'
  BY <1>1, <1>3 DEF ShownSound, BeforeCursor
<1>6. cursor' \in 0..MaxLines /\ late' \in 0..MaxLate
  BY <1>1, ServerProcessAssumption
<1> QED
  BY <1>1, <1>2, <1>3, <1>4, <1>5, <1>6, LandedStep

LEMMA RespondKeepsPanel ==
    ASSUME Inv, BufferIsWindow, PanelInv, NEW p \in Polls, Respond(p)
    PROVE  PanelInv'
<1> DEFINE since == poll[p].since
           page  == IF slot = 0 THEN [lines |-> << >>, next |-> since]
                    ELSE Page(server[slot], since)
           lines == page.lines
           next  == page.next
           answer == [pc |-> "answered", since |-> since, run |-> slot,
                      lines |-> lines, next |-> next, late |-> poll[p].late]
<1>1. /\ poll' = [poll EXCEPT ![p] = answer] /\ UNCHANGED <<slot, server, cursor, shown, late>>
      /\ poll[p].pc = "asked"
  <2>1. /\ poll' = [poll EXCEPT ![p] = [pc |-> "answered", since |-> since, run |-> slot,
                                        lines |-> page.lines, next |-> page.next,
                                        late |-> @.late]]
        /\ UNCHANGED <<slot, server, cursor, shown, late>> /\ poll[p].pc = "asked"
    BY DEF Respond
  <2> QED
    BY <2>1 DEF PanelInv, PanelTypes
<1>2. /\ ~poll[p].late => since = cursor
      /\ BeforeCursor /\ since \in 0..MaxLines /\ since \in Nat
      /\ slot \in Nat /\ PanelTypes /\ ShownSound /\ poll[p].late \in BOOLEAN
  <2>1. poll[p] \in PollType /\ PollSound(poll[p])
    BY DEF PanelInv, PanelTypes
  <2>2. since \in 0..MaxLines /\ poll[p].late \in BOOLEAN
    BY <2>1 DEF PollType
  <2>3. ~poll[p].late => since = cursor
    BY <1>1, <2>1 DEF PollSound
  <2>4. since \in Nat /\ slot \in Nat /\ PanelTypes /\ ShownSound /\ BeforeCursor
    BY <2>2, ServerProcessAssumption DEF PanelInv, ShownSound, Inv, Shape
  <2> QED
    BY <2>2, <2>3, <2>4
<1>3. /\ lines \in Seq(0..MaxLines) /\ next \in 0..MaxLines
      /\ \A i \in 1..Len(lines) : slot # 0 /\ since <= lines[i] /\ lines[i] < next
                                  /\ lines[i] < server[slot].written
      /\ \A i, j \in 1..Len(lines) : i < j => lines[i] < lines[j]
      /\ slot # 0 => next = server[slot].written
  <2>1. CASE slot = 0
    <3>1. lines = << >> /\ next = since
      BY <2>1
    <3> HIDE DEF lines, next, since
    <3> QED
      BY <1>2, <2>1, <3>1, EmptySeq
  <2>2. CASE slot # 0
    <3>1. slot \in 1..slot /\ server[slot] \in Server /\ IsWindow(server[slot])
      BY <1>2, <2>2, RunTyped DEF BufferIsWindow, Runs, Inv
    <3>2. lines = Wanted(server[slot], since) /\ next = server[slot].written
      BY <2>2 DEF Page
    <3>3. server[slot].written \in 0..MaxLines
      BY <3>1 DEF Server
    <3> HIDE DEF lines, next, since
    <3> QED
      BY <1>2, <2>2, <3>1, <3>2, <3>3, WantedIs
  <2> QED
    BY <2>1, <2>2
<1> HIDE DEF page, lines, next, since
<1> PICK a : a = answer
  OBVIOUS
<1>4. /\ a \in PollType /\ a.pc = "answered" /\ a.since = since /\ a.run = slot
      /\ a.lines = lines /\ a.next = next /\ a.late = poll[p].late
  BY <1>2, <1>3 DEF PollType
<1> HIDE DEF answer
<1>5. ASSUME ~a.late, NEW i \in 1..Len(shown), shown[i][3] = late
      PROVE  shown[i][1] <= slot /\ (shown[i][1] = slot => shown[i][2] < since /\ shown[i][2] < next)
  <2>1. shown[i][1] \in 1..slot
    BY <1>2, ShownTyped
  <2>2. shown[i][1] = slot => shown[i][2] < since /\ shown[i][2] < server[slot].written
    BY <1>2, <1>4, <1>5 DEF BeforeCursor, ShownSound
  <2> QED
    BY <1>2, <1>3, <2>1, <2>2
<1>6. PageSound(a) /\ (~a.late => Continues(a))
  BY <1>3, <1>4, <1>5 DEF Continues, PageSound
<1>7. PollSound(a)'
  BY <1>1, <1>4, <1>6 DEF PollSound, Continues, PageSound
<1> QED
  BY <1>1, <1>4, <1>7, PollStep

LEMMA DeliverKeepsPanel ==
    ASSUME Inv, PanelInv, NEW p \in Polls, Deliver(p)
    PROVE  PanelInv'
<1> DEFINE a     == poll[p]
           fresh == [i \in DOMAIN a.lines |-> <<a.run, a.lines[i], late'>>]
           n     == Len(shown)
           k     == Len(a.lines)
<1>1. /\ Overtaken(p, Quiet) /\ UNCHANGED <<slot, server>>
      /\ cursor' = a.next /\ shown' = shown \o fresh /\ a.pc = "answered"
      /\ late' = (IF a.late THEN late + 1 ELSE late) /\ late' <= MaxLate
  BY DEF Deliver
<1>2. /\ a \in PollType /\ PageSound(a) /\ PanelTypes /\ ShownSound
      /\ ~a.late => Continues(a)
  BY <1>1 DEF PanelInv, PanelTypes, PollSound
<1>3. /\ a.lines \in Seq(0..MaxLines) /\ a.next \in 0..MaxLines /\ a.run \in 0..slot
      /\ slot \in Nat /\ k \in Nat /\ DOMAIN a.lines = 1..k
      /\ \A i \in 1..k : a.lines[i] \in 0..MaxLines
  BY <1>2, LenProperties, ElementOfSeq DEF PollType, Inv, Shape
<1>4. /\ late \in Nat /\ late' \in Nat /\ late' \in 0..MaxLate /\ late <= late'
      /\ late' = late <=> ~a.late
  BY <1>1, <1>2, ServerProcessAssumption DEF PanelTypes, PollType
<1>5. /\ fresh \in Seq(Entry) /\ Len(fresh) = k
      /\ \A i \in 1..k : fresh[i] = <<a.run, a.lines[i], late'>>
  <2>1. ASSUME NEW i \in 1..k PROVE <<a.run, a.lines[i], late'>> \in Entry
    <3>1. a.run \in 1..slot
      BY <1>2, <1>3 DEF PageSound
    <3> QED
      BY <1>3, <1>4, <3>1 DEF Entry
  <2> QED
    BY <1>3, <2>1
<1>6. shown \in Seq(Entry) /\ n \in Nat
  BY <1>2, ShownTyped DEF PanelTypes
<1> HIDE DEF fresh
<1>7. /\ shown' \in Seq(Entry) /\ Len(shown') = n + k
      /\ \A i \in 1..(n + k) : shown'[i] = IF i <= n THEN shown[i] ELSE fresh[i - n]
  <2>1. /\ shown \o fresh \in Seq(Entry) /\ Len(shown \o fresh) = Len(shown) + Len(fresh)
        /\ \A i \in 1..(Len(shown) + Len(fresh)) :
              (shown \o fresh)[i] = IF i <= Len(shown) THEN shown[i] ELSE fresh[i - Len(shown)]
    BY <1>5, <1>6, ConcatProperties
  <2> QED
    BY <1>1, <1>5, <2>1
<1>8. ASSUME NEW i \in 1..(n + k), i <= n
      PROVE  i \in 1..n /\ shown'[i] = shown[i]
  BY <1>3, <1>6, <1>7, <1>8
<1>9. ASSUME NEW i \in 1..(n + k), ~(i <= n)
      PROVE  /\ i - n \in 1..k
             /\ shown'[i][1] = a.run /\ shown'[i][2] = a.lines[i - n] /\ shown'[i][3] = late'
  <2>1. i - n \in 1..k
    BY <1>3, <1>6, <1>9
  <2>2. shown'[i] = <<a.run, a.lines[i - n], late'>>
    BY <1>5, <1>7, <1>9, <2>1
  <2> QED
    BY <2>1, <2>2
<1>10. ASSUME NEW i \in 1..n
       PROVE  /\ shown[i][1] \in Nat /\ shown[i][2] \in Nat /\ shown[i][3] \in Nat
              /\ shown[i][2] < server[shown[i][1]].written /\ shown[i][3] <= late
              /\ shown[i][3] = late' =>
                    /\ shown[i][1] <= a.run
                    /\ shown[i][1] = a.run => shown[i][2] < a.since /\ shown[i][2] < a.next
  <2>1. shown[i][1] \in 1..slot /\ shown[i][2] \in 0..MaxLines /\ shown[i][3] \in 0..MaxLate
    BY <1>2, ShownTyped
  <2>2. shown[i][1] \in Nat /\ shown[i][2] \in Nat /\ shown[i][3] \in Nat
    BY <1>3, <2>1, ServerProcessAssumption
  <2>3. shown[i][2] < server[shown[i][1]].written /\ shown[i][3] <= late
    BY <1>2 DEF ShownSound
  <2>4. shown[i][3] = late' => ~a.late /\ shown[i][3] = late
    BY <1>4, <2>2, <2>3
  <2> QED
    BY <1>2, <2>2, <2>3, <2>4 DEF Continues
<1>11. ASSUME NEW i \in 1..k
       PROVE  /\ a.run # 0 /\ a.since <= a.lines[i] /\ a.lines[i] < a.next
              /\ a.lines[i] < server[a.run].written /\ a.lines[i] \in Nat /\ a.since \in Nat
  <2>1. a.lines[i] \in Nat /\ a.since \in Nat
    BY <1>2, <1>3, ServerProcessAssumption DEF PollType
  <2> QED
    BY <1>2, <2>1 DEF PageSound
<1>12. ASSUME NEW i \in 1..(n + k), NEW j \in 1..(n + k), i < j
       PROVE  Earlier(shown'[i], shown'[j])
  <2>1. CASE j <= n
    <3>1. i <= n
      BY <1>3, <1>6, <1>12, <2>1
    <3> QED
      BY <1>2, <1>8, <1>12, <2>1, <3>1 DEF ShownSound
  <2>2. CASE ~(i <= n)
    <3>1. ~(j <= n) /\ i - n < j - n
      BY <1>3, <1>6, <1>12, <2>2
    <3>2. a.lines[i - n] < a.lines[j - n]
      BY <1>2, <1>9, <2>2, <3>1 DEF PageSound
    <3> QED
      BY <1>9, <2>2, <3>1, <3>2 DEF Earlier, Numbered
  <2>3. CASE i <= n /\ ~(j <= n)
    <3>1. /\ shown'[i] = shown[i] /\ i \in 1..n /\ j - n \in 1..k
          /\ shown'[j][1] = a.run /\ shown'[j][2] = a.lines[j - n] /\ shown'[j][3] = late'
      BY <1>8, <1>9, <2>3
    <3>2. /\ shown[i][1] \in Nat /\ shown[i][2] \in Nat /\ shown[i][3] \in Nat
          /\ shown[i][3] <= late
          /\ shown[i][3] = late' =>
                /\ shown[i][1] <= a.run
                /\ shown[i][1] = a.run => shown[i][2] < a.since
      BY <1>10, <3>1
    <3>3. a.since <= a.lines[j - n] /\ a.lines[j - n] \in Nat /\ a.since \in Nat /\ a.run \in Nat
      BY <1>3, <1>11, <3>1
    <3>4. shown[i][3] < late' \/ shown[i][3] = late'
      BY <1>4, <3>2
    <3>5. ASSUME shown[i][3] = late'
          PROVE  shown[i][1] < a.run \/ (shown[i][1] = a.run /\ shown[i][2] < a.lines[j - n])
      BY <3>2, <3>3, <3>5
    <3> QED
      BY <3>1, <3>4, <3>5 DEF Earlier, Numbered
  <2> QED
    BY <2>1, <2>2, <2>3
<1>13. ASSUME NEW i \in 1..(n + k)
       PROVE  shown'[i][2] < server[shown'[i][1]].written /\ shown'[i][3] <= late'
  <2>1. CASE i <= n
    <3>1. shown'[i] = shown[i] /\ i \in 1..n
      BY <1>8, <2>1
    <3> QED
      BY <1>4, <1>10, <3>1
  <2>2. CASE ~(i <= n)
    BY <1>4, <1>9, <1>11, <2>2
  <2> QED
    BY <2>1, <2>2
<1>14. ASSUME NEW i \in 1..(n + k), shown'[i][3] = late', shown'[i][1] = slot
       PROVE  shown'[i][2] < a.next
  <2>1. CASE i <= n
    <3>1. shown'[i] = shown[i] /\ i \in 1..n
      BY <1>8, <2>1
    <3>2. shown[i][1] <= a.run /\ shown[i][1] = slot
      BY <1>10, <1>14, <3>1
    <3>3. a.run = slot
      BY <1>3, <3>2
    <3> QED
      BY <1>10, <1>14, <3>1, <3>2, <3>3
  <2>2. CASE ~(i <= n)
    BY <1>9, <1>11, <2>2
  <2> QED
    BY <2>1, <2>2
<1>15. BeforeCursor'
  BY <1>1, <1>7, <1>14 DEF BeforeCursor
<1>16. ShownSound'
  BY <1>1, <1>7, <1>12, <1>13, <1>15 DEF ShownSound
<1>17. Quiet \in PollType /\ PollSound(Quiet)'
  BY QuietTyped DEF PollSound
<1>18. cursor' \in 0..MaxLines /\ shown' \in Seq(Entry)
  BY <1>1, <1>3, <1>7
<1> PICK quiet : quiet = Quiet
  OBVIOUS
<1> QED
  BY <1>1, <1>4, <1>16, <1>17, <1>18, LandedStep

LEMMA NextKeepsPanel ==
    ASSUME Inv, BufferIsWindow, PanelInv, [Next]_vars
    PROVE  PanelInv'
<1>1. CASE \/ \E c \in Callers : StartServer(c) \/ StopServer(c) \/ Command(c)
           \/ \E r \in Runs : Exit(r) \/ Reap(r) \/ PrintLine(r) \/ Push(r)
           \/ UNCHANGED vars
  <2>1. UNCHANGED <<poll, cursor, shown, late>>
    BY <1>1
    DEF vars, Command, StartServer, StopServer, Spawn, Probe, Terminate, WaitForDeath, Kill,
        Exit, Reap, PrintLine, Push
  <2>2. slot <= MaxRuns
    BY DEF PanelInv, PanelTypes
  <2> QED
    BY <1>1, <2>1, <2>2, RunsOnlyWrite, GrowthKeepsPanel
<1>2. ASSUME NEW p \in Polls, Ask(p) \/ OpenLogs(p) \/ Respond(p) \/ Deliver(p)
      PROVE  PanelInv'
  BY <1>2, AskKeepsPanel, OpenLogsKeepsPanel, RespondKeepsPanel, DeliverKeepsPanel
<1> QED
  BY <1>1, <1>2 DEF Next

\* However many polls of the log page overlap (pollLogs, LogBuffer::page), the shell
\* appends every line once and in order between two late answers, across evictions,
\* restarts of the server and openings of the page: an answer that nothing overtook finds
\* the cursor it asked with, and cursor and counter belong to the same run, or nothing of
\* that run is shown yet.
THEOREM LinesAreShownOnce == Spec => []ShownOnce
<1>1. Init => PanelInv
  <2> SUFFICES ASSUME Init PROVE PanelInv
    OBVIOUS
  <2>1. slot = 0 /\ cursor = 0 /\ shown = << >> /\ Len(shown) = 0 /\ late = 0
    BY EmptySeq DEF Init
  <2>2. Inv
    BY InitEstablishes
  <2>3. Quiet \in PollType /\ Quiet.pc = "idle" /\ poll = [p \in Polls |-> Quiet]
    BY <2>2, QuietTyped DEF Init
  <2>4. PanelTypes
    BY <2>1, <2>3, EmptySeq, ServerProcessAssumption DEF PanelTypes
  <2>5. \A p \in Polls : PollSound(poll[p])
    BY <2>1, <2>3 DEF PollSound
  <2>6. ShownSound
    BY <2>1 DEF ShownSound, BeforeCursor
  <2> QED
    BY <2>4, <2>5, <2>6 DEF PanelInv
<1>2. Inv /\ BufferIsWindow /\ PanelInv /\ [Next]_vars => PanelInv'
  BY NextKeepsPanel
<1>3. Inv /\ PanelInv => ShownOnce
  BY PanelShownOnce
<1> QED
  BY <1>1, <1>2, <1>3, Invariance, LogsAreWindow, PTL DEF Spec

-----------------------------------------------------------------------------
(* ConfigEditor.                                                            *)

\* A write is described by its four fields, and names one of the files.
Saver ==
    /\ saver = [pc |-> saver.pc, layer |-> saver.layer, text |-> saver.text, via |-> saver.via]
    /\ saver.layer \in Layers

\* The page keeps its six fields and shows one of the files.
Editor ==
    /\ shell = [file |-> shell.file, mode |-> shell.mode, failed |-> shell.failed,
                loads |-> shell.loads, text |-> shell.text, from |-> shell.from]
    /\ shell.file \in Layers

Disk == disk = [l \in Layers |-> disk[l]]

UnderWay == ~foreign /\ saver.pc # "idle" => PairOK([disk EXCEPT ![saver.layer] = saver.text])

PromiseInv == Saver /\ Editor /\ Disk /\ foreign \in BOOLEAN /\ UnderWay

LEMMA PromiseInit == EditorInit => PromiseInv
<1> SUFFICES ASSUME EditorInit PROVE PromiseInv
  OBVIOUS
<1>1. Saver /\ UnderWay
  BY DEF EditorInit, Saver, UnderWay, Idle, Layers
<1>2. Editor
  BY DEF EditorInit, Editor, Opened, Layers
<1>3. Disk /\ foreign \in BOOLEAN
  BY DEF EditorInit, Disk
<1> QED BY <1>1, <1>2, <1>3 DEF PromiseInv

\* The steps of the page leave the files and the write alone.
PageStep ==
    \/ \E l \in Layers, m \in Modes : Select(l, m)
    \/ AnswerLoad \/ AnswerFails \/ TypeText \/ TypeField

LEMMA PageIdle ==
    ASSUME Editor, PageStep
    PROVE  Editor' /\ UNCHANGED <<disk, backups, saver, lost, crossed, foreign>>
<1>1. ASSUME NEW l \in Layers, NEW m \in Modes, Select(l, m)
      PROVE  Editor' /\ UNCHANGED <<disk, backups, saver, lost, crossed, foreign>>
  BY <1>1 DEF Editor, Select, Asked
<1>2. CASE AnswerLoad
  BY <1>2 DEF Editor, AnswerLoad
<1>3. CASE AnswerFails
  BY <1>3 DEF Editor, AnswerFails
<1>4. CASE TypeText \/ TypeField
  BY <1>4 DEF Editor, TypeText, TypeField
<1> QED BY <1>1, <1>2, <1>3, <1>4 DEF PageStep

\* Every save is a Write of one of the files.
SaveStep == SaveRaw \/ SaveForm \/ Restore

LEMMA SaveWrites ==
    ASSUME Editor, SaveStep
    PROVE  \E l \in Layers : \E t, v : Write(l, t, v)
  BY DEF Editor, SaveStep, SaveRaw, SaveForm, Restore

LEMMA WriteKeeps ==
    ASSUME PromiseInv, NEW l \in Layers, NEW t, NEW v, Write(l, t, v)
    PROVE  PromiseInv'
  BY DEF PromiseInv, Saver, Editor, Disk, UnderWay, Write, PairAccepted, Layers

LEMMA PromiseStep == PromiseInv /\ [EditorNext]_editorVars => PromiseInv'
<1> SUFFICES ASSUME PromiseInv, [EditorNext]_editorVars PROVE PromiseInv'
  OBVIOUS
<1>1. CASE UNCHANGED editorVars
  BY <1>1 DEF editorVars, PromiseInv, Saver, Editor, Disk, UnderWay
<1>2. CASE PageStep
  BY <1>2, PageIdle DEF PromiseInv, Saver, Disk, UnderWay
<1>3. CASE SaveStep
  <2>1. \E l \in Layers : \E t, v : Write(l, t, v)
    BY <1>3, SaveWrites DEF PromiseInv
  <2> QED BY <2>1, WriteKeeps
<1>4. CASE Backup
  BY <1>4 DEF Backup, PromiseInv, Saver, Editor, Disk, UnderWay
<1>5. CASE Replace
  BY <1>5 DEF Replace, PromiseInv, Saver, Editor, Disk, UnderWay, Idle, Layers
<1>6. CASE WriteFails
  BY <1>6 DEF WriteFails, PromiseInv, Saver, Editor, Disk, UnderWay, Idle, Layers
<1>7. CASE ManagerDies
  BY <1>7 DEF ManagerDies, PromiseInv, Saver, Editor, Disk, UnderWay, Idle, Opened, Layers
<1>8. CASE ForeignEdit
  BY <1>8 DEF ForeignEdit, PromiseInv, Saver, Editor, Disk, UnderWay
<1> QED BY <1>1, <1>2, <1>3, <1>4, <1>5, <1>6, <1>7, <1>8 DEF EditorNext, PageStep, SaveStep

\* A step of the editor is a step of the store, or none.
LEMMA StoreStep == PromiseInv /\ [EditorNext]_editorVars => [Files!FilesNext]_<<disk, foreign>>
<1> SUFFICES ASSUME PromiseInv, [EditorNext]_editorVars PROVE [Files!FilesNext]_<<disk, foreign>>
  OBVIOUS
<1>1. CASE UNCHANGED editorVars
  BY <1>1 DEF editorVars
<1>2. CASE PageStep
  BY <1>2, PageIdle DEF PromiseInv
<1>3. CASE SaveStep
  BY <1>3, SaveWrites DEF PromiseInv, Write
<1>4. CASE Backup \/ WriteFails \/ ManagerDies
  BY <1>4 DEF Backup, WriteFails, ManagerDies
<1>5. CASE Replace
  <2> DEFINE l == saver.layer
  <2>1. l \in Layers /\ disk' = [disk EXCEPT ![l] = saver.text] /\ UNCHANGED foreign
    BY <1>5 DEF Replace, PromiseInv, Saver
  <2>2. disk'[l] = saver.text
    BY <2>1 DEF PromiseInv, Disk
  <2>3. foreign \/ PairOK([disk EXCEPT ![l] = disk'[l]])
    BY <1>5, <2>2 DEF Replace, PromiseInv, UnderWay
  <2>4. Files!Save(l, disk'[l])
    BY <2>1, <2>2, <2>3 DEF Files!Save, Files!Replaced
  <2> QED BY <2>1, <2>4 DEF Files!FilesNext
<1>6. CASE ForeignEdit
  <2>1. PICK l \in Layers, t \in Texts \cup {Malformed} : disk' = [disk EXCEPT ![l] = t]
    BY <1>6 DEF ForeignEdit
  <2>2. disk'[l] = t
    BY <2>1 DEF PromiseInv, Disk
  <2>3. Files!OthersWrite(l, disk'[l])
    BY <1>6, <2>1, <2>2 DEF ForeignEdit, Files!OthersWrite, Files!Replaced
  <2> QED BY <2>1, <2>3 DEF Files!FilesNext
<1> QED BY <1>1, <1>2, <1>3, <1>4, <1>5, <1>6 DEF EditorNext, PageStep, SaveStep

\* The editor implements the store: whatever is typed, and wherever a write fails or
\* the manager dies, the files on the disk change one at a time, at once, and into a
\* pair that the server accepts (config_manager.rs: validate before write_raw).
THEOREM PromiseKept == EditorSpec => KeepsThePromise
<1>1. EditorInit => Files!FilesInit
  BY DEF EditorInit, Files!FilesInit
<1> QED BY <1>1, PromiseInit, PromiseStep, StoreStep, PTL
        DEF EditorSpec, KeepsThePromise, Files!FilesSpec

\* A write past its backup has one of the file it is about to replace.
BackedUp ==
    /\ backups = [l \in Layers |-> backups[l]]
    /\ crossed \in BOOLEAN
    /\ saver.pc = "replace" /\ ~crossed =>
           disk[saver.layer] \in backups[saver.layer] \cup {Missing}
    /\ lost = {} \/ crossed

LEMMA BackedUpInit == EditorInit => BackedUp
<1> SUFFICES ASSUME EditorInit PROVE BackedUp
  OBVIOUS
<1>1. backups = [l \in Layers |-> backups[l]]
  BY DEF EditorInit
<1>2. saver.pc = "idle" /\ crossed = FALSE /\ lost = {}
  BY DEF EditorInit, Idle
<1> QED BY <1>1, <1>2 DEF BackedUp

LEMMA BackedUpStep ==
    PromiseInv /\ BackedUp /\ [EditorNext]_editorVars => BackedUp'
<1> SUFFICES ASSUME PromiseInv, BackedUp, [EditorNext]_editorVars PROVE BackedUp'
  OBVIOUS
<1> USE DEF BackedUp
<1>1. CASE UNCHANGED editorVars
  BY <1>1 DEF editorVars
<1>2. CASE PageStep
  BY <1>2, PageIdle DEF PromiseInv
<1>3. CASE SaveStep
  BY <1>3, SaveWrites DEF PromiseInv, Write
<1>4. CASE Backup
  BY <1>4 DEF Backup, Exists, BackupText, PromiseInv, Saver
<1>5. CASE Replace
  BY <1>5 DEF Replace, Idle
<1>6. CASE WriteFails
  BY <1>6 DEF WriteFails, CopyCutShort, Idle
<1>7. CASE ManagerDies
  BY <1>7 DEF ManagerDies, CopyCutShort, Idle
<1>8. CASE ForeignEdit
  BY <1>8 DEF ForeignEdit, PromiseInv, Saver, Disk
<1> QED BY <1>1, <1>2, <1>3, <1>4, <1>5, <1>6, <1>7, <1>8 DEF EditorNext, PageStep, SaveStep

-----------------------------------------------------------------------------
(* ConfigEditor: what a save writes.                                        *)

LoadRequest == [file : Layers, mode : Modes]

\* The loads that wait are for a layer and a widget, the last of them for the
\* layer and the widget on display.
LoadsAreCurrent ==
    /\ shell.mode \in Modes
    /\ shell.from = [m \in Modes |-> shell.from[m]]
    /\ shell.loads \in Seq(LoadRequest)
    /\ shell.loads # <<>> =>
           shell.loads[Len(shell.loads)] = [file |-> shell.file, mode |-> shell.mode]

\* With nothing waiting and the last load good, the widget holds its own layer.
WidgetIsOwn ==
    \/ shell.from[shell.mode] = shell.file
    \/ shell.loads # <<>>
    \/ shell.failed

PageInv == PromiseInv /\ LoadsAreCurrent /\ WidgetIsOwn

LEMMA PageOpened == ASSUME shell = Opened PROVE LoadsAreCurrent /\ WidgetIsOwn
<1>1. /\ shell.mode = "form" /\ shell.file = "base"
      /\ shell.loads = <<[file |-> "base", mode |-> "form"]>>
      /\ shell.from = [m \in Modes |-> "none"]
  BY DEF Opened
<1>2. shell.loads \in Seq(LoadRequest)
  BY <1>1 DEF LoadRequest, Layers, Modes
<1>3. LoadsAreCurrent
  BY <1>1, <1>2 DEF LoadsAreCurrent, Modes
<1>4. WidgetIsOwn
  BY <1>1 DEF WidgetIsOwn
<1> QED BY <1>3, <1>4

\* A sequence and its first element gone.
LEMMA Answered ==
  ASSUME NEW L, NEW q \in Seq(L), q # <<>>
  PROVE  /\ Head(q) \in L /\ Tail(q) \in Seq(L)
         /\ Tail(q) # <<>> => Tail(q)[Len(Tail(q))] = q[Len(q)]
         /\ Tail(q) = <<>> => Head(q) = q[Len(q)]
<1>1. Len(q) \in Nat /\ Len(q) > 0 /\ Head(q) = q[1] /\ q[1] \in L
  OBVIOUS
<1>2. /\ Tail(q) \in Seq(L) /\ Len(Tail(q)) = Len(q) - 1
      /\ \A i \in 1..Len(q) - 1 : Tail(q)[i] = q[i + 1]
  OBVIOUS
<1>3. CASE Len(q) = 1
  <2>1. Len(Tail(q)) = 0
    BY <1>2, <1>3
  <2>2. Tail(q) = <<>>
    BY <1>2, <2>1, EmptySeq
  <2> QED BY <1>1, <1>2, <1>3, <2>2
<1>4. CASE Len(q) > 1
  <2>1. Len(Tail(q)) = Len(q) - 1 /\ Tail(q) # <<>>
    BY <1>1, <1>2, <1>4
  <2>2. Tail(q)[Len(q) - 1] = q[Len(q)]
    BY <1>1, <1>2, <1>4
  <2> QED BY <1>1, <1>2, <2>1, <2>2
<1> QED BY <1>1, <1>3, <1>4

LEMMA PageShows ==
  ASSUME PageInv, PageStep
  PROVE  LoadsAreCurrent' /\ WidgetIsOwn'
<1>0. Editor /\ LoadsAreCurrent /\ WidgetIsOwn
  BY DEF PageInv, PromiseInv
<1>1. ASSUME NEW l \in Layers, NEW m \in Modes, Select(l, m)
      PROVE  LoadsAreCurrent' /\ WidgetIsOwn'
  <2>1. /\ shell'.file = l /\ shell'.mode = m /\ shell'.from = shell.from
        /\ shell'.loads = Append(shell.loads, [file |-> l, mode |-> m])
    BY <1>0, <1>1 DEF Editor, Select, Asked
  <2>2. [file |-> l, mode |-> m] \in LoadRequest
    BY DEF LoadRequest
  <2>3. /\ shell'.loads \in Seq(LoadRequest) /\ shell'.loads # <<>>
        /\ shell'.loads[Len(shell'.loads)] = [file |-> l, mode |-> m]
    BY <1>0, <2>1, <2>2 DEF LoadsAreCurrent
  <2> QED BY <1>0, <2>1, <2>3 DEF LoadsAreCurrent, WidgetIsOwn
<1>2. CASE AnswerLoad
  <2> DEFINE q == shell.loads
             load == Head(q)
  <2>1. /\ q # <<>> /\ q \in Seq(LoadRequest)
        /\ shell'.file = shell.file /\ shell'.mode = shell.mode
        /\ shell'.loads = Tail(q)
        /\ shell'.from = [shell.from EXCEPT ![load.mode] = load.file]
    BY <1>0, <1>2 DEF Editor, AnswerLoad, LoadsAreCurrent
  <2>2. /\ load \in LoadRequest /\ Tail(q) \in Seq(LoadRequest)
        /\ Tail(q) # <<>> => Tail(q)[Len(Tail(q))] = q[Len(q)]
        /\ Tail(q) = <<>> => load = q[Len(q)]
    BY <2>1, Answered
  <2>3. q[Len(q)] = [file |-> shell.file, mode |-> shell.mode]
    BY <1>0, <2>1 DEF LoadsAreCurrent
  <2> HIDE DEF q, load
  <2>4. load.mode \in Modes /\ load.file \in Layers
    BY <2>2 DEF LoadRequest
  <2>5. /\ shell'.from = [m \in Modes |-> shell'.from[m]]
        /\ shell'.from[load.mode] = load.file
    BY <1>0, <2>1, <2>4 DEF LoadsAreCurrent
  <2>6. LoadsAreCurrent'
    BY <1>0, <2>1, <2>2, <2>3, <2>5 DEF LoadsAreCurrent
  <2>7. WidgetIsOwn'
    BY <2>1, <2>2, <2>3, <2>5 DEF WidgetIsOwn
  <2> QED BY <2>6, <2>7
<1>3. CASE AnswerFails
  <2> DEFINE q == shell.loads
  <2>1. /\ q # <<>> /\ q \in Seq(LoadRequest)
        /\ shell'.file = shell.file /\ shell'.mode = shell.mode
        /\ shell'.loads = Tail(q) /\ shell'.failed = TRUE
        /\ shell'.from = shell.from
    BY <1>0, <1>3 DEF Editor, AnswerFails, LoadsAreCurrent
  <2>2. /\ Tail(q) \in Seq(LoadRequest)
        /\ Tail(q) # <<>> => Tail(q)[Len(Tail(q))] = q[Len(q)]
    BY <2>1, Answered
  <2>3. q[Len(q)] = [file |-> shell.file, mode |-> shell.mode]
    BY <1>0, <2>1 DEF LoadsAreCurrent
  <2> HIDE DEF q
  <2> QED BY <1>0, <2>1, <2>2, <2>3 DEF LoadsAreCurrent, WidgetIsOwn
<1>4. CASE TypeText \/ TypeField
  <2>1. /\ shell'.file = shell.file /\ shell'.mode = shell.mode
        /\ shell'.loads = shell.loads /\ shell'.failed = shell.failed
        /\ shell'.from = shell.from
    BY <1>0, <1>4 DEF Editor, TypeText, TypeField
  <2> QED BY <1>0, <2>1 DEF LoadsAreCurrent, WidgetIsOwn
<1> QED BY <1>1, <1>2, <1>3, <1>4 DEF PageStep

\* Only the page's steps and a restart of the manager change what is shown; only a
\* save begins a write, of the layer and from the widget on display.
LEMMA PageKept == PageInv /\ [EditorNext]_editorVars => PageInv' /\ [OwnTextSaved]_editorVars
<1> SUFFICES ASSUME PageInv, [EditorNext]_editorVars
             PROVE  PageInv' /\ OwnTextSaved
  OBVIOUS
<1>0. PromiseInv /\ Saver /\ Editor /\ LoadsAreCurrent /\ WidgetIsOwn
  BY DEF PageInv, PromiseInv
<1>i. PromiseInv'
  BY <1>0, PromiseStep
<1>s. ASSUME shell' = shell PROVE LoadsAreCurrent' /\ WidgetIsOwn'
  BY <1>s, <1>0 DEF LoadsAreCurrent, WidgetIsOwn
<1>q. ASSUME saver' = saver \/ saver'.pc # "backup" PROVE OwnTextSaved
  BY <1>q DEF OwnTextSaved
<1>1. CASE UNCHANGED editorVars
  BY <1>1, <1>i, <1>s, <1>q DEF editorVars, PageInv
<1>2. CASE PageStep
  <2>1. saver' = saver
    BY <1>0, <1>2, PageIdle
  <2> QED BY <1>2, <2>1, <1>i, <1>q, PageShows DEF PageInv
<1>3. CASE SaveRaw \/ SaveForm \/ Restore
  <2>1. shell' = shell
    BY <1>3 DEF SaveRaw, SaveForm, Restore, Write
  <2>2. \/ saver'.via = "restore"
        \/ saver'.via = shell.mode /\ saver'.layer = shell.file
    BY <1>3 DEF SaveRaw, SaveForm, Restore, Write
  <2>3. OwnTextSaved
    BY <2>2, <1>0 DEF OwnTextSaved, WidgetIsOwn, Modes
  <2> QED BY <2>1, <2>3, <1>s, <1>i DEF PageInv
<1>4. CASE Backup \/ Replace \/ WriteFails \/ ForeignEdit
  <2>1. shell' = shell
    BY <1>4 DEF Backup, Replace, WriteFails, ForeignEdit
  <2>2. saver' = saver \/ saver'.pc # "backup"
    BY <1>0, <1>4 DEF Backup, Replace, WriteFails, ForeignEdit, Saver, Idle
  <2> QED BY <2>1, <2>2, <1>s, <1>q, <1>i DEF PageInv
<1>5. CASE ManagerDies
  <2>1. shell' = Opened /\ saver' = Idle
    BY <1>5 DEF ManagerDies
  <2>2. LoadsAreCurrent' /\ WidgetIsOwn'
    <3>1. (shell = Opened => LoadsAreCurrent /\ WidgetIsOwn)'
      BY PageOpened, PTL
    <3>2. Opened' = Opened
      BY DEF Opened
    <3> QED BY <2>1, <3>1, <3>2
  <2>3. saver'.pc # "backup"
    BY <2>1 DEF Idle
  <2> QED BY <2>2, <2>3, <1>q, <1>i DEF PageInv
<1> QED BY <1>1, <1>2, <1>3, <1>4, <1>5 DEF EditorNext, PageStep

\* Switching layers or modes asks for the widget again and saving writes the layer
\* on display, so that no save writes another layer's text once the load that was
\* asked for last has been answered.
THEOREM SavesAreOwn == EditorSpec => SavesWhatWasShown
<1>1. EditorInit => PageInv
  BY PromiseInit, PageOpened DEF EditorInit, PageInv
<1> QED BY <1>1, PageKept, PTL DEF EditorSpec, SavesWhatWasShown

-----------------------------------------------------------------------------
(* ConfigEditor: what was replaced.                                         *)

\* A file holds a text that parses or one that does not; what is about to be
\* written was validated; the page waits for no more loads than its buttons allow.
Typed ==
    /\ backups = [l \in Layers |-> backups[l]]
    /\ \A l \in Layers : disk[l] \in {Missing, Malformed} \/ Parses(disk[l])
    /\ Len(shell.loads) <= MaxLoads
    /\ saver.pc \in {"idle", "backup", "replace"}
    /\ saver.pc # "idle" => saver.text = Missing \/ Parses(saver.text)

\* A pair that is accepted parses.
LEMMA AcceptedParses ==
  ASSUME NEW f, PairOK(f), NEW l \in Layers
  PROVE  f[l] = Missing \/ Parses(f[l])
BY DEF PairOK, Accepts, Loads, TextOf, Layers

LEMMA TypedInit == EditorInit => Typed
<1> SUFFICES ASSUME EditorInit PROVE Typed
  OBVIOUS
<1>1. \A l \in Layers : disk[l] \in {Missing, Malformed} \/ Parses(disk[l])
  BY EditorAssumption DEF EditorInit
<1>2. shell.loads = <<[file |-> "base", mode |-> "form"]>>
  BY DEF EditorInit, Opened
<1>3. Len(shell.loads) <= MaxLoads
  BY <1>2, EditorAssumption
<1> QED BY <1>1, <1>3 DEF Typed, EditorInit, Idle

LEMMA TypedStep == PageInv /\ Typed /\ [EditorNext]_editorVars => Typed'
<1> SUFFICES ASSUME PageInv, Typed, [EditorNext]_editorVars PROVE Typed'
  OBVIOUS
<1>0. PromiseInv /\ Saver /\ Editor /\ Disk /\ LoadsAreCurrent
  BY DEF PageInv, PromiseInv
<1>1. CASE UNCHANGED editorVars
  BY <1>1 DEF editorVars, Typed
<1>2. CASE PageStep
  <2>1. UNCHANGED <<disk, backups, saver>>
    BY <1>0, <1>2, PageIdle
  <2> SUFFICES Len(shell'.loads) <= MaxLoads
    BY <2>1 DEF Typed
  <2>2. ASSUME NEW l \in Layers, NEW m \in Modes, Select(l, m)
        PROVE  Len(shell'.loads) <= MaxLoads
    <3>1. /\ Len(shell.loads) < MaxLoads
          /\ shell'.loads = Append(shell.loads, [file |-> l, mode |-> m])
      BY <1>0, <2>2 DEF Editor, Select, Asked
    <3> QED BY <1>0, <3>1, EditorAssumption DEF LoadsAreCurrent
  <2>3. CASE AnswerLoad \/ AnswerFails
    <3>1. shell.loads # <<>> /\ shell'.loads = Tail(shell.loads)
      BY <1>0, <2>3 DEF Editor, AnswerLoad, AnswerFails
    <3> QED BY <1>0, <3>1, EditorAssumption DEF LoadsAreCurrent, Typed
  <2>4. CASE TypeText \/ TypeField
    <3>1. shell'.loads = shell.loads
      BY <1>0, <2>4 DEF Editor, TypeText, TypeField
    <3> QED BY <3>1 DEF Typed
  <2> QED BY <1>2, <2>2, <2>3, <2>4 DEF PageStep
<1>3. CASE SaveRaw \/ SaveForm \/ Restore
  <2>1. PICK layer, text, via : layer \in Layers /\ Write(layer, text, via)
    BY <1>0, <1>3 DEF SaveRaw, SaveForm, Restore, Editor
  <2>2. layer \in Layers /\ [disk EXCEPT ![layer] = text][layer] = text
    BY <1>0, <2>1 DEF Disk
  <2>3. text = Missing \/ Parses(text)
    BY <2>1, <2>2, AcceptedParses DEF Write, PairAccepted
  <2> QED BY <2>1, <2>3 DEF Write, Typed
<1>4. CASE Backup
  <2>1. saver'.pc = "replace" /\ saver'.text = saver.text
    BY <1>0, <1>4 DEF Backup, Saver
  <2>2. backups' = [l \in Layers |-> backups'[l]]
    BY <1>4 DEF Backup, Typed
  <2>3. disk' = disk /\ shell' = shell /\ saver.pc = "backup"
    BY <1>4 DEF Backup
  <2> QED BY <2>1, <2>2, <2>3 DEF Typed
<1>5. CASE Replace
  <2>1. \A l \in Layers : disk'[l] = disk[l] \/ disk'[l] = saver.text
    BY <1>0, <1>5 DEF Replace, Disk
  <2>2. saver.pc = "replace" /\ saver'.pc = "idle" /\ UNCHANGED <<backups, shell>>
    BY <1>5 DEF Replace, Idle
  <2> QED BY <2>1, <2>2 DEF Typed
<1>6. CASE WriteFails
  <2>1. backups' = [l \in Layers |-> backups'[l]]
    BY <1>6 DEF WriteFails, CopyCutShort, Typed
  <2>2. UNCHANGED <<disk, shell>> /\ saver'.pc = "idle"
    BY <1>6 DEF WriteFails, Idle
  <2> QED BY <2>1, <2>2 DEF Typed
<1>7. CASE ManagerDies
  <2>1. backups' = [l \in Layers |-> backups'[l]]
    BY <1>7 DEF ManagerDies, CopyCutShort, Typed
  <2>2. disk' = disk /\ saver'.pc = "idle"
    BY <1>7 DEF ManagerDies, Idle
  <2>3. shell'.loads = <<[file |-> "base", mode |-> "form"]>>
    BY <1>7 DEF ManagerDies, Opened
  <2>4. Len(shell'.loads) <= MaxLoads
    BY <2>3, EditorAssumption
  <2> QED BY <2>1, <2>2, <2>4 DEF Typed
<1>8. CASE ForeignEdit
  <2>1. PICK l \in Layers, t \in Texts \cup {Malformed} : disk' = [disk EXCEPT ![l] = t]
    BY <1>8 DEF ForeignEdit
  <2>2. \A k \in Layers : disk'[k] = disk[k] \/ disk'[k] = t
    BY <1>0, <2>1 DEF Disk
  <2>3. t = Malformed \/ Parses(t)
    BY EditorAssumption
  <2>4. UNCHANGED <<backups, shell, saver>>
    BY <1>8 DEF ForeignEdit
  <2> QED BY <2>2, <2>3, <2>4 DEF Typed
<1> QED BY <1>1, <1>2, <1>3, <1>4, <1>5, <1>6, <1>7, <1>8 DEF EditorNext, PageStep

\* Wherever the manager fails or dies, what a save or a restore replaced is among
\* the backups, unless somebody else wrote the file after its backup was taken.
THEOREM ReplacedIsKept == EditorSpec => []NothingLost
<1>1. EditorInit => PageInv
  BY PromiseInit, PageOpened DEF EditorInit, PageInv
<1>2. PageInv /\ Typed /\ BackedUp => NothingLost
  <2> SUFFICES ASSUME PageInv, Typed, BackedUp PROVE NothingLost
    OBVIOUS
  <2>1. shell.loads \in Seq(LoadRequest) /\ shell.mode \in Modes
    BY DEF PageInv, LoadsAreCurrent
  <2>2. Len(shell.loads) \in 0..MaxLoads
    BY <2>1, EditorAssumption DEF Typed
  <2>3. DOMAIN disk = Layers /\ DOMAIN backups = Layers
    BY DEF PageInv, PromiseInv, Disk, Typed
  <2>4. shell.file \in Layers /\ saver.layer \in Layers
    BY DEF PageInv, PromiseInv, Editor, Saver
  <2>5. EditorTypeOK
    BY <2>1, <2>2, <2>3, <2>4 DEF EditorTypeOK, Typed
  <2> QED BY <2>5 DEF BackedUp, NothingLost
<1>3. PageInv /\ [EditorNext]_editorVars => PageInv'
  BY PageKept
<1>4. PageInv => PromiseInv
  BY DEF PageInv
<1> QED BY <1>1, <1>2, <1>3, <1>4, TypedInit, TypedStep, BackedUpInit, BackedUpStep, PTL
        DEF EditorSpec

-----------------------------------------------------------------------------
(* Takeover.                                                                *)

\* What is left to kill was listed, and everything listed ran the server: since
\* then it may only have ended, unless the system gave its pid away again.
TakeoverInv ==
    /\ OnlyServersKilled
    /\ takeover = [pc |-> takeover.pc, pids |-> takeover.pids,
                   images |-> takeover.images, looks |-> takeover.looks]
    /\ takeover.pc = "kill" => DOMAIN takeover.images \subseteq takeover.pids
    /\ takeover.pc = "idle" => killed = {}

Slots == Process \cup {Nobody}

LEMMA ProcessFields ==
  /\ Nobody.image = "none" /\ Nobody.listens = FALSE /\ Nobody \in Slots
  /\ \A x \in Process : x.image \in Programs /\ x \in Slots /\ x # Nobody
  /\ \A x \in Slots : x # Nobody => x \in Process
  /\ [image |-> "server", listens |-> TRUE, parent |-> System] \in Process
BY DEF Process, Nobody, Programs, Slots

\* The system's own steps: processes end, and a pid given away is remembered.
LEMMA SystemStep ==
  ASSUME TakeoverInv, NEW p \in Pids, Appear(p) \/ Vanish(p)
  PROVE  TakeoverInv'
<1>1. /\ UNCHANGED <<banner, takeover, killed>>
      /\ procs \in [Pids -> Slots] /\ procs' \in [Pids -> Slots]
      /\ reborn' \subseteq Pids
      /\ takeover.pc # "idle" =>
            /\ reborn \subseteq reborn'
            /\ \A q \in Pids \ reborn' : procs'[q] = procs[q] \/ procs'[q] = Nobody
  <2>1. procs \in [Pids -> Slots] /\ reborn \subseteq Pids
    BY DEF TakeoverInv, OnlyServersKilled, TakeoverTypeOK, Slots
  <2>2. CASE Vanish(p)
    BY <2>1, <2>2, ProcessFields DEF Vanish
  <2>3. CASE Appear(p)
    <3>1. PICK x \in Process : procs' = [procs EXCEPT ![p] = x]
      BY <2>3 DEF Appear
    <3>2. UNCHANGED <<banner, takeover, killed>>
          /\ reborn' = IF takeover.pc = "idle" THEN {} ELSE reborn \cup {p}
      BY <2>3 DEF Appear
    <3>3. procs' \in [Pids -> Slots] /\ \A q \in Pids \ {p} : procs'[q] = procs[q]
      BY <2>1, <3>1, ProcessFields
    <3> QED BY <2>1, <3>2, <3>3
  <2> QED BY <2>2, <2>3
<1>2. TakeoverTypeOK'
  BY <1>1 DEF TakeoverInv, OnlyServersKilled, TakeoverTypeOK, Slots
<1>3. ASSUME takeover.pc \in {"kill", "wait"}, NEW q \in takeover.pids \ reborn'
      PROVE  procs'[q].image # "other"
  BY <1>1, <1>3, ProcessFields DEF TakeoverInv, OnlyServersKilled, TakeoverTypeOK
<1>4. \A k \in killed : k.owner \in takeover.pids /\ (k.runs = "server" \/ k.owner \in reborn')
  BY <1>1 DEF TakeoverInv, OnlyServersKilled
<1>5. OnlyServersKilled'
  BY <1>1, <1>2, <1>3, <1>4 DEF OnlyServersKilled
<1> QED BY <1>1, <1>5 DEF TakeoverInv

\* The manager's looks: neither a process nor the record of the kills changes.
LEMMA LookStep ==
  ASSUME TakeoverInv, UNCHANGED <<procs, killed, reborn>>, banner' \in {"none", "conflict", "offer"},
         NEW t, takeover' = t, t = [pc |-> t.pc, pids |-> t.pids, images |-> t.images, looks |-> t.looks],
         t.pc \in {"named", "kill", "wait", "start", "spawn"},
         t.pids \subseteq Pids, t.looks \in 0..MaxLooks,
         killed # {} => t.pids = takeover.pids,
         t.pc = "kill" => DOMAIN t.images \subseteq t.pids,
         t.pc \in {"kill", "wait"} => \A p \in t.pids \ reborn : procs[p].image # "other"
  PROVE  TakeoverInv'
BY DEF TakeoverInv, OnlyServersKilled, TakeoverTypeOK

\* The command ends, with or without a server of its own.
LEMMA FinishStep ==
  ASSUME TakeoverInv, Finish, banner' \in {"none", "conflict", "offer"}, procs' \in [Pids -> Slots]
  PROVE  TakeoverInv'
<1>1. /\ takeover'.pc = "idle" /\ takeover'.pids = {} /\ takeover'.looks = 0
      /\ takeover' = [pc |-> takeover'.pc, pids |-> takeover'.pids,
                      images |-> takeover'.images, looks |-> takeover'.looks]
      /\ killed' = {} /\ reborn' = {}
  BY DEF Finish, Resting
<1> QED BY <1>1, TakeoverAssumption DEF TakeoverInv, OnlyServersKilled, TakeoverTypeOK, Slots

LEMMA TakeoverStep == TakeoverInv /\ [TakeoverNext]_takeoverVars => TakeoverInv'
<1> SUFFICES ASSUME TakeoverInv, [TakeoverNext]_takeoverVars PROVE TakeoverInv'
  OBVIOUS
<1>0. /\ procs \in [Pids -> Slots] /\ banner \in {"none", "conflict", "offer"}
      /\ takeover.pids \subseteq Pids /\ takeover.looks \in 0..MaxLooks
      /\ killed \subseteq Fallen /\ reborn \subseteq Pids
      /\ takeover = [pc |-> takeover.pc, pids |-> takeover.pids,
                     images |-> takeover.images, looks |-> takeover.looks]
      /\ Resting = [pc |-> "idle", pids |-> {}, images |-> Resting.images, looks |-> 0]
      /\ 0 \in 0..MaxLooks
  BY TakeoverAssumption DEF TakeoverInv, OnlyServersKilled, TakeoverTypeOK, Resting, Slots
<1>g. ASSUME NEW up, Give(up) PROVE TakeoverInv'
  BY <1>0, <1>g, FinishStep DEF Give
<1>1. CASE UNCHANGED takeoverVars
  BY <1>1 DEF takeoverVars, TakeoverInv, OnlyServersKilled, TakeoverTypeOK
<1>2. CASE \E p \in Pids : Appear(p) \/ Vanish(p)
  BY <1>2, SystemStep
<1>3. CASE PortStatus
  <2>1. banner' \in {"none", "conflict", "offer"} /\ UNCHANGED <<procs, takeover, killed, reborn>>
    BY <1>3 DEF PortStatus
  <2> QED BY <2>1 DEF TakeoverInv, OnlyServersKilled, TakeoverTypeOK
<1>4. CASE Click
  <2>1. Listeners \subseteq Pids
    BY DEF Listeners
  <2>2. /\ UNCHANGED <<procs, banner, killed, reborn>> /\ takeover.pc = "idle"
        /\ \/ takeover' = [Resting EXCEPT !.pc = "named", !.pids = Listeners]
           \/ takeover' = [Resting EXCEPT !.pc = "start"]
    BY <1>4 DEF Click
  <2>3. /\ takeover'.pc \in {"named", "start"} /\ takeover'.looks = 0
        /\ takeover'.pids \subseteq Pids
        /\ takeover' = [pc |-> takeover'.pc, pids |-> takeover'.pids,
                        images |-> takeover'.images, looks |-> takeover'.looks]
    BY <2>1, <2>2 DEF Resting
  <2>4. killed = {}
    BY <2>2 DEF TakeoverInv
  <2> QED BY <1>0, <2>2, <2>3, <2>4, LookStep
<1>5. CASE Check
  <2>1. PICK images \in {Named(takeover.pids), [p \in {} |-> "none"]} :
            IF Ours(images)
            THEN /\ takeover' = [takeover EXCEPT !.pc = "kill", !.images = images]
                 /\ UNCHANGED <<procs, banner, killed, reborn>>
            ELSE Give(TRUE)
    BY <1>5 DEF Check
  <2>2. CASE Ours(images)
    <3>1. images = Named(takeover.pids)
      BY <2>1, <2>2 DEF Ours
    <3>2. \A p \in takeover.pids : procs[p].image = "server" \/ procs[p] = Nobody
      BY <2>2, <3>1 DEF Ours, Named
    <3>3. DOMAIN images = takeover.pids
      BY <3>1 DEF Named
    <3> HIDE DEF Named
    <3>4. /\ takeover'.pc = "kill" /\ takeover'.pids = takeover.pids
          /\ takeover'.images = images /\ takeover'.looks = takeover.looks
          /\ takeover' = [pc |-> takeover'.pc, pids |-> takeover'.pids,
                          images |-> takeover'.images, looks |-> takeover'.looks]
          /\ UNCHANGED <<procs, banner, killed, reborn>>
      BY <1>0, <2>1, <2>2
    <3>5. \A p \in takeover.pids : procs[p].image # "other"
      BY <3>2, ProcessFields
    <3> QED BY <1>0, <3>3, <3>4, <3>5, LookStep
  <2>3. CASE ~Ours(images)
    BY <2>1, <2>3, <1>g
  <2> QED BY <2>2, <2>3
<1>6. ASSUME NEW p \in Pids, KillPid(p) PROVE TakeoverInv'
  <2>1. /\ takeover'.pc = "kill" /\ takeover.pc = "kill" /\ takeover'.pids = takeover.pids
        /\ takeover'.looks = takeover.looks
        /\ takeover' = [pc |-> takeover'.pc, pids |-> takeover'.pids,
                        images |-> takeover'.images, looks |-> takeover'.looks]
        /\ DOMAIN takeover'.images \subseteq DOMAIN takeover.images
        /\ p \in DOMAIN takeover.images
        /\ UNCHANGED <<banner, reborn>>
    BY <1>0, <1>6 DEF KillPid
  <2>2. p \in takeover.pids /\ DOMAIN takeover.images \subseteq takeover.pids
    BY <2>1 DEF TakeoverInv
  <2>3. procs[p].image # "other" \/ p \in reborn
    BY <2>1, <2>2 DEF TakeoverInv, OnlyServersKilled
  <2>4. PICK dead \in SUBSET {q \in Tree(p) : procs[p] # Nobody /\ procs[q] # Nobody} :
           /\ procs' = [q \in Pids |-> IF q \in dead THEN Nobody ELSE procs[q]]
           /\ killed' = killed \cup {[image |-> procs[q].image, owner |-> p,
                                      runs |-> procs[p].image] : q \in dead}
    BY <1>6 DEF KillPid
  <2>5. /\ procs' \in [Pids -> Slots]
        /\ \A q \in Pids : procs'[q] = procs[q] \/ procs'[q] = Nobody
    BY <1>0, <2>4, ProcessFields
  <2>6. ASSUME NEW q \in dead
        PROVE  /\ procs[q].image \in Programs
               /\ procs[p].image \in Programs
               /\ procs[p].image = "server" \/ p \in reborn
    <3>1. q \in Pids /\ procs[p] # Nobody /\ procs[q] # Nobody
      BY <2>4, <2>6 DEF Tree
    <3>2. procs[q] \in Process /\ procs[p] \in Process
      BY <1>0, <3>1, ProcessFields
    <3> QED BY <2>3, <3>2, ProcessFields DEF Programs
  <2>7. /\ killed' \subseteq Fallen
        /\ \A k \in killed' : k.owner \in takeover.pids /\ (k.runs = "server" \/ k.owner \in reborn)
    <3>1. \A k \in killed : k.owner \in takeover.pids /\ (k.runs = "server" \/ k.owner \in reborn)
      BY DEF TakeoverInv, OnlyServersKilled
    <3>2. ASSUME NEW k \in killed', k \notin killed
          PROVE  k \in Fallen /\ k.owner = p /\ (k.runs = "server" \/ p \in reborn)
      <4>1. PICK q \in dead : k = [image |-> procs[q].image, owner |-> p, runs |-> procs[p].image]
        BY <2>4, <3>2
      <4> QED BY <2>6, <4>1 DEF Fallen
    <3> QED BY <1>0, <2>2, <3>1, <3>2
  <2>8. \A q \in takeover.pids \ reborn : procs'[q].image # "other"
    BY <1>0, <2>1, <2>5, ProcessFields DEF TakeoverInv, OnlyServersKilled
  <2>9. TakeoverTypeOK'
    BY <1>0, <2>1, <2>5, <2>7 DEF TakeoverTypeOK, Slots
  <2> QED BY <2>1, <2>2, <2>7, <2>8, <2>9 DEF TakeoverInv, OnlyServersKilled
<1>7. CASE AllKilled \/ Look \/ Start
  <2>1. CASE Finish /\ UNCHANGED <<procs, banner>>
    BY <1>0, <2>1, FinishStep
  <2>2. CASE ~(Finish /\ UNCHANGED <<procs, banner>>)
    <3>1. /\ UNCHANGED <<procs, banner, killed, reborn>>
          /\ takeover'.pc \in {"wait", "start", "spawn"}
          /\ takeover'.pids = takeover.pids /\ takeover'.looks \in 0..MaxLooks
          /\ takeover' = [pc |-> takeover'.pc, pids |-> takeover'.pids,
                          images |-> takeover'.images, looks |-> takeover'.looks]
      BY <1>0, <1>7, <2>2, TakeoverAssumption DEF AllKilled, Look, Start
    <3>2. takeover'.pc = "wait" => takeover.pc \in {"kill", "wait"}
      BY <1>0, <1>7, <2>2 DEF AllKilled, Look, Start
    <3>3. takeover.pc \in {"kill", "wait"} =>
              \A p \in takeover.pids \ reborn : procs[p].image # "other"
      BY DEF TakeoverInv, OnlyServersKilled
    <3> QED BY <1>0, <3>1, <3>2, <3>3, LookStep
  <2> QED BY <2>1, <2>2
<1>8. CASE GiveUp
  BY <1>8, <1>g DEF GiveUp
<1>9. CASE SpawnServer
  <2>1. Finish /\ banner' = "none"
    BY <1>9 DEF SpawnServer
  <2>2. procs' \in [Pids -> Slots]
    <3>1. CASE UNCHANGED procs
      BY <1>0, <3>1
    <3>2. ASSUME NEW p \in Pids,
                 procs' = [procs EXCEPT ![p] = [image |-> "server", listens |-> TRUE,
                                                parent |-> System]]
          PROVE  procs' \in [Pids -> Slots]
      BY <1>0, <3>2, ProcessFields
    <3> QED BY <1>9, <3>1, <3>2 DEF SpawnServer
  <2> QED BY <2>1, <2>2, FinishStep
<1> QED BY <1>1, <1>2, <1>3, <1>4, <1>5, <1>6, <1>7, <1>8, <1>9 DEF TakeoverNext

\* "Nothing else is ever killed": however processes and pids come and go between
\* the looks at the system, whatever dies of a takeover is in the tree of an owner of
\* the port that was asked about and runs the configured server when its tree is taken
\* down, or whose pid the system gave away since.
THEOREM NothingElseIsKilled == TakeoverSpec => []OnlyServersKilled
<1>1. TakeoverInit => TakeoverInv
  <2> SUFFICES ASSUME TakeoverInit PROVE TakeoverInv
    OBVIOUS
  <2>1. takeover = [pc |-> "idle", pids |-> {}, images |-> takeover.images, looks |-> 0]
    BY DEF TakeoverInit, Resting
  <2>2. procs \in [Pids -> Process \cup {Nobody}]
    BY DEF TakeoverInit
  <2> QED BY <2>1, <2>2, TakeoverAssumption
          DEF TakeoverInit, TakeoverInv, OnlyServersKilled, TakeoverTypeOK
<1>2. TakeoverInv => OnlyServersKilled
  BY DEF TakeoverInv
<1> QED BY <1>1, <1>2, TakeoverStep, PTL DEF TakeoverSpec

-----------------------------------------------------------------------------
(* ServerLife.                                                              *)

\* A configuration is loaded, and it passed the rules.
Configured == process \notin {"down", "loading"} => CmsOK(settings)

\* The list of hosts that was seeded is that of the configuration.
SeededList == process = "assembling" /\ "listed" \in mapped => settings["cms.hosts"] # "none"

\* Past the assembly the CMS is mounted and styled, if it is enabled at all.
Assembled ==
    process \in {"binding", "redirecting", "serving"} /\ settings["cms.enabled"] =>
        mounted /\ (mapped # {} => settings["static.enabled"])

\* The manager keeps the pair acceptable as long as nobody else writes a file.
PairKept == disturbed \in BOOLEAN /\ (disturbed \/ PairOK(files))

\* A process that runs has refused nothing yet.
NotRefused == process # "down" => verdict = "none"

LifeInv ==
    /\ LifeTypeOK /\ heard \in BOOLEAN /\ (heard => process # "down")
    /\ read = [base |-> read.base, env |-> read.env, torn |-> read.torn]
    /\ Configured /\ SeededList /\ Assembled /\ PairKept /\ NotRefused
    /\ RefusalHasReason

\* Steps of the process leave the files alone; the verdict lasts until the next boot.
LEMMA Ended ==
  ASSUME LifeInv, NEW how \in Verdicts, End(how), UNCHANGED <<fileVars, mapped, read>>,
         how = "rejected" => read.env # Empty \/ read.torn \/ disturbed,
         how = "unstyled" => "manual" \in mapped
  PROVE  LifeInv'
<1>1. DOMAIN Empty = {}
  BY DEF Empty
<1>2. LifeTypeOK'
  BY <1>1, LifeAssumption DEF LifeInv, LifeTypeOK, End, Phases
<1>3. RefusalHasReason'
  BY DEF LifeInv, RefusalHasReason, End, fileVars
<1> QED BY <1>2, <1>3 DEF LifeInv, End, fileVars, Configured, SeededList, Assembled, PairKept, NotRefused

\* Whatever the boot does, the process starts from the files or is not started.
LEMMA BootSteps ==
  ASSUME LifeInv, UNCHANGED fileVars, Boot \/ Load \/ Prepare \/ Seed \/ Assemble \/ RefuseUnstyled
                                        \/ BootFails \/ Bind \/ BindRedirect
  PROVE  LifeInv'
<1> USE LifeAssumption
<1>1. CASE Boot
  <2>1. PICK env \in Environments : read' = [base |-> TextOf(files, "base"), env |-> env, torn |-> FALSE]
    BY <1>1 DEF Boot
  <2>2. process = "down" /\ process' = "loading" /\ verdict' = "none"
        /\ UNCHANGED <<settings, mounted, mapped, listeners, inFlight, heard, waited>>
    BY <1>1 DEF Boot
  <2> QED BY <2>1, <2>2 DEF LifeInv, LifeTypeOK, Phases, Verdicts, Configured, SeededList,
             Assembled, PairKept, NotRefused, RefusalHasReason, fileVars
<1>2. CASE Load
  <2> DEFINE local == TextOf(files, "local")
  <2>0. /\ process = "loading"
        /\ read' = [read EXCEPT !.torn = read.base # TextOf(files, "base")]
        /\ UNCHANGED mapped
    BY <1>2 DEF Load
  <2>r. /\ read'.base = read.base /\ read'.env = read.env
        /\ read'.torn = (read.base # TextOf(files, "base"))
        /\ read' = [base |-> read'.base, env |-> read'.env, torn |-> read'.torn]
    BY <2>0 DEF LifeInv
  <2>1. CASE Loads(read.base, local, read.env)
    <3>1. /\ process' = "preparing" /\ settings' = Merged(read.base, local, read.env)
          /\ UNCHANGED <<mounted, listeners, inFlight, heard, waited, verdict>>
      BY <1>2, <2>1 DEF Load
    <3>2. DOMAIN settings' = Keys
      BY <3>1 DEF Merged
    <3>3. CmsOK(settings')
      BY <2>1, <3>1 DEF Loads, Valid
    <3>4. LifeTypeOK'
      BY <2>0, <3>1, <3>2 DEF LifeInv, LifeTypeOK, Phases, Verdicts
    <3> QED BY <2>0, <2>r, <3>1, <3>3, <3>4 DEF LifeInv, Configured, SeededList, Assembled,
               PairKept, NotRefused, RefusalHasReason, fileVars
  <2>2. CASE ~Loads(read.base, local, read.env)
    <3>1. End("rejected")
      BY <1>2, <2>2 DEF Load
    <3>2. read.env # Empty \/ read.base # TextOf(files, "base") \/ disturbed
      <4> SUFFICES ASSUME read.env = Empty, read.base = TextOf(files, "base"), ~disturbed
                   PROVE  FALSE
        OBVIOUS
      <4>1. PairOK(files)
        BY DEF LifeInv, PairKept
      <4> QED BY <2>2, <4>1 DEF PairOK, Accepts
    <3>3. LifeTypeOK'
      <4>1. DOMAIN Empty = {}
        BY DEF Empty
      <4> QED BY <2>0, <3>1, <4>1 DEF LifeInv, LifeTypeOK, End, Phases, Verdicts
    <3>4. RefusalHasReason'
      BY <2>r, <3>1, <3>2 DEF RefusalHasReason, End, fileVars
    <3> QED BY <2>0, <2>r, <3>1, <3>3, <3>4 DEF LifeInv, Configured, SeededList, Assembled,
               PairKept, NotRefused, End, fileVars
  <2> QED BY <2>1, <2>2
<1>3. CASE Prepare
  <2>1. /\ process = "preparing"
        /\ process' = IF settings["database.enabled"] THEN "seeding" ELSE "binding"
        /\ UNCHANGED <<settings, read, listeners, inFlight, heard, waited, verdict, mounted, mapped>>
    BY <1>3 DEF Prepare, Proceed
  <2>2. process' = "binding" => ~settings["cms.enabled"]
    BY <2>1 DEF LifeInv, Configured, CmsOK
  <2> QED BY <2>1, <2>2 DEF LifeInv, LifeTypeOK, Phases, Configured, SeededList,
             Assembled, PairKept, NotRefused, RefusalHasReason, fileVars
<1>4. CASE Seed
  <2>1. /\ process = "seeding" /\ process' = "assembling"
        /\ "listed" \in mapped' => settings["cms.hosts"] # "none"
        /\ mapped' \subseteq {"listed", "manual"}
        /\ UNCHANGED <<settings, read, listeners, inFlight, heard, waited, verdict, mounted>>
    BY <1>4 DEF Seed, Proceed
  <2> QED BY <2>1 DEF LifeInv, LifeTypeOK, Phases, Configured, SeededList,
             Assembled, PairKept, NotRefused, RefusalHasReason, fileVars
<1>5. CASE Assemble
  <2>1. /\ process = "assembling" /\ process' = "binding" /\ ~Unstyled
        /\ mounted' = CmsMounts
        /\ UNCHANGED <<settings, read, listeners, inFlight, heard, waited, verdict, mapped>>
    BY <1>5 DEF Assemble, Proceed
  <2>2. settings["cms.enabled"] => mounted' /\ (mapped # {} => settings["static.enabled"])
    BY <2>1 DEF LifeInv, Configured, CmsOK, CmsMounts, Unstyled
  <2> QED BY <2>1, <2>2 DEF LifeInv, LifeTypeOK, Phases, Configured, SeededList,
             Assembled, PairKept, NotRefused, RefusalHasReason, fileVars
<1>6. CASE RefuseUnstyled
  <2>1. "manual" \in mapped
    BY <1>6 DEF RefuseUnstyled, Unstyled, LifeInv, LifeTypeOK, SeededList, Configured, CmsOK
  <2> QED BY <1>6, <2>1, Ended DEF RefuseUnstyled, Verdicts
<1>7. CASE BootFails
  BY <1>7, Ended DEF BootFails, Verdicts
<1>8. CASE Bind \/ BindRedirect
  <2>1. /\ process \in {"binding", "redirecting"} /\ process' \in {"redirecting", "serving"}
        /\ listeners' \subseteq {"main", "redirect"}
        /\ UNCHANGED <<settings, read, mounted, mapped, inFlight, heard, waited, verdict>>
    BY <1>8 DEF Bind, BindRedirect, LifeInv, LifeTypeOK
  <2> QED BY <2>1 DEF LifeInv, LifeTypeOK, Phases, Configured, SeededList,
             Assembled, PairKept, NotRefused, RefusalHasReason, fileVars
<1> QED BY <1>1, <1>2, <1>3, <1>4, <1>5, <1>6, <1>7, <1>8

\* Requests, the panel's hosts and the shutdown.
LEMMA ServingSteps ==
  ASSUME LifeInv, UNCHANGED fileVars,
         \/ \E r \in Requests : Accept(r) \/ Complete(r)
         \/ MapHost \/ UnmapHost \/ Signal \/ SigKill \/ Stop \/ Tick \/ ForcedShutdown
         \/ \E l \in {"main", "redirect"} : StopListening(l)
  PROVE  LifeInv'
<1> USE LifeAssumption
<1>1. ASSUME \/ \E r \in Requests : Accept(r) \/ Complete(r)
             \/ \E l \in {"main", "redirect"} : StopListening(l)
             \/ Tick
      PROVE  LifeInv'
  <2>1. /\ UNCHANGED <<process, settings, read, mounted, mapped, heard, verdict>>
        /\ listeners' \subseteq listeners /\ inFlight' \subseteq Requests
        /\ process = "down" => inFlight' = {}
        /\ waited' \in 0..Timeout
    BY <1>1 DEF Accept, Complete, StopListening, Tick, Up, LifeInv, LifeTypeOK
  <2> QED BY <2>1 DEF LifeInv, LifeTypeOK, Configured, SeededList,
             Assembled, PairKept, NotRefused, RefusalHasReason, fileVars
<1>2. CASE MapHost \/ UnmapHost
  <2>1. /\ Up
        /\ mapped' \subseteq {"listed", "manual"}
        /\ settings["static.enabled"] \/ mapped' \subseteq mapped
        /\ UNCHANGED <<process, settings, read, mounted, listeners, inFlight, heard, waited, verdict>>
    BY <1>2 DEF MapHost, UnmapHost, CmsTakesHosts, LifeInv, LifeTypeOK
  <2>2. mapped' # {} => mapped # {} \/ settings["static.enabled"]
    BY <2>1
  <2> QED BY <2>1, <2>2 DEF Up, LifeInv, LifeTypeOK, Configured, SeededList,
             Assembled, PairKept, NotRefused, RefusalHasReason, fileVars
<1>3. CASE Signal
  <2>1. CASE Up
    <3>1. /\ process # "down" /\ heard' = TRUE
          /\ UNCHANGED <<process, settings, read, mounted, mapped, listeners, inFlight, waited, verdict>>
      BY <1>3, <2>1 DEF Signal
    <3> QED BY <3>1 DEF LifeInv, LifeTypeOK, Configured, SeededList,
               Assembled, PairKept, NotRefused, RefusalHasReason, fileVars
  <2>2. CASE ~Up
    BY <1>3, <2>2, Ended DEF Signal, Verdicts
  <2> QED BY <2>1, <2>2
<1>4. CASE SigKill \/ Stop \/ ForcedShutdown
  BY <1>4, Ended DEF SigKill, Stop, ForcedShutdown, Verdicts
<1> QED BY <1>1, <1>2, <1>3, <1>4

\* The files change under the server; the manager replaces them acceptably.
LEMMA EditStep == ASSUME LifeInv, EditFiles PROVE LifeInv'
<1>1. PairKept' /\ (disturbed => disturbed')
  <2>1. PICK l \in Layers, t \in FileTexts : Store!Save(l, t) \/ Store!OthersWrite(l, t)
    BY DEF EditFiles
  <2>2. CASE Store!Save(l, t)
    BY <2>2 DEF LifeInv, PairKept, Store!Save
  <2>3. CASE Store!OthersWrite(l, t)
    BY <2>3 DEF PairKept, Store!OthersWrite
  <2> QED BY <2>1, <2>2, <2>3
<1>2. UNCHANGED runVars
  BY DEF EditFiles
<1> QED BY <1>1, <1>2 DEF runVars, LifeInv, LifeTypeOK, Configured, SeededList,
           Assembled, NotRefused, RefusalHasReason

LEMMA LifeInvariant == LifeSpec => []LifeInv
<1>1. LifeInit => LifeInv
  <2> SUFFICES ASSUME LifeInit PROVE LifeInv
    OBVIOUS
  <2>1. PairKept
    BY DEF LifeInit, Store!FilesInit, PairKept
  <2>2. LifeTypeOK
    <3>1. DOMAIN Empty = {}
      BY DEF Empty
    <3> QED BY <3>1, LifeAssumption DEF LifeInit, LifeTypeOK, Phases, Verdicts
  <2> QED BY <2>1, <2>2 DEF LifeInit, LifeInv, Unread, Configured, SeededList, Assembled,
                            NotRefused, RefusalHasReason
<1>2. LifeInv /\ [LifeNext]_lifeVars => LifeInv'
  <2> SUFFICES ASSUME LifeInv, [LifeNext]_lifeVars PROVE LifeInv'
    OBVIOUS
  <2>1. CASE UNCHANGED lifeVars
    BY <2>1 DEF lifeVars, fileVars, runVars, LifeInv, LifeTypeOK, Configured, SeededList,
                Assembled, PairKept, NotRefused, RefusalHasReason
  <2> QED BY <2>1, EditStep, BootSteps, ServingSteps DEF LifeNext, LifeStep
<1> QED BY <1>1, <1>2, PTL DEF LifeSpec

\* A boot refuses the files only for what the manager could not see, and the mapped
\* hosts only when the panel mapped one, for all texts, environments and edits.
THEOREM RefusalsAreReasonable == LifeSpec => []RefusalHasReason
<1>1. LifeInv => RefusalHasReason
  BY DEF LifeInv
<1> QED BY <1>1, LifeInvariant, PTL

\* A server that is up has mounted the CMS if it is enabled, and its hosts find the
\* static tree, through every edit of the files and row of the panel.
THEOREM EnabledIsMounted == LifeSpec => []MountsWhatIsEnabled
<1>1. LifeInv => MountsWhatIsEnabled
  BY DEF LifeInv, MountsWhatIsEnabled, Assembled, Up
<1> QED BY <1>1, LifeInvariant, PTL
=============================================================================
