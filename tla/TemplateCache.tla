---------------------------- MODULE TemplateCache ----------------------------
(***************************************************************************)
(* The embedded template engine's two caches (template_engine/engine.rs,   *)
(* require_bridge.rs): compiled templates with the partials embedded in    *)
(* them, and module sources, both shared by every render and both trusted  *)
(* as long as the modification times on the disk are those noted.          *)
(*                                                                         *)
(* Files are edited under running renders: every look at a file is a step  *)
(* of its own, except those made while the cache's mutex is held.  A file  *)
(* is its version (what was written), its mtime and the names it includes  *)
(* or requires; a program is the list of what was compiled into it.        *)
(***************************************************************************)
EXTENDS Naturals, Sequences, FiniteSets

CONSTANTS Templates, Partials, Modules,
          Renders,             \* the blocking pool's renders
          Uses,                \* what each file may include or require
          Bodies,              \* what a page body from the database includes
          Needs,               \* the modules a program requires, in order
          MaxDepth,            \* INCLUDE_MAX_DEPTH
          MaxLoads,            \* REQUIRE_MAX_TOTAL_BYTES, in modules
          MaxMoments, MaxEdits    \* bounds

VARIABLES moment, files,
          cache,               \* JhsEngine.cache
          sources,             \* JhsEngine.module_sources
          render,
          stamps, blurred,     \* history: the mtimes of each file; those repeated
          edits

cacheVars == <<moment, files, cache, sources, render, stamps, blurred, edits>>

Files == Templates \cup Partials \cup Modules

\* Templates and partials include partials, programs and modules require
\* modules.
ASSUME CacheAssumption ==
    /\ \A f \in Templates \cup Partials : Uses[f] \subseteq Seq(Partials)
    /\ \A f \in Modules : Uses[f] \subseteq Seq(Modules)
    /\ Bodies \subseteq Seq(Partials) /\ Needs \in Seq(Modules)
    /\ MaxDepth \in Nat /\ MaxLoads \in Nat /\ MaxEdits \in Nat /\ MaxMoments \in Nat \ {0}

\* metadata().modified().ok() of a file that is not there.
NoTime == 0
Missing == [version |-> 0, mtime |-> NoTime, uses |-> <<>>]

NoRender == [pc |-> "idle", target |-> "none", noted |-> NoTime, mtime |-> NoTime,
         frames |-> <<>>, embedded |-> {}, tracked |-> {}, registry |-> {},
         evaluated |-> <<>>, loads |-> 0, shown |-> {}]

CacheTypeOK ==
    /\ moment \in 1..MaxMoments
    /\ \A f \in Files : files[f].version \in 0..(MaxEdits + 1) /\ files[f].mtime \in 0..MaxMoments
    /\ DOMAIN cache \subseteq Templates /\ DOMAIN sources \subseteq Modules
    /\ \A r \in Renders : Len(render[r].frames) <= MaxDepth + MaxLoads + 1
    /\ edits \in 0..MaxEdits

CacheInit ==
    /\ moment = 1
    /\ files \in {d \in [Files -> {[version |-> 1, mtime |-> 1, uses |-> u] :
                                    u \in UNION {Uses[f] : f \in Files}}] :
                    \A f \in Files : d[f].uses \in Uses[f]}
    /\ cache = <<>> /\ sources = <<>>
    /\ render = [r \in Renders |-> NoRender]
    /\ stamps = [f \in Files |-> {1}] /\ blurred = {}
    /\ edits = 0

RenderAt(r, pc) == render[r].pc = pc /\ UNCHANGED <<moment, files, stamps, blurred, edits>>

Set(r, new) == render' = [render EXCEPT ![r] = new]

RenderGoes(r, pc) == render' = [render EXCEPT ![r].pc = pc]

Keep == UNCHANGED <<cache, sources>>

Stored(table, key, value) ==
    [k \in DOMAIN table \cup {key} |-> IF k = key THEN value ELSE table[k]]

Current == {<<f, files[f].version>> : f \in Files}

Frame(file, rest) == [file |-> file, rest |-> rest]

\* JhsEngine::render.
Start(r, target) ==
    /\ RenderAt(r, "idle")
    /\ Set(r, [NoRender EXCEPT !.target = target, !.shown = Current, !.pc = "stat"])
    /\ Keep

\* render_string, for a page body from the database: it is not cached.
StartString(r, uses) ==
    /\ RenderAt(r, "idle")
    /\ Set(r, [NoRender EXCEPT !.shown = Current, !.frames = <<Frame("body", uses)>>,
                           !.pc = "resolve"])
    /\ Keep

(* load_program.  The mtime noted is the one seen before the file is read.  *)

Stat(r) ==
    /\ RenderAt(r, "stat")
    /\ Set(r, [render[r] EXCEPT !.noted = files[render[r].target].mtime, !.pc = "lookup"])
    /\ Keep

\* Slip: a hit looks at the template alone.
HitMainOnly(target, mtime) ==
    /\ target \in DOMAIN cache /\ cache[target].mtime = mtime

\* The partials' mtimes are looked up under the cache's mutex.
Hit(target, mtime) ==
    /\ target \in DOMAIN cache /\ cache[target].mtime = mtime
    /\ \A partial \in cache[target].tracked : files[partial[1]].mtime = partial[2]

Run == <<Frame("program", Needs)>>

Lookup(r) ==
    /\ RenderAt(r, "lookup")
    /\ LET target == render[r].target IN
       IF Hit(target, render[r].noted)
          THEN Set(r, [render[r] EXCEPT !.embedded = cache[target].embedded,
                                        !.frames = Run, !.pc = "run"])
          ELSE RenderGoes(r, "read")
    /\ Keep

Fails(r) == Set(r, NoRender)

ReadMain(r) ==
    /\ RenderAt(r, "read")
    /\ LET target == render[r].target  file == files[target] IN
       IF file = Missing THEN Fails(r)
       ELSE Set(r, [render[r] EXCEPT !.embedded = {<<target, file.version>>},
                       !.frames = <<Frame(target, file.uses)>>, !.pc = "resolve"])
    /\ Keep

(* resolve_includes and read_include, depth first: a frame per open source. *)

Top(r) == render[r].frames[Len(render[r].frames)]
Next1(r) == Head(Top(r).rest)

\* The frames once the top one has passed its next name.
Advanced(r) == [render[r].frames EXCEPT ![Len(render[r].frames)].rest = Tail(@)]

Popped(r) == SubSeq(render[r].frames, 1, Len(render[r].frames) - 1)

\* The depth of a source is the number of frames below its own.
NextInclude(r) ==
    /\ RenderAt(r, "resolve") /\ Top(r).rest # <<>>
    /\ IF Len(render[r].frames) > MaxDepth THEN Fails(r)
       ELSE Set(r, [render[r] EXCEPT !.mtime = files[Next1(r)].mtime, !.pc = "include"])
    /\ Keep

ReadInclude(r) ==
    /\ RenderAt(r, "include")
    /\ LET name == Next1(r)  file == files[name]  it == render[r] IN
       IF file = Missing THEN Fails(r)
       ELSE Set(r, [it EXCEPT !.embedded = @ \cup {<<name, file.version>>},
                       !.tracked = @ \cup {<<name, it.mtime>>},
                       !.frames = Append(Advanced(r), Frame(name, file.uses)),
                       !.pc = "resolve"])
    /\ Keep

\* The end of a source; the end of the outermost one compiles and caches.
EndSource(r) ==
    /\ RenderAt(r, "resolve") /\ Top(r).rest = <<>>
    /\ LET it == render[r]  inner == Len(it.frames) > 1 IN
       /\ Set(r, IF inner THEN [it EXCEPT !.frames = Popped(r)]
                 ELSE [it EXCEPT !.frames = Run, !.pc = "run"])
       /\ cache' = IF inner \/ it.target = "none" THEN cache
                   ELSE Stored(cache, it.target, [embedded |-> it.embedded,
                              mtime |-> it.noted, tracked |-> it.tracked])
       /\ UNCHANGED sources

(* execute: require() is a call of the running program.                     *)

\* resolve_impl finds the file, the module's own requires next to it first.
Resolve(r) ==
    /\ RenderAt(r, "run") /\ Top(r).rest # <<>>
    /\ files[Next1(r)] # Missing
    /\ RenderGoes(r, "required")
    /\ Keep

StatModule(r) ==
    /\ RenderAt(r, "required")
    /\ Set(r, [render[r] EXCEPT !.mtime = files[Next1(r)].mtime, !.pc = "load"])
    /\ Keep

\* read_source, under the sources' mutex: the entry at hand or the file.
SourceHit(name, mtime) == name \in DOMAIN sources /\ sources[name].mtime = mtime

Source(name, mtime) ==
    IF SourceHit(name, mtime) THEN sources[name]
    ELSE [files[name] EXCEPT !.mtime = mtime]

Readable(name, mtime) == SourceHit(name, mtime) \/ files[name] # Missing

\* The bytes count at every require, of a registered module too; the module
\* is registered before its body runs, so a cycle sees its exports so far.
Load(r) ==
    /\ RenderAt(r, "load")
    /\ LET name == Next1(r)  it == render[r]  source == Source(name, it.mtime) IN
       /\ Readable(name, it.mtime) /\ it.loads < MaxLoads
       /\ sources' = Stored(sources, name, source)
       /\ Set(r, IF name \in it.registry
                 THEN [it EXCEPT !.loads = @ + 1, !.frames = Advanced(r), !.pc = "run"]
                 ELSE [it EXCEPT !.loads = @ + 1, !.pc = "run",
                          !.registry = @ \cup {name},
                          !.frames = Append(Advanced(r), Frame(name, source.uses)),
                          !.evaluated = Append(@, <<name, source.version>>)])
       /\ UNCHANGED cache

\* A source too many is read, and cached, before it is refused.
Refusal(r) ==
    \/ render[r].pc = "run" /\ UNCHANGED sources    \* not found, or its body throws
    \/ /\ render[r].pc = "load" /\ ~Readable(Next1(r), render[r].mtime)
       /\ UNCHANGED sources
    \/ /\ render[r].pc = "load" /\ Readable(Next1(r), render[r].mtime)
       /\ render[r].loads >= MaxLoads
       /\ sources' = Stored(sources, Next1(r), Source(Next1(r), render[r].mtime))

\* What was registered stays registered, half made as it may be.
AfterThrow(registry, frames, level) == registry

\* The program or an open module may catch the error; else the render fails.
Throw(r) ==
    /\ render[r].pc \in {"run", "load"} /\ Top(r).rest # <<>>
    /\ Refusal(r)
    /\ \/ Fails(r)
       \/ \E level \in DOMAIN render[r].frames :
             Set(r, [render[r] EXCEPT !.frames = SubSeq(Advanced(r), 1, level), !.pc = "run",
                        !.registry = AfterThrow(@, render[r].frames, level)])
    /\ UNCHANGED <<moment, files, cache, stamps, blurred, edits>>

\* A body ends: its module's exports go to the one that required it.
EndModule(r) ==
    /\ RenderAt(r, "run") /\ Top(r).rest = <<>> /\ Len(render[r].frames) > 1
    /\ Set(r, [render[r] EXCEPT !.frames = Popped(r)])
    /\ Keep

\* The program ends: the page is answered.
EndProgram(r) ==
    /\ RenderAt(r, "run") /\ Top(r).rest = <<>> /\ Len(render[r].frames) = 1
    /\ Set(r, NoRender)
    /\ Keep

(* The disk beside the engine.  A tool may set an older mtime than now's.   *)

Write(f, file) ==
    /\ edits < MaxEdits /\ edits' = edits + 1
    /\ files' = [files EXCEPT ![f] = file]
    /\ stamps' = [stamps EXCEPT ![f] = @ \cup {file.mtime}]
    /\ blurred' = IF file.mtime \in stamps[f] THEN blurred \cup {f} ELSE blurred
    /\ render' = [r \in Renders |-> IF render[r] = NoRender THEN NoRender ELSE
                     [render[r] EXCEPT !.shown = @ \cup {<<f, file.version>>}]]
    /\ UNCHANGED <<moment, cache, sources>>

EditFile(f, uses, mtime) ==
    Write(f, [version |-> edits + 2, mtime |-> mtime, uses |-> uses])

Delete(f) == files[f] # Missing /\ Write(f, Missing)

Later ==
    /\ moment < MaxMoments /\ moment' = moment + 1
    /\ UNCHANGED <<files, cache, sources, render, stamps, blurred, edits>>

CacheNext ==
    \/ \E r \in Renders :
          \/ \E t \in Templates : Start(r, t)
          \/ \E uses \in Bodies : StartString(r, uses)
          \/ Stat(r) \/ Lookup(r) \/ ReadMain(r)
          \/ NextInclude(r) \/ ReadInclude(r) \/ EndSource(r)
          \/ Resolve(r) \/ StatModule(r) \/ Load(r) \/ Throw(r)
          \/ EndModule(r) \/ EndProgram(r)
    \/ \E f \in Files :
          \/ \E uses \in Uses[f], mtime \in 1..moment : EditFile(f, uses, mtime)
          \/ Delete(f)
    \/ Later

CacheSpec == CacheInit /\ [][CacheNext]_cacheVars

(***************************************************************************)
(* Properties.                                                             *)
(***************************************************************************)

Used(r) == render[r].embedded \cup {render[r].evaluated[i] : i \in DOMAIN render[r].evaluated}

\* Whatever two renders and an editor do to the caches at once, a page is
\* made of contents its files had while it was rendered: nothing it embeds
\* or requires was replaced before the request came.  What the caches go by
\* are mtimes, so it holds of the files no two states of which share one.
RendersWhatWasThere ==
    \A r \in Renders : \A used \in Used(r) :
        used[1] \notin blurred => used \in render[r].shown

\* However modules require each other, in a cycle or past one that threw,
\* and whatever is edited meanwhile, a module's body runs once per render:
\* no page holds two copies of a module's state.
EvaluatedOnce ==
    \A r \in Renders : \A i, j \in DOMAIN render[r].evaluated :
        render[r].evaluated[i][1] = render[r].evaluated[j][1] => i = j

\* On well-typed states, a page is made of what its files held while it
\* rendered, and a module's body runs once per render.
RendersHold == CacheTypeOK /\ RendersWhatWasThere /\ EvaluatedOnce
=============================================================================
