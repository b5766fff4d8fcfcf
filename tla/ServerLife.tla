------------------------------ MODULE ServerLife -------------------------------
(***************************************************************************)
(* One server process from its start to its end (src/src/server.rs): load     *)
(* reads the two files one after the other and applies the environment,       *)
(* build_state opens and seeds what is enabled, the listeners are bound, and  *)
(* the first signal stops them, lets the requests in flight finish and aborts *)
(* what is left when the shutdown timeout has passed.  The operator boots it   *)
(* again, after edits of the files or of the host names in the                *)
(* database.                                                                 *)
(***************************************************************************)
EXTENDS Configuration

CONSTANTS FileTexts,    \* what the files are replaced with
          Requests,     \* clients
          Environments, \* WALLERMAX_ variables the process may be started with
          Timeout,      \* server.shutdown_timeout_secs
          MaxEdits,     \* bound: writes of the files
          MaxBoots      \* bound: starts

ASSUME LifeAssumption == Timeout \in Nat

VARIABLES files,     \* the two files
          disturbed, \* somebody else than the manager wrote one
          edits,     \* writes of the files
          process,   \* what the process is doing
          settings,  \* the configuration it loaded, empty until then
          read,      \* the base file it read, the environment, and whether the file changed since
          mounted,   \* the CMS is part of the state
          mapped,    \* the CMS host names in the domains table: listed and manual ones
          listeners, \* those that accept connections
          inFlight,  \* requests being answered
          heard,     \* the shutdown channel is TRUE
          waited,    \* seconds since then
          verdict,   \* how the last process ended
          boots

\* What the manager promises of them.
Store == INSTANCE ConfigFiles WITH disk <- files, Texts <- FileTexts

fileVars == <<files, disturbed, edits>>
runVars == <<process, settings, read, mounted, mapped, listeners, inFlight,
             heard, waited, verdict, boots>>
lifeVars == <<fileVars, runVars>>

Phases == {"down", "loading", "preparing", "seeding", "assembling", "binding",
           "redirecting", "serving"}
Verdicts == {"none", "rejected", "unstyled", "failed", "killed", "stopped"}

Unread == [base |-> Empty, env |-> Empty, torn |-> FALSE]

LifeInit ==
    /\ Store!FilesInit
    /\ edits = 0
    /\ process = "down"
    /\ settings = Empty
    /\ read = Unread
    /\ mounted = FALSE
    /\ mapped = {}
    /\ listeners = {}
    /\ inFlight = {}
    /\ heard = FALSE
    /\ waited = 0
    /\ verdict = "none"
    /\ boots = 0

\* The files change under the server, by the manager and by others.
EditFiles ==
    /\ edits < MaxEdits
    /\ edits' = edits + 1
    /\ \E l \in Layers, t \in FileTexts : Store!Save(l, t) \/ Store!OthersWrite(l, t)
    /\ UNCHANGED runVars

(***************************************************************************)
(* Start                                                                     *)
(***************************************************************************)

\* Every way to end: main returns, or the process is killed.
End(how) ==
    /\ process' = "down"
    /\ verdict' = how
    /\ settings' = Empty
    /\ mounted' = FALSE
    /\ listeners' = {}
    /\ inFlight' = {}
    /\ heard' = FALSE
    /\ waited' = 0

Boot ==
    /\ process = "down" /\ boots < MaxBoots
    /\ boots' = boots + 1
    /\ process' = "loading"
    /\ verdict' = "none"
    /\ \E env \in Environments : read' = [base |-> TextOf(files, "base"), env |-> env, torn |-> FALSE]
    /\ UNCHANGED <<settings, mounted, mapped, listeners, inFlight, heard, waited>>

\* AppConfig::load: the local file is read after the base one.
Load ==
    /\ process = "loading"
    /\ read' = [read EXCEPT !.torn = read.base # TextOf(files, "base")]
    /\ IF Loads(read.base, TextOf(files, "local"), read.env)
       THEN /\ process' = "preparing"
            /\ settings' = Merged(read.base, TextOf(files, "local"), read.env)
            /\ UNCHANGED <<mounted, listeners, inFlight, heard, waited, verdict>>
       ELSE End("rejected")
    /\ UNCHANGED <<mapped, boots>>

Proceed(phase) ==
    /\ process' = phase
    /\ UNCHANGED <<settings, read, listeners, inFlight, heard, waited, verdict, boots>>

\* build_state: the static root, the views, the pool and its migrations.
Prepare ==
    /\ process = "preparing"
    /\ Proceed(IF settings["database.enabled"] THEN "seeding" ELSE "binding")
    /\ UNCHANGED <<mounted, mapped>>

\* seed_domains: the seeder's rows follow the list, the panel's stay.
Seed ==
    /\ process = "seeding"
    /\ Proceed("assembling")
    /\ mapped' = (mapped \cap {"manual"})
                    \cup {r \in {"listed"} : settings["cms.hosts"] # "none"}
    /\ UNCHANGED mounted

\* CMS hosts need the static tree, whoever mapped them.
Unstyled == settings["cms.enabled"] /\ mapped # {} /\ ~settings["static.enabled"]

CmsMounts == settings["auth.enabled"] /\ settings["cms.enabled"] /\ settings["templates.enabled"]

Assemble ==
    /\ process = "assembling"
    /\ ~Unstyled
    /\ Proceed("binding")
    /\ mounted' = CmsMounts
    /\ UNCHANGED mapped

RefuseUnstyled ==
    /\ process = "assembling"
    /\ Unstyled
    /\ End("unstyled")
    /\ UNCHANGED <<read, mapped, boots>>

\* A directory, the database, a certificate, the strict sidecar, a variable of an
\* external endpoint or the address is not there.
BootFails ==
    /\ process \in {"preparing", "seeding", "assembling", "binding", "redirecting"}
    /\ End("failed")
    /\ UNCHANGED <<read, mapped, boots>>

\* The listener is bound and its task spawned, over TLS before the redirect's is.
Bind ==
    /\ process = "binding"
    /\ process' = IF settings["tls.enabled"] /\ settings["tls.http_listen"] # "none"
                  THEN "redirecting" ELSE "serving"
    /\ listeners' = {"main"}
    /\ UNCHANGED <<settings, read, mounted, mapped, inFlight, heard, waited, verdict, boots>>

BindRedirect ==
    /\ process = "redirecting"
    /\ process' = "serving"
    /\ listeners' = listeners \cup {"redirect"}
    /\ UNCHANGED <<settings, read, mounted, mapped, inFlight, heard, waited, verdict, boots>>

(***************************************************************************)
(* Requests and the panel                                                    *)
(***************************************************************************)

Up == process \in {"redirecting", "serving"}

Accept(r) ==
    /\ Up /\ "main" \in listeners /\ r \notin inFlight
    /\ inFlight' = inFlight \cup {r}
    /\ UNCHANGED <<process, settings, read, mounted, mapped, listeners, heard, waited, verdict, boots>>

Complete(r) ==
    /\ r \in inFlight
    /\ inFlight' = inFlight \ {r}
    /\ UNCHANGED <<process, settings, read, mounted, mapped, listeners, heard, waited, verdict, boots>>

\* Slip: the page does not ask for the static tree.
CmsTakesHostsAlways == TRUE

\* The Tenants page: the CMS takes another host while the static tree is served.
CmsTakesHosts == settings["static.enabled"]

MapHost ==
    /\ Up /\ inFlight # {} /\ mounted /\ CmsTakesHosts
    /\ mapped' = mapped \cup {"manual"}
    /\ UNCHANGED <<process, settings, read, mounted, listeners, inFlight, heard, waited, verdict, boots>>

UnmapHost ==
    /\ Up /\ inFlight # {} /\ mounted /\ "manual" \in mapped
    /\ mapped' = mapped \ {"manual"}
    /\ UNCHANGED <<process, settings, read, mounted, listeners, inFlight, heard, waited, verdict, boots>>

(***************************************************************************)
(* Shutdown                                                                  *)
(***************************************************************************)

\* Before the handlers are installed the signal ends the process.
Signal ==
    /\ process # "down" /\ ~heard
    /\ IF Up
       THEN heard' = TRUE /\ UNCHANGED <<process, settings, mounted, listeners, inFlight, waited, verdict>>
       ELSE End("killed")
    /\ UNCHANGED <<read, mapped, boots>>

\* Each listener watches the channel in its own task.
StopListening(l) ==
    /\ heard /\ l \in listeners
    /\ listeners' = listeners \ {l}
    /\ UNCHANGED <<process, settings, read, mounted, mapped, inFlight, heard, waited, verdict, boots>>

\* The serving task is done: nothing accepted any more, nothing in flight.
Stop ==
    /\ process = "serving" /\ heard /\ "main" \notin listeners /\ inFlight = {}
    /\ End("stopped")
    /\ UNCHANGED <<read, mapped, boots>>

Tick ==
    /\ heard /\ waited < Timeout
    /\ waited' = waited + 1
    /\ UNCHANGED <<process, settings, read, mounted, mapped, listeners, inFlight, heard, verdict, boots>>

\* Slip: it aborts nothing while requests are in flight.
OverdueIdle == heard /\ waited = Timeout /\ inFlight = {}

\* forced_shutdown: the channel, then the timeout.
Overdue == heard /\ waited = Timeout

ForcedShutdown ==
    /\ process = "serving" /\ Overdue
    /\ End("stopped")
    /\ UNCHANGED <<read, mapped, boots>>

\* SIGKILL: the manager's when its own grace is over, or the operator's.
SigKill ==
    /\ process # "down"
    /\ End("killed")
    /\ UNCHANGED <<read, mapped, boots>>

LifeStep ==
    \/ BindRedirect \/ Stop \/ Tick \/ ForcedShutdown
    \/ \E l \in {"main", "redirect"} : StopListening(l)

LifeNext ==
    \/ EditFiles
    \/ /\ UNCHANGED fileVars
       /\ \/ Boot \/ Load \/ Prepare \/ Seed \/ Assemble \/ RefuseUnstyled \/ BootFails \/ Bind
          \/ \E r \in Requests : Accept(r) \/ Complete(r)
          \/ MapHost \/ UnmapHost \/ Signal \/ SigKill
          \/ LifeStep

\* The tasks of the runtime and its timers run; clients may hold a request for ever,
\* and a boot may hang on the database.
ServerStep == LifeStep /\ UNCHANGED fileVars

LifeSpec == LifeInit /\ [][LifeNext]_lifeVars /\ WF_lifeVars(ServerStep)

(***************************************************************************)
(* Properties                                                                *)
(***************************************************************************)

LifeTypeOK ==
    /\ process \in Phases /\ verdict \in Verdicts
    /\ DOMAIN settings = IF process \in {"down", "loading"} THEN {} ELSE Keys
    /\ mapped \subseteq {"listed", "manual"} /\ listeners \subseteq {"main", "redirect"}
    /\ inFlight \subseteq Requests /\ waited \in 0..Timeout
    /\ (process = "down" => listeners = {} /\ inFlight = {})

\* What is enabled is there while the server serves, through every edit of the
\* files, list of hosts and row of the panel: the CMS is mounted, and its host
\* names find the static tree they borrow their stylesheets from.
MountsWhatIsEnabled ==
    /\ LifeTypeOK
    /\ Up /\ settings["cms.enabled"] => mounted
    /\ Up /\ settings["cms.enabled"] /\ mapped # {} => settings["static.enabled"]

\* A boot refuses the files only for what the manager cannot see: the environment,
\* an edit between the two reads, or somebody else's edit; and the mapped hosts
\* only when the panel mapped one itself.
RefusalHasReason ==
    /\ verdict = "rejected" => read.env # Empty \/ read.torn \/ disturbed
    /\ verdict = "unstyled" => "manual" \in mapped

\* After a signal the process ends, whatever its clients do.
ShutdownEnds == heard ~> process = "down"
=============================================================================
