------------------------------ MODULE MCManager -------------------------------
(* The manager beside the server: a behaviour shows one of four, the log page   *)
(* of the shell (ServerProcess), the editor of the configuration (ConfigEditor), *)
(* the server that is booted from files that change (ServerLife) or the takeover *)
(* of its port (Takeover), with the others at rest.                             *)
EXTENDS MCServerProcess, ConfigEditor, ServerLife, Takeover

CONSTANTS a1,     \* a client of the server
          s1, s2  \* process identifiers of the system

VARIABLE part

(* A site with a CMS, and what is typed over it.                             *)

Stack ==
    ("auth.jwt_secret" :> "good") @@ ("tls.http_listen" :> "good")
      @@ [k \in {"database.enabled", "auth.enabled", "templates.enabled", "static.enabled",
                 "cms.enabled"} |-> TRUE]
      @@ [k \in PemKeys |-> "good"]

Listed == "cms.hosts" :> "good"
Unserved == "static.enabled" :> FALSE
Encrypted == "tls.enabled" :> TRUE

EditorTexts == {Listed @@ Stack, Unserved}
EditorFields == "static.enabled" :> {FALSE}
DeployedTexts == {Stack, Listed, Unserved, Malformed}
DeployedEnvironments == {Empty, Encrypted, Unserved}
OneClient == {a1}
TwoPids == {s1, s2}

NoFiles == [l \in Layers |-> Missing]

\* The editor is opened on the files of a site with a CMS.
ManagerInit ==
    /\ Init /\ EditorInit /\ LifeInit /\ TakeoverInit
    /\ part \in {"logs", "editing", "deployment", "takeover"}
    /\ IF part = "editing" THEN disk["base"] = Listed @@ Stack ELSE disk = NoFiles
    /\ part = "deployment" \/ files = NoFiles

\* Two polls over one run of the server, or over two runs that print one line each. A
\* server ends by itself: the stops are those of the run of the commands.
LogBounds ==
    /\ \A c \in Callers : caller'[c].pc # "terminate"
    /\ slot' = 2 => \A r \in 1..2 : server'[r].printed <= 1

ManagerNext ==
    /\ UNCHANGED part
    /\ \/ part = "logs" /\ Next /\ LogBounds /\ UNCHANGED <<editorVars, lifeVars, takeoverVars>>
       \/ part = "editing" /\ EditorNext /\ UNCHANGED <<vars, lifeVars, takeoverVars>>
       \/ part = "deployment" /\ LifeNext /\ UNCHANGED <<vars, editorVars, takeoverVars>>
       \/ part = "takeover" /\ TakeoverNext /\ UNCHANGED <<vars, editorVars, lifeVars>>

\* The tasks of the server make progress; the logs, the editor and the boots need not.
ManagerSpec ==
    /\ ManagerInit
    /\ [][ManagerNext]_<<part, vars, editorVars, lifeVars, takeoverVars>>
    /\ WF_<<part, lifeVars>>(part = "deployment" /\ ServerStep
                               /\ UNCHANGED <<part, vars, editorVars, takeoverVars>>)
=============================================================================
