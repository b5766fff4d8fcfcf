----------------------------- MODULE ConfigEditor ------------------------------
(***************************************************************************)
(* The manager's configuration editor: the page of the shell that shows one   *)
(* layer at a time, as a form or as text (src/manager/ui/app.js), and the     *)
(* three steps of every write, validate, back up, replace                     *)
(* (src/manager/crates/wallermax-manager-core/src/config_manager.rs).        *)
(*                                                                          *)
(* The commands of the shell run one at a time, and their answers come back   *)
(* in order but later: a load is asked for when a button is pressed and fills *)
(* its widget when it is answered.  Between the steps of a write the manager  *)
(* may fail or be killed, and somebody else may edit the files.  A refused    *)
(* write changes nothing: the refusals are the guards.                       *)
(***************************************************************************)
EXTENDS Configuration, Sequences

CONSTANTS Texts,      \* what is typed into the editor, or by another editor
          Fields,     \* the curated keys of the form, with the values typed there
          MaxWrites,  \* bound: writes begun, and edits by somebody else
          MaxLoads    \* bound: loads waiting for their answer

ASSUME EditorAssumption ==
    /\ MaxLoads \in Nat \ {0}
    /\ \A t \in Texts : Parses(t)

VARIABLES disk,     \* the two files
          backups,  \* the texts kept of each
          shell,    \* the configuration page
          saver,    \* the write in progress
          lost,     \* texts replaced without a backup
          crossed,  \* somebody edited a file between its backup and its replacement
          foreign,  \* somebody edited a file
          writes    \* writes begun, and edits by somebody else

editorVars == <<disk, backups, shell, saver, lost, crossed, foreign, writes>>

Modes == {"form", "raw"}

Read(layer) == TextOf(disk, layer)

\* What the files are promised to be.
Files == INSTANCE ConfigFiles WITH disturbed <- foreign

Idle == [pc |-> "idle", layer |-> "base", text |-> Empty, via |-> "none"]

\* A freshly opened page: the form of the base layer, asked for and not loaded yet.
Opened == [file |-> "base", mode |-> "form", failed |-> FALSE,
           loads |-> <<[file |-> "base", mode |-> "form"]>>,
           text |-> [m \in Modes |-> Empty], from |-> [m \in Modes |-> "none"]]

EditorInit ==
    /\ disk \in [Layers -> Texts \cup {Missing}]
    /\ PairOK(disk)
    /\ backups = [l \in Layers |-> {}]
    /\ shell = Opened
    /\ saver = Idle
    /\ lost = {}
    /\ crossed = FALSE
    /\ foreign = FALSE
    /\ writes = 0

(***************************************************************************)
(* The page                                                                  *)
(***************************************************************************)

\* Slip: only the form is loaded again.
AskedForm(page) ==
    [page EXCEPT !.loads = @ \o (IF page.mode = "form" THEN <<[file |-> page.file, mode |-> "form"]>>
                                                     ELSE <<>>)]

\* loadForm or loadRaw, by the mode, of the layer selected now.
Asked(page) == [page EXCEPT !.loads = Append(@, [file |-> page.file, mode |-> page.mode])]

\* The layer's and the mode's buttons, and the page's own in the menu.
Select(layer, mode) ==
    /\ Len(shell.loads) < MaxLoads
    /\ layer = shell.file \/ mode = shell.mode
    /\ shell' = Asked([shell EXCEPT !.file = layer, !.mode = mode])
    /\ UNCHANGED <<disk, backups, saver, lost, crossed, foreign, writes>>

\* What a widget shows of a file: the form its fields, nothing when it does not parse.
Shown(mode, layer) ==
    IF mode = "raw" THEN Read(layer)
    ELSE [k \in DOMAIN Read(layer) \cap DOMAIN Fields |-> Read(layer)[k]]

AnswerLoad ==
    /\ shell.loads # <<>>
    /\ LET load == Head(shell.loads)
       IN shell' = [shell EXCEPT !.loads = Tail(@), !.failed = FALSE,
                                 !.text[load.mode] = Shown(load.mode, load.file),
                                 !.from[load.mode] = load.file]
    /\ UNCHANGED <<disk, backups, saver, lost, crossed, foreign, writes>>

\* The file exists and cannot be read: a banner, and the text stays.
AnswerFails ==
    /\ shell.loads # <<>> /\ Head(shell.loads).mode = "raw"
    /\ shell' = [shell EXCEPT !.loads = Tail(@), !.failed = TRUE]
    /\ UNCHANGED <<disk, backups, saver, lost, crossed, foreign, writes>>

TypeText ==
    /\ shell.mode = "raw"
    /\ \E t \in Texts : shell' = [shell EXCEPT !.text["raw"] = t]
    /\ UNCHANGED <<disk, backups, saver, lost, crossed, foreign, writes>>

TypeField ==
    /\ shell.mode = "form"
    /\ \E k \in DOMAIN Fields : \E v \in Fields[k] :
          shell' = [shell EXCEPT !.text["form"] = (k :> v) @@ @]
    /\ UNCHANGED <<disk, backups, saver, lost, crossed, foreign, writes>>

(***************************************************************************)
(* A write                                                                   *)
(***************************************************************************)

\* Slip: the file is validated alone.
FileAccepted(layer, text) == PairOK([l \in Layers |-> IF l = layer THEN text ELSE Missing])

\* The pair as it will be: the incoming text and the other layer on the disk.
PairAccepted(layer, text) == PairOK([disk EXCEPT ![layer] = text])

\* write_raw up to its first write.
Write(layer, text, via) ==
    /\ saver = Idle /\ writes < MaxWrites
    /\ PairAccepted(layer, text)
    /\ saver' = [pc |-> "backup", layer |-> layer, text |-> text, via |-> via]
    /\ writes' = writes + 1
    /\ UNCHANGED <<disk, backups, shell, lost, crossed, foreign>>

SaveRaw == shell.mode = "raw" /\ Write(shell.file, shell.text["raw"], "raw")

\* set_values: every filled field goes into the document on the disk.
SaveForm ==
    /\ shell.mode = "form" /\ shell.text["form"] # Empty
    /\ Parses(Read(shell.file))
    /\ Write(shell.file, shell.text["form"] @@ Read(shell.file), "form")

Restore == \E l \in Layers : \E b \in backups[l] : Write(l, b, "restore")

Exists(layer) == disk[layer] # Missing

\* Slip: the steps are swapped, and the backup holds the new text.
BackupIncoming == saver.text

\* What the backup holds: the file being replaced.
BackupText == disk[saver.layer]

Backup ==
    /\ saver.pc = "backup"
    /\ saver' = [saver EXCEPT !.pc = "replace"]
    /\ IF Exists(saver.layer)
       THEN backups' = [backups EXCEPT ![saver.layer] = @ \cup {BackupText}]
       ELSE UNCHANGED backups
    /\ UNCHANGED <<disk, shell, lost, crossed, foreign, writes>>

\* write_atomically: the sibling is renamed over the file.
Replace ==
    /\ saver.pc = "replace"
    /\ disk' = [disk EXCEPT ![saver.layer] = saver.text]
    /\ lost' = lost \cup ({disk[saver.layer]} \ (backups[saver.layer] \cup {Missing, saver.text}))
    /\ saver' = Idle
    /\ UNCHANGED <<backups, shell, crossed, foreign, writes>>

\* A copy that is cut short may leave an empty backup behind.
CopyCutShort ==
    backups' \in {backups} \cup
        {[backups EXCEPT ![l] = @ \cup {Empty}] : l \in {saver.layer} \cap
             {l \in Layers : saver.pc = "backup" /\ Exists(l)}}

\* The copy, the sibling or the rename fails: the write ends with a message.
WriteFails ==
    /\ saver # Idle
    /\ CopyCutShort
    /\ saver' = Idle
    /\ UNCHANGED <<disk, shell, lost, crossed, foreign, writes>>

\* The manager dies, half way through a copy too.
ManagerDies ==
    /\ saver # Idle
    /\ CopyCutShort
    /\ saver' = Idle
    /\ shell' = Opened
    /\ UNCHANGED <<disk, lost, crossed, foreign, writes>>

\* Another editor, or another manager.
ForeignEdit ==
    /\ writes < MaxWrites
    /\ \E l \in Layers, t \in Texts \cup {Malformed} :
          /\ disk' = [disk EXCEPT ![l] = t]
          /\ crossed' = (crossed \/ (saver.pc = "replace" /\ saver.layer = l))
    /\ foreign' = TRUE
    /\ writes' = writes + 1
    /\ UNCHANGED <<backups, shell, saver, lost>>

EditorNext ==
    \/ \E l \in Layers, m \in Modes : Select(l, m)
    \/ AnswerLoad \/ AnswerFails \/ TypeText \/ TypeField
    \/ SaveRaw \/ SaveForm \/ Restore
    \/ Backup \/ Replace \/ WriteFails \/ ManagerDies
    \/ ForeignEdit

EditorSpec == EditorInit /\ [][EditorNext]_editorVars

(***************************************************************************)
(* Properties                                                                *)
(***************************************************************************)

EditorTypeOK ==
    /\ DOMAIN disk = Layers /\ DOMAIN backups = Layers
    /\ \A l \in Layers : disk[l] \in {Missing, Malformed} \/ Parses(disk[l])
    /\ shell.file \in Layers /\ shell.mode \in Modes /\ Len(shell.loads) \in 0..MaxLoads
    /\ saver.pc \in {"idle", "backup", "replace"} /\ saver.layer \in Layers

\* The editor keeps the promise: the pair is validated with the text that comes in,
\* and no step of a write, failed or cut off by a crash, shows on the disk before
\* the rename.
KeepsThePromise == Files!FilesSpec

\* What a save replaces can always be restored: the backup is taken before the
\* replacement, from the file it replaces, wherever the manager fails or dies.
\* Only an edit by somebody else between the two is lost.
NothingLost == EditorTypeOK /\ (lost = {} \/ crossed)

\* A save writes a layer's own text, or what was typed over it, into that layer:
\* switching layers or modes reloads the widget.  Pressing save before the load is
\* answered, or after one that failed, may write the other layer's text.
OwnTextSaved ==
    saver'.pc = "backup" /\ saver.pc = "idle" /\ saver'.via \in Modes =>
        \/ shell.from[saver'.via] = saver'.layer
        \/ shell.loads # <<>>
        \/ shell.failed
SavesWhatWasShown == [][OwnTextSaved]_editorVars
=============================================================================
