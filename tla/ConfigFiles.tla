------------------------------ MODULE ConfigFiles ------------------------------
(***************************************************************************)
(* What the manager promises of the two configuration files                  *)
(* (src/manager/crates/wallermax-manager-core/src/config_manager.rs, the      *)
(* module comment and write_raw): one file at a time is replaced, at once,    *)
(* and the pair stays one that the server accepts.  Once somebody else has    *)
(* written a file, a save that was validated before may break the pair.       *)
(***************************************************************************)
CONSTANTS Layers,    \* the files
          Missing,   \* the content of one that is not there
          Texts,     \* what a file holds
          PairOK(_)  \* the files are accepted together

VARIABLES disk,     \* the two files
          disturbed \* somebody else wrote one

FilesInit ==
    /\ disk \in [Layers -> Texts \cup {Missing}]
    /\ PairOK(disk)
    /\ disturbed = FALSE

Replaced(layer, text) == [disk EXCEPT ![layer] = text]

\* The manager's write, seen from the disk.
Save(layer, text) ==
    /\ disturbed \/ PairOK(Replaced(layer, text))
    /\ disk' = Replaced(layer, text)
    /\ UNCHANGED disturbed

OthersWrite(layer, text) ==
    /\ disk' = Replaced(layer, text)
    /\ disturbed' = TRUE

FilesNext == \E l \in Layers : Save(l, disk'[l]) \/ OthersWrite(l, disk'[l])

FilesSpec == FilesInit /\ [][FilesNext]_<<disk, disturbed>>
=============================================================================
