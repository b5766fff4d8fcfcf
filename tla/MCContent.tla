------------------------------ MODULE MCContent ------------------------------
(* What the editors keep: a behaviour shows the pages of one organization with *)
(* their history and schedules, the trees of two organizations under a walk up *)
(* the ancestors that gives up after its first hop (both Pages), the menus, or *)
(* the media (both Library); the others are at rest.                          *)
EXTENDS MCPages, Library

VARIABLE part

\* The tree alone: published pages, without a schedule.
Hasty == INSTANCE Pages
         WITH MaxHops <- 1, LastSecond <- 1, States <- {[published |-> TRUE, due |-> 0]}

\* Whichever organization the first request is for has all of them.
OneSite ==
    \E org \in Orgs : /\ \A e \in Editors : tasks'[e].org \in {org, "none"}
                      /\ \A id \in Ids : Exists(id)' => pages'[id].org = org

ContentInit == Init /\ LibraryInit /\ part \in {"pages", "hasty", "menus", "media"}

ContentNext ==
    /\ UNCHANGED part
    /\ \/ part = "pages" /\ Next /\ OneSite /\ UNCHANGED libraryVars
       \/ part = "hasty" /\ Hasty!Next /\ UNCHANGED libraryVars
       \/ part = "menus" /\ LibraryNext /\ created'.upload = 0 /\ UNCHANGED vars
       \/ part = "media" /\ LibraryNext /\ created'.menu + created'.page = 0 /\ UNCHANGED vars

ContentSpec == ContentInit /\ [][ContentNext]_<<part, vars, libraryVars>>
=============================================================================
