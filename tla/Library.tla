-------------------------------- MODULE Library --------------------------------
(***************************************************************************)
(* What surrounds the pages of the CMS: the menus, whose items link pages    *)
(* (src/src/routes/cms.rs and the menu repository of src/src/db.rs), and the *)
(* media library, whose rows name two files on disk (src/src/routes/media.rs *)
(* and the media repository).                                                *)
(*                                                                          *)
(* Titles, labels, positions and alt texts are left out; a page is its       *)
(* organization and whether visitors see it.  A request's steps are its      *)
(* statements and file operations; others run in between, each may fail, and *)
(* a request may be cut off (the client left, the process died).             *)
(***************************************************************************)
EXTENDS Naturals, FiniteSets

CONSTANTS Requests,      \* requests of the panel in flight
          Organizations,
          MaxMenus, MaxItems, MaxSitePages, MaxUploads   \* bounds: rows ever created

ASSUME LibraryAssumption ==
    /\ MaxMenus \in Nat /\ MaxItems \in Nat /\ MaxSitePages \in Nat /\ MaxUploads \in Nat
    /\ "none" \notin Organizations

VARIABLES
    sitePages, \* id -> [org, visible], NoSitePage without a row
    menus,     \* id -> its organization, "none" without a row
    items,     \* id -> [menu, page]; page 0 is a custom URL
    media,     \* upload -> the organization of its row, "none" without one
    files,     \* the files of media_dir: <<upload, "full" or "thumb">>
    partial,   \* those whose write failed half-way
    created,   \* rows ever created: ids (AUTOINCREMENT) and stems are not reused
    requests,  \* the requests in flight
    left,      \* history: the files that the step which failed leaves to nobody
    strayed    \* history: the items last saved into another organization's menu

disk == <<files, partial, left>>
libraryVars == <<sitePages, menus, items, media, disk, created, requests, strayed>>

SitePageIds == 1..MaxSitePages
MenuIds == 1..MaxMenus
ItemIds == 1..MaxItems
Uploads == 1..MaxUploads
Url == 0                       \* page_id NULL: the item carries a url

NoSitePage == [org |-> "none", visible |-> FALSE]
NoItem == [menu |-> 0, page |-> 0]
SitePage == [org : Organizations, visible : BOOLEAN]
Item == [menu : MenuIds, page : SitePageIds \cup {Url}]
Files(u) == {<<u, "full">>, <<u, "thumb">>}

LibrarySteps == {"idle", "validate", "add", "save", "drop",
                 "thumb", "rollback", "row", "undo", "erase", "erase thumb"}
LibraryRequest ==
    [pc : LibrarySteps, org : Organizations \cup {"none"}, menu : 0..MaxMenus,
     item : 0..MaxItems, page : 0..MaxSitePages, upload : 0..MaxUploads]
IdleRequest ==
    [pc |-> "idle", org |-> "none", menu |-> 0, item |-> 0, page |-> 0, upload |-> 0]

LibraryTypeOK ==
    /\ sitePages \in [SitePageIds -> SitePage \cup {NoSitePage}]
    /\ menus \in [MenuIds -> Organizations \cup {"none"}]
    /\ items \in [ItemIds -> Item \cup {NoItem}]
    /\ media \in [Uploads -> Organizations \cup {"none"}]
    /\ files \subseteq Uploads \X {"full", "thumb"}
    /\ partial \subseteq Uploads \X {"full", "thumb"}
    /\ left \subseteq Uploads \X {"full", "thumb"}
    /\ created \in [page : 0..MaxSitePages, menu : 0..MaxMenus, item : 0..MaxItems,
                    upload : 0..MaxUploads]
    /\ requests \in [Requests -> LibraryRequest]
    /\ strayed \subseteq ItemIds

LibraryInit ==
    /\ sitePages = [p \in SitePageIds |-> NoSitePage]
    /\ menus = [m \in MenuIds |-> "none"]
    /\ items = [i \in ItemIds |-> NoItem]
    /\ media = [u \in Uploads |-> "none"]
    /\ files = {} /\ partial = {} /\ left = {} /\ strayed = {}
    /\ created = [page |-> 0, menu |-> 0, item |-> 0, upload |-> 0]
    /\ requests = [e \in Requests |-> IdleRequest]

Goto(e, task) == requests' = [requests EXCEPT ![e] = task]

-----------------------------------------------------------------------------
(* Pages, as far as menus depend on them.                                   *)

PageAdded ==
    /\ created.page < MaxSitePages
    /\ created' = [created EXCEPT !.page = @ + 1]
    /\ \E page \in SitePage : sitePages' = [sitePages EXCEPT ![created.page + 1] = page]
    /\ UNCHANGED <<menus, items, media, disk, requests, strayed>>

PageShownOrHidden ==
    /\ \E p \in SitePageIds : /\ sitePages[p] # NoSitePage
                          /\ sitePages' = [sitePages EXCEPT ![p].visible = ~@]
    /\ UNCHANGED <<menus, items, media, disk, created, requests, strayed>>

\* delete_page: its menu items go with it (ON DELETE CASCADE).
PageDeleted ==
    /\ \E p \in SitePageIds :
          /\ sitePages[p] # NoSitePage
          /\ sitePages' = [sitePages EXCEPT ![p] = NoSitePage]
          /\ items' = [i \in ItemIds |-> IF items[i].page = p THEN NoItem ELSE items[i]]
    /\ UNCHANGED <<menus, media, disk, created, requests, strayed>>

-----------------------------------------------------------------------------
(* Menus.                                                                   *)

OwnsMenu(org, m) == m \in MenuIds /\ menus[m] = org

\* item_org_scope: an item belongs to the organization of its menu.
OwnsItem(org, i) == items[i] # NoItem /\ OwnsMenu(org, items[i].menu)

\* create_menu.
CreateMenu ==
    /\ created.menu < MaxMenus
    /\ created' = [created EXCEPT !.menu = @ + 1]
    /\ \E org \in Organizations : menus' = [menus EXCEPT ![created.menu + 1] = org]
    /\ UNCHANGED <<sitePages, items, media, disk, requests, strayed>>

\* delete_menu: the items go with it.
DeleteMenu ==
    /\ \E org \in Organizations, m \in MenuIds :
          /\ OwnsMenu(org, m)
          /\ menus' = [menus EXCEPT ![m] = "none"]
          /\ items' = [i \in ItemIds |-> IF items[i].menu = m THEN NoItem ELSE items[i]]
    /\ UNCHANGED <<sitePages, media, disk, created, requests, strayed>>

\* create_item: load_menu; the form links a page or a URL.
StartItem(e) ==
    /\ requests[e].pc = "idle"
    /\ \E org \in Organizations, m \in MenuIds, p \in SitePageIds \cup {Url} :
          /\ OwnsMenu(org, m)
          /\ Goto(e, [IdleRequest EXCEPT !.pc = "validate", !.org = org, !.menu = m, !.page = p])
    /\ UNCHANGED <<sitePages, menus, items, media, disk, created, strayed>>

\* update_item: find_item; the menu is the one the address names, whosever it
\* is: only the foreign key looks at it.
StartUpdate(e) ==
    /\ requests[e].pc = "idle"
    /\ \E org \in Organizations, i \in ItemIds, m \in MenuIds, p \in SitePageIds \cup {Url} :
          /\ OwnsItem(org, i)
          /\ Goto(e, [IdleRequest EXCEPT !.pc = "validate", !.org = org, !.item = i, !.menu = m,
                                  !.page = p])
    /\ UNCHANGED <<sitePages, menus, items, media, disk, created, strayed>>

\* Slip: any page that exists will do.
ValidateAnyPage(e) ==
    /\ requests[e].pc = "validate"
    /\ requests[e].page # Url => sitePages[requests[e].page] # NoSitePage
    /\ Goto(e, [requests[e] EXCEPT !.pc = IF requests[e].item = 0 THEN "add" ELSE "save"])
    /\ UNCHANGED <<sitePages, menus, items, media, disk, created, strayed>>

\* validate_item_form: load_page within the organization.
Validate(e) ==
    /\ requests[e].pc = "validate"
    /\ requests[e].page # Url => sitePages[requests[e].page].org = requests[e].org
    /\ Goto(e, [requests[e] EXCEPT !.pc = IF requests[e].item = 0 THEN "add" ELSE "save"])
    /\ UNCHANGED <<sitePages, menus, items, media, disk, created, strayed>>

\* The foreign keys of menu_items: the menu and the page are there.
KeysHold(task) == /\ menus[task.menu] # "none"
                  /\ task.page # Url => sitePages[task.page] # NoSitePage

AddItem(e) ==
    /\ requests[e].pc = "add" /\ created.item < MaxItems
    /\ KeysHold(requests[e])
    /\ created' = [created EXCEPT !.item = @ + 1]
    /\ items' = [items EXCEPT ![created.item + 1] =
                    [menu |-> requests[e].menu, page |-> requests[e].page]]
    /\ Goto(e, IdleRequest)
    /\ UNCHANGED <<sitePages, menus, media, disk, strayed>>

\* update_item of the repository: zero rows for an item that is gone, or has
\* left the menus of the organization.
SaveItem(e) ==
    /\ requests[e].pc = "save"
    /\ OwnsItem(requests[e].org, requests[e].item) /\ KeysHold(requests[e])
    /\ items' = [items EXCEPT ![requests[e].item] =
                    [menu |-> requests[e].menu, page |-> requests[e].page]]
    /\ strayed' = IF menus[requests[e].menu] = requests[e].org
                  THEN strayed \ {requests[e].item} ELSE strayed \cup {requests[e].item}
    /\ Goto(e, IdleRequest)
    /\ UNCHANGED <<sitePages, menus, media, disk, created>>

\* delete_item: load_menu_item, which must sit in the addressed menu; then
\* DropItem deletes it, wherever it has moved inside the organization.
StartDrop(e) ==
    /\ requests[e].pc = "idle"
    /\ \E org \in Organizations, i \in ItemIds :
          /\ OwnsItem(org, i)
          /\ Goto(e, [IdleRequest EXCEPT !.pc = "drop", !.org = org, !.item = i])
    /\ UNCHANGED <<sitePages, menus, items, media, disk, created, strayed>>

DropItem(e) ==
    /\ requests[e].pc = "drop"
    /\ items' = IF OwnsItem(requests[e].org, requests[e].item)
                THEN [items EXCEPT ![requests[e].item] = NoItem] ELSE items
    /\ Goto(e, IdleRequest)
    /\ UNCHANGED <<sitePages, menus, media, disk, created, strayed>>

\* resolved: one joined read; items of pages visitors do not see are skipped.
Resolved(org) == {i \in ItemIds : /\ items[i] # NoItem /\ menus[items[i].menu] = org
                                  /\ items[i].page # Url => sitePages[items[i].page].visible}

-----------------------------------------------------------------------------
(* The media library.                                                       *)

\* tokio::fs::write of a new file: all of it; or it fails, with nothing or a
\* part of it on the disk.  A failed write is the request's last look at f.
Writes(f) == files' = files \cup {f} /\ UNCHANGED <<partial, left>>
CutShort(f) ==
    \/ UNCHANGED disk
    \/ files' = files \cup {f} /\ partial' = partial \cup {f} /\ left' = left \cup {f}

\* upload_media: the decoded image is written under a fresh stem; when it
\* cannot be, the request ends.
Upload(e) ==
    /\ requests[e].pc = "idle" /\ created.upload < MaxUploads
    /\ \E org \in Organizations :
          LET u == created.upload + 1
          IN  /\ created' = [created EXCEPT !.upload = u]
              /\ \/ /\ Writes(<<u, "full">>)
                    /\ Goto(e, [IdleRequest EXCEPT !.pc = "thumb", !.org = org, !.upload = u])
                 \/ CutShort(<<u, "full">>) /\ Goto(e, IdleRequest)
    /\ UNCHANGED <<sitePages, menus, items, media, strayed>>

\* The thumbnail; when it cannot be written the full file is removed again.
WriteThumb(e) ==
    /\ requests[e].pc = "thumb"
    /\ LET thumb == <<requests[e].upload, "thumb">>
       IN  \/ Writes(thumb) /\ Goto(e, [requests[e] EXCEPT !.pc = "row"])
           \/ CutShort(thumb) /\ Goto(e, [requests[e] EXCEPT !.pc = "rollback"])
    /\ UNCHANGED <<sitePages, menus, items, media, created, strayed>>

\* The row, or both files are removed again.
InsertMedia(e) ==
    /\ requests[e].pc = "row"
    /\ \/ /\ media' = [media EXCEPT ![requests[e].upload] = requests[e].org]
          /\ Goto(e, IdleRequest)
       \/ media' = media /\ Goto(e, [requests[e] EXCEPT !.pc = "undo"])
    /\ UNCHANGED <<sitePages, menus, items, disk, created, strayed>>

\* remove_file, one at a time; what a failed one leaves behind is an orphan.
Remove(e, name, next) ==
    /\ LET f == <<requests[e].upload, name>>
       IN  \/ files' = files \ {f} /\ left' = left
           \/ files' = files /\ left' = left \cup {f}
    /\ Goto(e, next)
    /\ UNCHANGED <<sitePages, menus, items, media, partial, created, strayed>>

\* After a thumbnail that was not written: the full file alone.
Rollback(e) == requests[e].pc = "rollback" /\ Remove(e, "full", IdleRequest)

\* After a row that was not inserted: both files.
Undo(e) == /\ requests[e].pc = "undo"
           /\ Remove(e, "full", [requests[e] EXCEPT !.pc = "erase thumb"])

\* Slip: the files first, as long as the row names them.
DeleteMediaFilesFirst(e) ==
    /\ requests[e].pc = "idle"
    /\ \E org \in Organizations, u \in Uploads :
          /\ media[u] = org
          /\ files' = files \ Files(u)
          /\ Goto(e, [IdleRequest EXCEPT !.pc = "erase", !.org = org, !.upload = u])
    /\ UNCHANGED <<sitePages, menus, items, media, partial, left, created, strayed>>

\* delete_media: the row goes first, of two deletions one finds it.
DeleteMedia(e) ==
    /\ requests[e].pc = "idle"
    /\ \E org \in Organizations, u \in Uploads :
          /\ media[u] = org
          /\ media' = [media EXCEPT ![u] = "none"]
          /\ Goto(e, [IdleRequest EXCEPT !.pc = "erase", !.org = org, !.upload = u])
    /\ UNCHANGED <<sitePages, menus, items, disk, created, strayed>>

Erase(e) == /\ requests[e].pc = "erase"
            /\ Remove(e, "full", [requests[e] EXCEPT !.pc = "erase thumb"])

EraseThumb(e) == requests[e].pc = "erase thumb" /\ Remove(e, "thumb", IdleRequest)

\* A request refused by a check, failed by the database or cut off: what it
\* did stays.
Abandon(e) ==
    /\ requests[e].pc # "idle"
    /\ Goto(e, IdleRequest)
    /\ left' = left \cup {f \in files : f[1] = requests[e].upload}
    /\ UNCHANGED <<sitePages, menus, items, media, files, partial, created, strayed>>

LibraryNext ==
    \/ PageAdded \/ PageShownOrHidden \/ PageDeleted \/ CreateMenu \/ DeleteMenu
    \/ \E e \in Requests :
          \/ StartItem(e) \/ StartUpdate(e) \/ Validate(e) \/ AddItem(e) \/ SaveItem(e)
          \/ StartDrop(e) \/ DropItem(e)
          \/ Upload(e) \/ WriteThumb(e) \/ InsertMedia(e) \/ Rollback(e) \/ Undo(e)
          \/ DeleteMedia(e) \/ Erase(e) \/ EraseThumb(e) \/ Abandon(e)

LibrarySpec == LibraryInit /\ [][LibraryNext]_libraryVars

-----------------------------------------------------------------------------
(* Properties.                                                              *)

\* A menu item names a menu and a page that are there (also when the page, the
\* menu or the item goes while a form is on its way), so no item of the
\* navigation links a page that was deleted or that visitors do not see; and it
\* stays in a menu of the organization whose page it links, unless it was last
\* saved through the address of another organization's menu, which update_item
\* accepts.
NavigationOpens ==
    /\ \A i \in ItemIds : items[i] # NoItem =>
          /\ menus[items[i].menu] # "none"
          /\ items[i].page # Url => sitePages[items[i].page] # NoSitePage
          /\ items[i].page # Url /\ i \notin strayed =>
                 sitePages[items[i].page].org = menus[items[i].menu]
    /\ \A org \in Organizations : \A i \in Resolved(org) :
          items[i].page # Url /\ i \notin strayed =>
              sitePages[items[i].page] = [org |-> org, visible |-> TRUE]

\* On well-typed states the library and the disk agree, whatever failed or was
\* cut off: a row has both its files, and whole, so no address the panel shows
\* answers 404 or half an image; and every file on the disk is named by a row,
\* is in the hands of a request about to name or remove it, or is one that a
\* failing step left behind: a write that stopped half-way, a removal that
\* failed, the files of a request that was cut off.
FilesMatchRows ==
    /\ LibraryTypeOK
    /\ \A u \in Uploads : media[u] # "none" => Files(u) \subseteq files \ partial
    /\ \A f \in files : \/ media[f[1]] # "none"
                         \/ f \in left
                         \/ \E e \in Requests : requests[e].upload = f[1]
=============================================================================
