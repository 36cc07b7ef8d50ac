----------------------------- MODULE FilesPage -----------------------------
(***************************************************************************)
(* The file browser (web/src/pages/FilesPage.tsx) over the HTTP API.       *)
(*                                                                         *)
(* The page holds a copy of one listing and edits it locally after its own *)
(* deletions and renames.  Every handler is split where the code awaits:   *)
(* the first half sends a call, the answer runs the second half.  Calls    *)
(* are executed by the server and answered in any order; an execution may  *)
(* fail, be partial, or lose its answer.  Handlers go on with the values   *)
(* their closure captured, so a call carries them.                         *)
(*                                                                         *)
(* An item that is not there has the name None.  A keyword is a name: a    *)
(* folder is listed live, a search finds what the cache table has under    *)
(* that name.                                                              *)
(***************************************************************************)
EXTENDS Integers, SequencesExt

CONSTANTS
    Item,       \* what the merged drive can hold: files and folders
    Folder,     \* the folders among them
    Root,       \* the top of the drive, not an item
    Home,       \* the folder each item lies in
    Video,      \* the files the player opens
    Name,       \* names, and the keywords that find them
    None,       \* no name, no item, no keyword
    Drives,     \* what the drive may hold at first
    MaxCalls,   \* bound on the calls in flight
    MaxActs     \* bound on the user's acts and the watcher's checks

ASSUME FilesPageAssumption ==
    /\ Folder \subseteq Item /\ Video \subseteq Item \ Folder
    /\ Root \notin Item /\ Home \in [Item -> Folder \union {Root}]
    /\ None \notin Item \union Name \union {Root}
    /\ (Item \union {Root}) \intersect Name = {}
    /\ Drives \subseteq [Item -> Name \union {None}]
    /\ MaxCalls \in Nat \ {0} /\ MaxActs \in Nat

VARIABLES
    remote,     \* the drive: the name of each item that is there
    page,       \* the state hooks of the mounted page
    calls,      \* the calls in flight, in the order they were sent
    acts,       \* acts so far
    orderly,    \* history: calls were served and answered whole and in order
    lone        \* history: no list call ever met another, or an unasked one

vars == <<remote, page, calls, acts, orderly, lone>>

Listing == [Item -> Name \union {None}]

There(listing) == {i \in Item : listing[i] # None}

Query == Folder \union {Root} \union Name

(***************************************************************************)
(* The state hooks.  renaming is the item the rename dialog is open for,   *)
(* image and video what the two viewers show, menu the item of the context *)
(* menu.                                                                   *)
(***************************************************************************)
Page ==
    [mounted : BOOLEAN, path : Seq(Folder \union {Root}),
     keyword : Name \union {None}, files : Listing, loading : BOOLEAN,
     selected : SUBSET Item, deleting : BOOLEAN, menu : Item \union {None},
     renaming : Item \union {None}, submitting : BOOLEAN,
     image : Item \union {None}, video : Item \union {None}]

FreshPage ==
    [mounted |-> TRUE, path |-> <<Root>>, keyword |-> None,
     files |-> [i \in Item |-> None], loading |-> TRUE, selected |-> {},
     deleting |-> FALSE, menu |-> None, renaming |-> None,
     submitting |-> FALSE, image |-> None, video |-> None]

Kinds ==
    {"load", "check", "refresh", "reload", "delete", "batch", "rename", "info"}

\* A call: what it asks, what its closure captured, and the answer so far.
Call ==
    [kind : Kinds, query : Query, items : SUBSET Item, name : Name \union {None},
     mine : BOOLEAN, state : {"sent", "ok", "error"}, answer : Listing]

Sent(kind, query, items, name) ==
    [kind |-> kind, query |-> query, items |-> items, name |-> name,
     mine |-> TRUE, state |-> "sent", answer |-> [i \in Item |-> None]]

\* The query of a page: its keyword if it has one, else its last breadcrumb.
QueryOf(p) == IF p.keyword # None THEN p.keyword ELSE Last(p.path)

FolderOf(p) == Last(p.path)

Load(p) == Sent("load", QueryOf(p), {}, None)

Lists == {"load", "refresh", "reload"}

ListsInFlight == {n \in DOMAIN calls : calls[n].kind \in Lists /\ calls[n].mine}

Init ==
    /\ remote \in Drives
    /\ page = FreshPage
    /\ calls = <<Load(FreshPage)>>
    /\ acts = 0
    /\ orderly = TRUE
    /\ lone = TRUE

-----------------------------------------------------------------------------
(***************************************************************************)
(* Sending.                                                                *)
(***************************************************************************)

\* Something the user, or a timer of the page, does.
Act ==
    /\ page.mounted
    /\ acts < MaxActs
    /\ acts' = acts + 1

CanSend == Len(calls) < MaxCalls

Send(call) ==
    /\ CanSend
    /\ calls' = Append(calls, call)
    /\ lone' = (lone /\ (call.kind \in Lists => ListsInFlight = {}))

\* The dialogs and viewers cover the page and the navigation bar.
Uncovered == page.renaming = None /\ page.image = None /\ page.video = None

\* The grid replaces the spinner.
Tiles == IF page.loading THEN {} ELSE There(page.files)

\* Mutant: the effect misses the folder among its dependencies.
RequeriesOnKeyword(p) == p.keyword # page.keyword

\* The effect on [currentFolder.virtualID, searchKeyword].
Requeries(p) == <<FolderOf(p), p.keyword>> # <<FolderOf(page), page.keyword>>

\* Mutant: a load keeps the selection.
ClearedKeepsTicks(p) == [p EXCEPT !.loading = TRUE]

\* The first lines of loadFiles, and of a search.
Cleared(p) == [p EXCEPT !.loading = TRUE, !.selected = {}]

\* Render p and run its effects.
Show(p) ==
    IF Requeries(p)
    THEN page' = Cleared(p) /\ Send(Load(p))
    ELSE page' = p /\ UNCHANGED <<calls, lone>>

\* navigateToFolder: a click on a folder's tile, or preview in its menu.
OpenFolder(i) ==
    /\ Act
    /\ Uncovered
    /\ i \in Folder
    /\ i \in Tiles \/ i = page.menu
    /\ Show([page EXCEPT !.path = Append(@, i), !.keyword = None, !.menu = None])
    /\ UNCHANGED <<remote, orderly>>

\* Mutant: only the crumb that was clicked is kept.
CrumbAt(path, n) == SubSeq(path, n, n)

\* The crumbs up to the one that was clicked.
CrumbsTo(path, n) == SubSeq(path, 1, n)

\* navigateToBreadcrumb: the bar is there below the root or in a search.
OpenBreadcrumb(n) ==
    /\ Act
    /\ Uncovered
    /\ n \in 1 .. Len(page.path)
    /\ Len(page.path) > 1 \/ page.keyword # None
    /\ Show([page EXCEPT !.path = CrumbsTo(@, n), !.keyword = None, !.menu = None])
    /\ UNCHANGED <<remote, orderly>>

\* The search field of the navigation bar, and its buttons that clear it.
Search(k) ==
    /\ Act
    /\ Uncovered
    /\ k # page.keyword
    /\ Show([page EXCEPT !.keyword = k])
    /\ UNCHANGED <<remote, orderly>>

\* toggleSelect on a tile's checkbox.
ToggleSelect(i) ==
    /\ Act
    /\ Uncovered
    /\ i \in Tiles
    /\ page' = [page EXCEPT !.menu = None,
                    !.selected = IF i \in @ THEN @ \ {i} ELSE @ \union {i}]
    /\ UNCHANGED <<remote, calls, orderly, lone>>

\* The banner's cancel button.
Unselect ==
    /\ Act
    /\ Uncovered
    /\ page.selected # {}
    /\ page' = [page EXCEPT !.selected = {}, !.menu = None]
    /\ UNCHANGED <<remote, calls, orderly, lone>>

\* handleDeleteSingle up to its await: the tile's button, or the menu's,
\* which closes the menu.  Nothing disables either.
DeleteSingle(i) ==
    /\ Act
    /\ Uncovered
    /\ \/ i \in Tiles /\ page' = page
       \/ i = page.menu /\ page' = [page EXCEPT !.menu = None]
    /\ Send(Sent("delete", QueryOf(page), {i}, None))
    /\ UNCHANGED <<remote, orderly>>

\* Mutant: the button stays enabled during a batch.
CanBatchAgain == page.selected # {}

\* The banner is shown and its button enabled.
CanBatch == page.selected # {} /\ ~page.deleting

\* handleBatchDelete up to its await.
BatchDelete ==
    /\ Act
    /\ Uncovered
    /\ CanBatch
    /\ page' = [page EXCEPT !.deleting = TRUE, !.menu = None]
    /\ Send(Sent("batch", QueryOf(page), page.selected, None))
    /\ UNCHANGED <<remote, orderly>>

\* handleContextMenu on a tile; any click or scroll outside closes the menu.
OpenMenu(i) ==
    /\ Act
    /\ Uncovered
    /\ i \in Tiles
    /\ page' = [page EXCEPT !.menu = i]
    /\ UNCHANGED <<remote, calls, orderly, lone>>

CloseMenu ==
    /\ Act
    /\ page.menu # None
    /\ page' = [page EXCEPT !.menu = None]
    /\ UNCHANGED <<remote, calls, orderly, lone>>

\* handleStartRename for the item of the menu, whether still listed or not.
StartRename ==
    /\ Act
    /\ Uncovered
    /\ page.menu # None
    /\ page' = [page EXCEPT !.menu = None, !.renaming = page.menu]
    /\ UNCHANGED <<remote, calls, orderly, lone>>

\* handleConfirmRename up to its await, for the name in the field.
ConfirmRename(name) ==
    /\ Act
    /\ page.renaming # None
    /\ ~page.submitting
    /\ page' = [page EXCEPT !.submitting = TRUE]
    /\ Send(Sent("rename", QueryOf(page), {page.renaming}, name))
    /\ UNCHANGED <<remote, orderly>>

\* The dialog's close buttons work while the rename is under way.
CloseRename ==
    /\ Act
    /\ page.renaming # None
    /\ page' = [page EXCEPT !.renaming = None]
    /\ UNCHANGED <<remote, calls, orderly, lone>>

\* A click on a video's tile, or preview in its menu.
OpenVideo(i) ==
    /\ Act
    /\ Uncovered
    /\ i \in Video
    /\ i \in Tiles \/ i = page.menu
    /\ page' = [page EXCEPT !.menu = None, !.video = i]
    /\ UNCHANGED <<remote, calls, orderly, lone>>

\* handlePreview of any other file up to its await.  handleDownloadFile
\* sends the same call and keeps no state of the page.
Preview(i) ==
    /\ Act
    /\ Uncovered
    /\ i \in Item \ (Folder \union Video)
    /\ i \in Tiles \/ i = page.menu
    /\ page' = [page EXCEPT !.menu = None]
    /\ Send(Sent("info", QueryOf(page), {i}, None))
    /\ UNCHANGED <<remote, orderly>>

CloseViewer ==
    /\ Act
    /\ \/ page.video # None /\ page' = [page EXCEPT !.video = None]
       \/ page.image # None /\ page' = [page EXCEPT !.image = None]
    /\ UNCHANGED <<remote, calls, orderly, lone>>

\* checkTaskStatus asks for the tasks (module TaskWatcher); the closure
\* holds the folder of this moment.
Check ==
    /\ Act
    /\ Send(Sent("check", FolderOf(page), {}, None))
    /\ UNCHANGED <<remote, page, orderly>>

\* The listing 1.5 s after a submission; navigation clears the timer.
DelayedReload ==
    /\ Act
    /\ Send(Sent("reload", FolderOf(page), {}, None))
    /\ orderly' = (orderly /\ page.keyword = None)
    /\ UNCHANGED <<remote, page>>

\* The settings page replaces this one: answers no longer reach it.
Leave ==
    /\ Act
    /\ Uncovered
    /\ page' = [page EXCEPT !.mounted = FALSE]
    /\ calls' = [n \in DOMAIN calls |-> [calls[n] EXCEPT !.mine = FALSE]]
    /\ UNCHANGED <<remote, orderly, lone>>

\* A fresh page; App has cleared the keyword.
Return ==
    /\ ~page.mounted
    /\ page' = FreshPage
    /\ Send(Load(FreshPage))
    /\ UNCHANGED <<remote, acts, orderly>>

-----------------------------------------------------------------------------
(***************************************************************************)
(* The server.                                                             *)
(***************************************************************************)

\* ListFiles asks PikPak what the folder holds now.
Answer(folder) ==
    [i \in Item |-> IF Home[i] = folder THEN remote[i] ELSE None]

\* listUnifiedRoot passes over an account that fails to list: the merged root
\* may miss any of its items.
Merged ==
    {[i \in Item |-> IF i \in listed THEN Answer(Root)[i] ELSE None] :
        listed \in SUBSET {i \in Item : Home[i] = Root}}

\* SearchFiles reads file_cache.  Earlier listings fill it in goroutines that
\* may be late, and nobody has to have listed an item: it may have any item
\* under that name, one that is gone or renamed too, and miss any.
Cached(keyword) ==
    {[i \in Item |-> IF i \in hits THEN keyword ELSE None] : hits \in SUBSET Item}

Answers(query) ==
    IF query \in Name THEN Cached(query)
    ELSE IF query = Root THEN Merged ELSE {Answer(query)}

\* A deletion takes the content of a folder with it.
Without(listing, items) ==
    [i \in Item |->
        IF i \in items \/ Home[i] \in items THEN None ELSE listing[i]]

Served(n, state, answer) ==
    calls' = [calls EXCEPT ![n] = [@ EXCEPT !.state = state, !.answer = answer]]

InOrder(n) == \A m \in 1 .. n - 1 : calls[m].state # "sent"

\* handleListFiles and handleSearchFiles.
ServeList(n) ==
    /\ calls[n].state = "sent" /\ calls[n].kind \in Lists
    /\ \/ \E answer \in Answers(calls[n].query) :
            /\ Served(n, "ok", answer)
            /\ orderly' = (orderly /\ InOrder(n) /\
                   (calls[n].query \in Name \/ answer = Answer(calls[n].query)))
       \/ Served(n, "error", calls[n].answer) /\ orderly' = FALSE
    /\ UNCHANGED <<remote, page, acts, lone>>

\* The tasks, and what the viewers need of one file.
ServeRead(n) ==
    /\ calls[n].state = "sent" /\ calls[n].kind \in {"check", "info"}
    /\ \E state \in {"ok", "error"} :
        /\ Served(n, state, calls[n].answer)
        /\ orderly' = (orderly /\ InOrder(n) /\ state = "ok")
    /\ UNCHANGED <<remote, page, acts, lone>>

\* batchDelete answers ok whatever becomes of its items.
ServeDelete(n) ==
    /\ calls[n].state = "sent"
    /\ calls[n].kind \in {"delete", "batch"}
    /\ \E state \in {"ok", "error"}, done \in SUBSET calls[n].items :
        /\ Served(n, state, calls[n].answer)
        /\ remote' = Without(remote, done)
        /\ orderly' = (orderly /\ InOrder(n) /\ state = "ok" /\ done = calls[n].items)
    /\ UNCHANGED <<page, acts, lone>>

ServeRename(n) ==
    /\ calls[n].state = "sent"
    /\ calls[n].kind = "rename"
    /\ \E state \in {"ok", "error"}, done \in BOOLEAN :
        /\ state = "ok" => done
        /\ Served(n, state, calls[n].answer)
        /\ remote' = [i \in Item |->
               IF done /\ i \in calls[n].items /\ remote[i] # None
               THEN calls[n].name ELSE remote[i]]
        /\ orderly' = (orderly /\ InOrder(n) /\ state = "ok")
    /\ UNCHANGED <<page, acts, lone>>

\* An offline task ends: its file is there.
Arrive(i) ==
    /\ acts < MaxActs
    /\ acts' = acts + 1
    /\ remote[i] = None
    /\ \E name \in Name : remote' = [remote EXCEPT ![i] = name]
    /\ orderly' = FALSE
    /\ UNCHANGED <<page, calls, lone>>

-----------------------------------------------------------------------------
(***************************************************************************)
(* The second halves of the handlers.                                      *)
(***************************************************************************)

\* The n-th call comes back, and p is what its handler makes of the page.
Settle(n, p) ==
    /\ calls' = RemoveAt(calls, n)
    /\ page' = IF calls[n].mine THEN p ELSE page
    /\ orderly' = (orderly /\ n = 1)
    /\ UNCHANGED <<remote, acts, lone>>

Back(n, kind) == calls[n].state # "sent" /\ calls[n].kind = kind

Ok(n) == calls[n].state = "ok"

\* Mutant: only a success takes the spinner away.
LoadedOrStuck(n) ==
    /\ Back(n, "load")
    /\ Settle(n, IF Ok(n) THEN [page EXCEPT !.loading = FALSE, !.files = calls[n].answer]
                 ELSE page)

\* loadFiles, or the search of the effect: a failure is only logged, the
\* old files stay.
Loaded(n) ==
    /\ Back(n, "load")
    /\ Settle(n, [page EXCEPT !.loading = FALSE,
                      !.files = IF Ok(n) THEN calls[n].answer ELSE @])

\* The rest of checkTaskStatus: if a task it knew has ended it lists the
\* folder it captured.
Checked(n) ==
    /\ Back(n, "check")
    /\ \/ /\ Settle(n, page)
       \/ /\ Ok(n)
          /\ calls' = Append(RemoveAt(calls, n),
                 [Sent("refresh", calls[n].query, {}, None)
                     EXCEPT !.mine = calls[n].mine])
          /\ orderly' = (orderly /\ n = 1 /\ calls[n].query = QueryOf(page))
          /\ lone' = (lone /\ (calls[n].mine => ListsInFlight = {}))
          /\ UNCHANGED <<remote, page, acts>>

\* Its listing, or the delayed one, replaces the files, whatever the page
\* shows by now.
Refreshed(n) ==
    /\ Back(n, "refresh") \/ Back(n, "reload")
    /\ calls' = RemoveAt(calls, n)
    /\ page' = IF calls[n].mine /\ Ok(n)
               THEN [page EXCEPT !.files = calls[n].answer] ELSE page
    /\ orderly' = (orderly /\ n = 1 /\ calls[n].query = QueryOf(page))
    /\ lone' = (lone /\ (calls[n].mine => page.selected = {}))
    /\ UNCHANGED <<remote, acts>>

Unlisted(listing, items) == [i \in Item |-> IF i \in items THEN None ELSE listing[i]]

\* handleDeleteSingle, second half.
Deleted(n) ==
    /\ Back(n, "delete")
    /\ Settle(n, IF Ok(n) THEN [page EXCEPT !.files = Unlisted(@, calls[n].items),
                                      !.selected = @ \ calls[n].items]
                 ELSE page)

\* handleBatchDelete, second half: it takes the captured items from the
\* files and empties the selection of this moment.
BatchDeleted(n) ==
    /\ Back(n, "batch")
    /\ Settle(n, IF Ok(n)
                 THEN [page EXCEPT !.deleting = FALSE, !.selected = {},
                           !.files = Unlisted(@, calls[n].items)]
                 ELSE [page EXCEPT !.deleting = FALSE])

\* handleConfirmRename, second half: success closes the dialog, whichever
\* item it is open for by then.
Renamed(n) ==
    /\ Back(n, "rename")
    /\ Settle(n, IF Ok(n)
                 THEN [page EXCEPT !.submitting = FALSE, !.renaming = None,
                           !.files = [i \in Item |->
                               IF i \in calls[n].items /\ @[i] # None
                               THEN calls[n].name ELSE @[i]]]
                 ELSE [page EXCEPT !.submitting = FALSE])

\* handlePreview, second half: an image opens, another file goes to a new
\* tab; a failure still shows a thumbnail where there is one.
Previewed(n) ==
    /\ Back(n, "info")
    /\ \E i \in calls[n].items :
        Settle(n, page) \/ Settle(n, [page EXCEPT !.image = i])

-----------------------------------------------------------------------------
Navigating ==
    \/ \E i \in Item : OpenFolder(i) \/ OpenVideo(i) \/ Preview(i)
    \/ \E n \in 1 .. Len(page.path) : OpenBreadcrumb(n)
    \/ \E k \in Name \union {None} : Search(k)
    \/ CloseViewer
    \/ Leave
    \/ Return

Editing ==
    \/ \E i \in Item : ToggleSelect(i) \/ DeleteSingle(i) \/ OpenMenu(i)
    \/ \E name \in Name : ConfirmRename(name)
    \/ Unselect
    \/ BatchDelete
    \/ CloseMenu
    \/ StartRename
    \/ CloseRename

Watching == Check \/ DelayedReload

Serve(n) == ServeList(n) \/ ServeRead(n) \/ ServeDelete(n) \/ ServeRename(n)

Deliver(n) ==
    \/ Loaded(n)
    \/ Checked(n)
    \/ Refreshed(n)
    \/ Deleted(n)
    \/ BatchDeleted(n)
    \/ Renamed(n)
    \/ Previewed(n)

Serving == \E n \in DOMAIN calls : Serve(n)

Delivering == \E n \in DOMAIN calls : Deliver(n)

Next ==
    \/ Navigating
    \/ Editing
    \/ Watching
    \/ Serving
    \/ Delivering
    \/ \E i \in Item : Arrive(i)

Spec == Init /\ [][Next]_vars

\* The server and the network answer every call, if only with an error.
FairSpec == Spec /\ WF_vars(Serving) /\ WF_vars(Delivering)

-----------------------------------------------------------------------------
(***************************************************************************)
(* Properties.                                                             *)
(***************************************************************************)

\* Every variable stays in its domain; the path keeps its root.
TypeOK ==
    /\ remote \in Listing
    /\ page \in Page /\ Len(page.path) > 0 /\ page.path[1] = Root
    /\ calls \in Seq(Call) /\ Len(calls) <= MaxCalls
    /\ acts \in 0 .. MaxActs
    /\ orderly \in BOOLEAN /\ lone \in BOOLEAN

InFlight(kind) == {n \in DOMAIN calls : calls[n].kind = kind /\ calls[n].mine}

\* Each flag that disables a button or shows a spinner stands for a call of
\* this page that is still out: at most one batch and one rename are under
\* way, and no flag outlives its call, in whatever order answers, failures,
\* further acts and remounts come.
FlagsMatchCalls ==
    /\ page.mounted =>
        /\ page.deleting <=> InFlight("batch") # {}
        /\ page.submitting <=> InFlight("rename") # {}
        /\ page.loading => InFlight("load") # {}
    /\ \A m, n \in InFlight("batch") : m = n
    /\ \A m, n \in InFlight("rename") : m = n

\* As long as calls were served and answered in order, whole and without
\* failure, nothing arrived behind the page's back and no refresh was for a
\* folder it had left, the page with no call in flight shows exactly what
\* the server would answer: the local edits after deletions and renames
\* agree with the drive, and every change of folder or keyword reloads.
\* (A folder of the path that was deleted while the page was on its way into
\* it is listed no more.)
OrderlyViewExact ==
    /\ page.mounted /\ calls = <<>> /\ orderly /\ page.keyword = None
    /\ \A n \in DOMAIN page.path : page.path[n] # Root => remote[page.path[n]] # None
    => page.files = Answer(FolderOf(page))

\* What is ticked, and so would be deleted, is on the screen, as long as no
\* two listings were under way at once and no refresh met a selection.
TickedAreShown ==
    page.mounted /\ lone /\ ~page.loading
        => page.selected \subseteq There(page.files)

\* No spinner or disabled button stays for ever: every load, batch and
\* rename is over at last, also when it fails.
BusyEnds ==
    /\ page.loading ~> ~page.loading \/ ~page.mounted
    /\ page.deleting ~> ~page.deleting \/ ~page.mounted
    /\ page.submitting ~> ~page.submitting \/ ~page.mounted

\* A refresh after a task has ended lists the folder the page shows: the
\* comment at FilesPage.tsx:137 says that it refreshes the files in the
\* current folder.  A listing asked for before a navigation is taken all the
\* same: this does not hold.
RefreshIsOfCurrentFolder ==
    [][\A n \in DOMAIN calls :
          Refreshed(n) /\ calls[n].kind = "refresh" /\ calls[n].mine /\ Ok(n)
              => calls[n].query = FolderOf(page)]_vars
=============================================================================
