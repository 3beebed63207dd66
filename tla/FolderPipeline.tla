--------------------------- MODULE FolderPipeline ---------------------------
(***************************************************************************)
(* The rows of the film strip and the folder on the disk: the model of the *)
(* strip starts walks of the folder, with its subfolders or without; the   *)
(* lister reads and watches it; and the model merges what was read into    *)
(* its rows, while files and directories change and the disk goes and      *)
(* comes back.  The rows of a directory are the version of its             *)
(* photographs that they show; a large directory is inserted at once.      *)
(***************************************************************************)
EXTENDS FolderLister

CONSTANTS
    Trees,        \* the directories that may be there at first
    ChangeBound,  \* caps: changes of the disk,
    WalkBound     \* and walks

ASSUME PipelineAssumption ==
    /\ {ChangeBound, WalkBound} \subseteq Nat
    /\ \A tree \in Trees :
        /\ tree \subseteq Folders
        /\ \A each \in tree : Above[each] \subseteq tree
        /\ {each \in Folders : Parent[each] = each} \subseteq tree

VARIABLES
    changes,
    folder,     \* folder_
    recursive,  \* recursive_
    walk,       \* walk_
    walking,    \* walking_
    rows,       \* spans_ with their rows
    seen,       \* seen_
    \* to state properties with
    unchecked,  \* directories of which a sidecar changed since the model last looked at it
    dropped,    \* directories whose going the model dropped, as news of an older walk (Goings)
    outage,     \* a directory could not be read
    missed      \* directories that were not there when they got their places, and have no watch

model == <<folder, recursive, walk, walking, rows, seen, unchecked, dropped>>
history == <<outage, missed>>
vars == <<disk, reports, lister, requests, incoming, changes, model, history>>

Init ==
    /\ Initially
    /\ present \in Trees
    /\ shots = [each \in Folders |-> IF each \in present THEN 1 ELSE 0]
    /\ changes = 0
    /\ folder = None
    /\ recursive = FALSE
    /\ walk = 0
    /\ walking = "none"
    /\ rows = [each \in Folders |-> 0]
    /\ seen = {}
    /\ unchecked = {}
    /\ dropped = {}
    /\ outage = FALSE
    /\ missed = {}

-----------------------------------------------------------------------------
(* The disk. *)

Change ==
    /\ changes < ChangeBound
    /\ changes' = changes + 1
    /\ UNCHANGED <<limit, errors, requests, dirty, timer, scheduled, reading, incoming, folder,
                   recursive, walk, walking, rows, seen, dropped, history>>

(* The system reports what is watched. *)
Report(folders) == reports' = reports \cup (folders \cap books.watcher)

(* Photographs are added, or all of them removed. *)
ChangeShots ==
    /\ Change
    /\ \E each \in present :
        /\ mounted
        /\ shots' = [shots EXCEPT ![each] = (@ + 1) % 3]
        /\ Report({each})
    /\ UNCHANGED <<present, mounted, books, unchecked>>

(* Another program replaces a sidecar.  The walk of a switch of the subfolders looks at none of
   the rows that stay, so a change that nothing reports meanwhile is not counted. *)
ReplaceSidecar ==
    /\ Change
    /\ \E each \in present :
        /\ mounted
        /\ shots[each] # 0
        /\ unchecked' = IF each \in books.watcher \/ walking \in {"none", "refresh"}
                         THEN unchecked \cup {each} ELSE unchecked
        /\ Report({each})
    /\ UNCHANGED <<present, shots, mounted, books>>

(* A directory is made or moved in, with photographs or without. *)
AddFolder ==
    /\ Change
    /\ \E each \in Folders \ present, some \in 0 .. 1 :
        /\ mounted
        /\ Parent[each] \in present
        /\ present' = present \cup {each}
        /\ shots' = [shots EXCEPT ![each] = some]
        /\ Report({Parent[each]})
    /\ UNCHANGED <<mounted, books, unchecked>>

(* A directory goes, with what is within it; the system drops its watches. *)
RemoveFolder ==
    /\ Change
    /\ \E each \in present :
        /\ mounted
        /\ Parent[each] # each
        /\ present' = present \ Within(each)
        /\ shots' = [other \in Folders |-> IF other \in Within(each) THEN 0 ELSE shots[other]]
        /\ Report({Parent[each]} \cup Within(each))
        /\ books' = [books EXCEPT !.watcher = @ \ Within(each)]
        /\ unchecked' = unchecked \ Within(each)
    /\ UNCHANGED mounted

Unmount ==
    /\ Change
    /\ mounted
    /\ mounted' = FALSE
    /\ Report(Folders)
    /\ books' = [books EXCEPT !.watcher = {}]
    /\ UNCHANGED <<present, shots, unchecked>>

(* Nothing reports that the disk is back. *)
Mount ==
    /\ ~mounted
    /\ mounted' = TRUE
    /\ UNCHANGED <<present, shots, limit, errors, reports, lister, requests, incoming, changes, model,
                   history>>

Disk ==
    \/ ChangeShots
    \/ ReplaceSidecar
    \/ AddFolder
    \/ RemoveFolder
    \/ Unmount
    \/ Mount

-----------------------------------------------------------------------------
(* The model, in the user interface's thread. *)

(* walkRequested: FolderWatcher::startWalk(), with start(). *)
StartWalk ==
    /\ walk < WalkBound
    /\ walk' = walk + 1
    /\ seen' = {}
    /\ wanted' = walk + 1
    /\ begins' = Append(begins, [root |-> folder', recursive |-> recursive', walk |-> walk + 1])
    /\ UNCHANGED <<disk, reports, lister, changes, history>>

SetFolder ==
    /\ folder' \in {each \in Folders : Parent[each] = each /\ Opens(each)}
    /\ recursive' \in BOOLEAN
    /\ StartWalk
    /\ rows' = [each \in Folders |-> 0]
    /\ unchecked' = {}
    /\ dropped' = {}
    /\ incoming' = <<>>
    /\ walking' = "listing"

(* The directories that are reported gone, with what is on its way. *)
Goings == UNION {Within(message.folder) :
                    message \in {each \in ToSet(incoming) : "gone" \in DOMAIN each /\ each.gone}}

(* What was still to be checked and has left the lister's list of changes is forgotten, and so is
   the news of what went. *)
SetRecursive ==
    /\ folder # None
    /\ recursive' = ~recursive
    /\ UNCHANGED folder
    /\ StartWalk
    /\ rows' = [each \in Folders |-> IF recursive' \/ each = folder THEN rows[each] ELSE 0]
    /\ unchecked' = (unchecked \ Goings) \cap (reports \cup dirty)
    /\ dropped' = dropped \cup Goings
    /\ incoming' = <<>>
    /\ walking' = IF recursive' THEN IF walking \in {"none", "toggle"} THEN "listing" ELSE walking
                  ELSE IF walking = "none" THEN "toggle" ELSE walking

Refresh ==
    /\ folder # None
    /\ walking = "none"
    /\ walking' = "refresh"
    /\ UNCHANGED <<folder, recursive, rows, unchecked, dropped, incoming>>
    /\ StartWalk

Message == Head(incoming)

DropIncoming ==
    /\ incoming # <<>>
    /\ Message.walk # walk \/ ("stale" \in DOMAIN Message /\ walking = "none")
    /\ dropped' = IF "gone" \in DOMAIN Message /\ Message.gone
                  THEN dropped \cup Within(Message.folder)
                  ELSE dropped
    /\ incoming' = Tail(incoming)
    /\ UNCHANGED <<disk, reports, lister, requests, changes, history, folder, recursive, walk, walking,
                   rows, seen, unchecked>>

(* applyStep(), with removeTree(). *)
RemoveTree ==
    /\ incoming # <<>>
    /\ Message.walk = walk
    /\ "gone" \in DOMAIN Message /\ Message.gone
    /\ rows' = [each \in Folders |-> IF each \in Within(Message.folder) THEN 0 ELSE rows[each]]
    /\ unchecked' = unchecked \ Within(Message.folder)
    /\ dropped' = dropped \ Within(Message.folder)
    /\ incoming' = Tail(incoming)
    /\ UNCHANGED <<disk, reports, lister, requests, changes, history, folder, recursive, walk, walking, seen>>

(* applyStep(), with mergeFolder() and insertRun(): rows that were there have their sidecars
   checked for a change, in a refresh, or if they changed; the sidecars of new ones are read. *)
MergeFolder ==
    /\ incoming # <<>>
    /\ Message.walk = walk
    /\ "gone" \in DOMAIN Message /\ ~Message.gone
    /\ rows' = [rows EXCEPT ![Message.folder] = Message.shots]
    /\ unchecked' =
           IF Message.recheck \/ walking = "refresh" \/ rows[Message.folder] # Message.shots
           THEN unchecked \ {Message.folder}
           ELSE unchecked
    /\ seen' = seen \cup {Message.folder}
    /\ dropped' = dropped \ {Message.folder}
    /\ incoming' = Tail(incoming)
    /\ UNCHANGED <<disk, reports, lister, requests, changes, history, folder, recursive, walk, walking>>

(* endWalk(): rows of directories that were not read go, but for those within what could not be;
   a listing looks for none. *)
EndWalk ==
    /\ incoming # <<>>
    /\ Message.walk = walk
    /\ "stale" \in DOMAIN Message
    /\ walking # "none"
    /\ LET stale == UNION {Within(each) : each \in Message.stale}
       IN  /\ rows' = [each \in Folders |->
                          IF walking = "listing" \/ each \in seen \cup stale THEN rows[each] ELSE 0]
           /\ dropped' = IF walking = "listing" THEN dropped ELSE dropped \cap stale
    /\ walking' = "none"
    /\ seen' = {}
    /\ incoming' = Tail(incoming)
    /\ UNCHANGED <<disk, reports, lister, requests, changes, history, folder, recursive, walk, unchecked>>

ListerStep ==
    /\ \/ Begin
       \/ StepAbandoned
       \/ StepEnds
       \/ StepWatches
       \/ \E outcome \in {"read", "gone", "other", "permission"} : StepReads(outcome)
       \/ \E each \in Folders : OnDirectoryChanged(each)
       \/ ReadChanged
    /\ outage' = (outage \/ books'.unavailable \/ books'.failed # {})
    /\ LET placed == books'.budget.watched \ books.budget.watched
       IN  missed' = (missed \cup {each \in placed : ~Opens(each)})
                         \cap (books'.budget.watched \ books'.watched)
    /\ UNCHANGED <<changes, model>>

Next ==
    \/ Disk
    \/ SetFolder
    \/ SetRecursive
    \/ Refresh
    \/ DropIncoming
    \/ RemoveTree
    \/ MergeFolder
    \/ EndWalk
    \/ ListerStep

Spec == Init /\ [][Next]_vars

-----------------------------------------------------------------------------
TypeOK ==
    /\ present \subseteq Folders
    /\ {rows, shots} \subseteq [Folders -> 0 .. 2]
    /\ {mounted, recursive, timer, scheduled} \subseteq BOOLEAN
    /\ UNION {reports, dirty, seen, unchecked, dropped, books.tree, books.watched, books.watcher,
              books.failed, books.stale, ToSet(books.work), books.enter, books.recheck} \subseteq Folders
    /\ books.budget \in Budgets
    /\ walking \in {"none", "listing", "refresh", "toggle"}

(* Nothing is under way or on its way. *)
AtRest ==
    /\ reports = {} /\ dirty = {}
    /\ begins = <<>> /\ ~scheduled /\ reading = None
    /\ incoming = <<>>

Unreadable(each) == books.failed \cap Above[each] # {}

NothingIsLeft == walking = "none" /\ ~books.walking /\ books.work = <<>> /\ Current

WatchedAreShown ==
    \A each \in books.watched :
        \/ Unreadable(each)
        \/ /\ each \in present
           /\ rows[each] = shots[each]
           /\ each \notin unchecked \/ (outage /\ Depth[each] > 1)
           /\ recursive => Children(each) \subseteq books.tree \cup books.failed

PlacesAreWatched ==
    \A each \in books.budget.watched \ books.watcher : Unreadable(each) \/ each \in missed

RowsAreFollowed == \A each \in Folders : rows[each] # 0 => each \in books.tree \cup dropped

(* "So no change between the two is missed" (FolderWatcher.h): once all has come to rest, no walk
   is under way, and every directory that has a watch shows what is on the disk, with its sidecars
   looked at since they changed, and knows its subdirectories, whatever changed while it was read,
   walked, watched or unwatched; and no row is of a directory that the lister does not follow.
   Unless the root is reported unavailable, or the directory unreadable or below one; the rows of
   a directory stay whose going was dropped with an older walk, when the new one could not read
   what was above it, or is a listing; and after an outage the sidecars of no more than its
   subdirectories are looked at.  And none that has a place lacks its watch, but for one that could not be read or is
   below one, and one that was away when it got the place. *)
RowsFollowDisk ==
    AtRest /\ folder # None =>
        /\ NothingIsLeft
        /\ RowsAreFollowed
        /\ mounted /\ ~books.unavailable => WatchedAreShown /\ PlacesAreWatched

(* Rows do not go because the disk does: while it is away, those that go (of what the user wants
   to see, by then) were removed before, or could not be read before. *)
UnavailableRowsStay ==
    [][\A each \in Folders :
        /\ rows[each] # 0 /\ rows'[each] = 0
        /\ ~mounted /\ walk' = walk
        /\ recursive \/ each = folder
        => shots[each] # rows[each] \/ books.failed \cap Above[each] # {}]_vars

(* No more directories are watched than the system and the cap allow, the watched ones come first,
   and the watcher watches nothing that has no place, whatever was refused, dropped, evicted or
   promoted. *)
WatchesFit ==
    /\ InOrder(books.budget)
    /\ Cardinality(books.watcher) <= limit
    /\ books.watched \subseteq books.budget.watched
    /\ books.watcher \subseteq books.watched
    /\ books.budget.watched \cup books.budget.waiting \cup books.budget.refused = books.tree
=============================================================================
