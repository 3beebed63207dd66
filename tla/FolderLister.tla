---------------------------- MODULE FolderLister ----------------------------
(***************************************************************************)
(* The folder lister: a thread that reads a tree of directories for the    *)
(* film strip, one directory a turn, watches them, and reads again those   *)
(* that report a change.  The watcher of the system drops the watch of a   *)
(* directory that goes, and reports it.  A listing and the probe of the    *)
(* root after a failed one are taken as one moment.                        *)
(***************************************************************************)
EXTENDS Sequences, SequencesExt, Subsequences, WatchBudget

CONSTANTS
    None,
    MaxWatched,   \* maxWatched_
    SystemLimits, \* how many watches the system may give
    ErrorBound    \* cap: errors of a disk that is there

(* What step() keeps of a directory while it is read. *)
Readings == [folder : Folders, enter : BOOLEAN, recheck : BOOLEAN, retry : BOOLEAN]

ASSUME ListerAssumption ==
    /\ SystemLimits \cup {MaxWatched, ErrorBound} \subseteq Nat
    /\ None \notin Folders \cup Readings

VARIABLES
    present,    \* the directories on the disk
    shots,      \* the photographs in each, as a version: 0 is none
    mounted,    \* whether the disk is there
    limit,      \* watches the system gives
    reports,    \* changes the system has reported
    wanted,     \* wanted_, the walk started last
    begins,     \* the begin() calls queued for the lister
    books,      \* what the lister keeps of the tree
    dirty,      \* dirty_
    timer,      \* debounceTimer_ runs
    scheduled,  \* stepQueued_
    reading,    \* the directory of the step under way
    errors,     \* errors the disk has given
    incoming    \* incoming_ of the model, with what is on its way there

disk == <<present, shots, mounted, limit, errors>>
lister == <<books, dirty, timer, scheduled, reading>>
requests == <<wanted, begins>>

Initially ==
    /\ mounted = TRUE
    /\ limit \in SystemLimits
    /\ reports = {}
    /\ wanted = 0
    /\ begins = <<>>
    /\ books = [root |-> None, recursive |-> FALSE, walk |-> 0, walking |-> FALSE, tree |-> {},
                watched |-> {}, watcher |-> {}, budget |-> EmptyBudget(MaxWatched), work |-> <<>>,
                enter |-> {}, recheck |-> {}, failed |-> {}, unavailable |-> FALSE,
                batch |-> <<>>, stale |-> {}]
    /\ dirty = {}
    /\ timer = FALSE
    /\ scheduled = FALSE
    /\ reading = None
    /\ errors = 0
    /\ incoming = <<>>

Opens(folder) == mounted /\ folder \in present

Children(folder) == {child \in present : Parent[child] = folder /\ child # folder}

Ordered(folders) == [k \in 1 .. Cardinality(folders) |-> Nth(folders, k)]

Current == books.walk = wanted

-----------------------------------------------------------------------------
(* What the handlers do to the books. *)

(* A directory in the queue is moved to the front only if it is now to be entered. *)
Enqueue(of, folder, enter, recheck) ==
    LET queued == Contains(of.work, folder)
        deeper == enter /\ folder \notin of.enter
    IN  [of EXCEPT
            !.enter = IF enter THEN @ \cup {folder} ELSE @,
            !.recheck = IF recheck THEN @ \cup {folder} ELSE @,
            !.work = IF queued /\ ~deeper THEN @ ELSE <<folder>> \o Without(@, {folder})]

(* All of a set, so that the first in order is the first in the queue. *)
EnqueueAll(of, folders, enter, recheck) ==
    FoldRight(LAMBDA folder, after : Enqueue(after, folder, enter, recheck), Ordered(folders), of)

Watch(of, folder) ==
    IF Opens(folder) /\ Cardinality(of.watcher) < limit
    THEN [of EXCEPT !.watched = @ \cup {folder}, !.watcher = @ \cup {folder}]
    ELSE IF Opens(folder)
    THEN [of EXCEPT !.budget = RefuseInBudget(@, folder)]
    ELSE of

Unwatch(of, folders) ==
    [of EXCEPT !.watched = @ \ folders, !.watcher = @ \ (of.watched \cap folders)]

(* forgetDroppedWatches(). *)
ForgetDropped(of) == [of EXCEPT !.watched = @ \cap of.watcher]

(* Mutant of WatchPromoted: what changed before the watch is not looked for. *)
WatchPromotedUnread(of, folder) ==
    IF folder \notin of.tree \/ folder \in of.watched THEN of ELSE Watch(of, folder)

(* A watch got after the read: read once more. *)
WatchPromoted(of, folder) ==
    IF folder \notin of.tree \/ folder \in of.watched
    THEN of
    ELSE LET tried == Watch(of, folder)
         IN  IF folder \in tried.watched THEN Enqueue(tried, folder, FALSE, TRUE) ELSE tried

WatchAllPromoted(of, folders) == FoldLeft(WatchPromoted, of, Ranked(folders))

(* applyMoves(), from the budget of before. *)
ApplyMoves(of, budget) ==
    LET moved == [Unwatch(of, of.budget.watched \ budget.watched) EXCEPT !.budget = budget]
    IN  WatchAllPromoted(moved, budget.watched \ of.budget.watched)

(* Mutant of Track: the directory that lost its place keeps its watch. *)
TrackWithoutUnwatch(of, folder) ==
    [of EXCEPT !.tree = @ \cup {folder}, !.budget = AddToBudget(@, folder)]

(* track(): a new directory is watched when it is read, so its place is all it gets. *)
Track(of, folder) ==
    LET budget == AddToBudget(of.budget, folder)
    IN  [Unwatch(of, of.budget.watched \ budget.watched) EXCEPT
            !.tree = @ \cup {folder}, !.budget = budget]

ForgetFailures(of, folder) == [of EXCEPT !.failed = @ \ Within(folder)]

DropSubtree(of, folder) ==
    LET gone == of.tree \cap Within(folder)
        left == [ForgetFailures(Unwatch(of, gone), folder) EXCEPT
                    !.tree = @ \ gone,
                    !.work = Without(@, gone),
                    !.enter = @ \ gone,
                    !.recheck = @ \ gone]
        moved == ApplyMoves(left, RemoveFromBudget(of.budget, gone))
    IN  [moved EXCEPT !.batch = Append(@, [folder |-> folder, shots |-> 0, gone |-> TRUE,
                                           recheck |-> FALSE, walk |-> of.walk])]

TrackAll(of, folders) == FoldLeft(Track, of, Ordered(folders))

DropAll(of, folders) == FoldLeft(DropSubtree, of, Ordered(folders))

(* followSubfolders(), with the subfolders listed: the new ones are tracked before those that
   went are dropped, and what is to be read comes first, in order. *)
FollowSubfolders(of, folder, folders, enter, recheck) ==
    LET known == {child \in of.tree : Parent[child] = folder /\ child # folder}
        toRead == IF enter THEN folders ELSE folders \ known
    IN  EnqueueAll(DropAll(TrackAll(of, folders \ known), known \ folders), toRead, TRUE, recheck)

KeepStale(of, folder) == [of EXCEPT !.stale = IF of.walking THEN @ \cup {folder} ELSE @]

(* Mutant of Fail: the root is not probed. *)
FailWithoutProbe(of, folder, error) ==
    IF folder = of.root
    THEN KeepStale([of EXCEPT !.unavailable = TRUE], folder)
    ELSE IF error = "other"
    THEN KeepStale([of EXCEPT !.failed = @ \cup {folder}], folder)
    ELSE DropSubtree(of, folder)

(* handleFailure(); the probe of a root that does not open finds it unavailable. *)
Fail(of, folder, error) ==
    IF folder = of.root \/ (error # "other" /\ ~Opens(of.root))
    THEN KeepStale([of EXCEPT !.unavailable = TRUE], folder)
    ELSE IF error = "other"
    THEN KeepStale([of EXCEPT !.failed = @ \cup {folder}], folder)
    ELSE IF error = "permission"
    THEN [DropSubtree(of, folder) EXCEPT !.failed = @ \cup {folder}]
    ELSE DropSubtree(of, folder)

(* A directory that lists, in step(); retry says that its watch was refused before the read. *)
Succeed(of, folder, enter, recheck, retry) ==
    LET recovered == (folder = of.root /\ of.unavailable) \/ folder \in of.failed
        rooted == IF folder = of.root THEN [of EXCEPT !.unavailable = FALSE]
                  ELSE IF of.unavailable THEN Enqueue(of, of.root, TRUE, TRUE)
                  ELSE of
        forgiven == [rooted EXCEPT !.failed = @ \ {folder},
                                   !.watched = IF recovered THEN @ \cap of.watcher ELSE @]
        tried == IF retry THEN Watch(forgiven, folder) ELSE forgiven
        again == IF retry /\ folder \in tried.watched THEN Enqueue(tried, folder, FALSE, TRUE)
                                                      ELSE tried
        folders == IF of.recursive THEN Children(folder) ELSE {}
        vanished == {child \in again.failed : Parent[child] = folder /\ child \notin folders}
        read == [again EXCEPT
                    !.batch = Append(@, [folder |-> folder, shots |-> shots[folder], gone |-> FALSE,
                                         recheck |-> recheck \/ recovered, walk |-> of.walk]),
                    !.failed = @ \ UNION {Within(child) : child \in vanished}]
    IN  FollowSubfolders(read, folder, folders, enter \/ recovered, recovered)

(* abandon(). *)
Abandon(of) ==
    [of EXCEPT !.work = <<>>, !.enter = {}, !.recheck = {}, !.walking = FALSE, !.stale = {}]

-----------------------------------------------------------------------------
(* The handlers of the lister's thread. *)

Begin ==
    /\ reading = None
    /\ begins # <<>>
    /\ begins' = Tail(begins)
    /\ LET call == Head(begins)
           same == call.root = books.root
           kept == IF same
                   THEN ForgetDropped(Abandon(books))
                   ELSE [Abandon(books) EXCEPT
                            !.root = call.root, !.tree = {}, !.watched = {}, !.watcher = {},
                            !.failed = {}, !.unavailable = FALSE,
                            !.budget = EmptyBudget(MaxWatched)]
           rooted == Track([kept EXCEPT !.recursive = call.recursive, !.walk = call.walk,
                                        !.walking = TRUE], call.root)
       IN  IF call.walk # wanted
           THEN UNCHANGED lister
           ELSE /\ books' = Enqueue(ApplyMoves(rooted, SetCap(rooted.budget, MaxWatched)),
                                    call.root, TRUE, FALSE)
                /\ dirty' = IF same THEN dirty ELSE {}
                /\ timer' = IF same THEN timer \/ dirty # {} ELSE FALSE
                /\ scheduled' = TRUE
                /\ UNCHANGED reading
    /\ UNCHANGED <<disk, reports, wanted, incoming>>

(* step(), when a later walk has been started. *)
StepAbandoned ==
    /\ scheduled \/ reading # None
    /\ ~Current
    /\ books' = Abandon(books)
    /\ scheduled' = FALSE
    /\ reading' = None
    /\ UNCHANGED <<disk, reports, requests, dirty, timer, incoming>>

(* step(): nothing is left to read. *)
StepEnds ==
    /\ scheduled
    /\ reading = None
    /\ Current
    /\ books.work = <<>>
    /\ scheduled' = FALSE
    /\ incoming' = incoming \o
           IF books.walking THEN <<[stale |-> books.stale, walk |-> books.walk]>> ELSE <<>>
    /\ books' = [books EXCEPT !.walking = FALSE, !.stale = {}]
    /\ UNCHANGED <<disk, reports, requests, dirty, timer, reading>>

(* step(): the next directory is watched, then read. *)
StepWatches ==
    /\ scheduled
    /\ reading = None
    /\ Current
    /\ books.work # <<>>
    /\ LET folder == Head(books.work)
           due == folder \notin books.watched /\ folder \in books.budget.watched
           taken == [books EXCEPT !.work = Tail(@), !.enter = @ \ {folder},
                                  !.recheck = @ \ {folder}]
           tried == IF due THEN Watch(taken, folder) ELSE taken
       IN  /\ books' = tried
           /\ reading' = [folder |-> folder,
                          enter |-> folder \in books.enter,
                          recheck |-> folder \in books.recheck,
                          retry |-> due /\ folder \notin tried.watched
                                        /\ folder \in tried.budget.watched]
    /\ scheduled' = FALSE
    /\ UNCHANGED <<disk, reports, requests, dirty, timer, incoming>>

(* What reading a directory may come to, errors of a disk that is there being counted; with
   flush(): what the step appended to the batch is on its way to the model.  A batch that is held
   back is one that is on its way for longer: when it is abandoned, so that the model never gets
   it, a later walk has been started, and the model drops it. *)
StepReads(outcome) ==
    /\ reading # None
    /\ Current
    /\ \/ outcome = "read" /\ Opens(reading.folder) /\ UNCHANGED errors
       \/ outcome = "gone" /\ ~Opens(reading.folder) /\ UNCHANGED errors
       \/ outcome = "other" /\ ~mounted /\ UNCHANGED errors
       \/ /\ outcome \in {"other", "permission"}
          /\ Opens(reading.folder)
          /\ errors < ErrorBound
          /\ errors' = errors + 1
    /\ LET after == IF outcome = "read"
                    THEN Succeed(books, reading.folder, reading.enter, reading.recheck,
                                 reading.retry)
                    ELSE Fail(books, reading.folder, outcome)
       IN  /\ books' = [after EXCEPT !.batch = <<>>]
           /\ incoming' = incoming \o after.batch
    /\ reading' = None
    /\ scheduled' = TRUE
    /\ UNCHANGED <<present, shots, mounted, limit, reports, requests, dirty, timer>>

(* onDirectoryChanged(). *)
OnDirectoryChanged(folder) ==
    /\ reading = None
    /\ folder \in reports
    /\ reports' = reports \ {folder}
    /\ IF folder \in books.tree
       THEN dirty' = dirty \cup {folder} /\ timer' = (timer \/ Current)
       ELSE UNCHANGED <<dirty, timer>>
    /\ UNCHANGED <<disk, requests, books, scheduled, reading, incoming>>

(* readChanged(), when the reports have been quiet. *)
ReadChanged ==
    /\ reading = None
    /\ timer
    /\ timer' = FALSE
    /\ IF ~Current
       THEN UNCHANGED <<books, dirty, scheduled>>
       ELSE LET changed == dirty \cap books.tree
                seen == [books EXCEPT !.watched = @ \ (changed \ books.watcher)]
            IN  /\ books' = EnqueueAll(seen, changed, FALSE, TRUE)
                /\ dirty' = {}
                /\ scheduled' = TRUE
    /\ UNCHANGED <<disk, reports, requests, reading, incoming>>
=============================================================================
