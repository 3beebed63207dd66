--------------------------- MODULE SnapshotWorkflow ---------------------------
(***************************************************************************)
(* The window and its SnapshotWriter at work on the snapshots of one       *)
(* photograph.  The window prepares a write from the list its session      *)
(* holds and submits it; the writer's thread carries it out, in order, and *)
(* posts the result back to the event loop; by then the user may have      *)
(* edited, left the photograph or opened it again, and others may have     *)
(* written its sidecar, which the folder watcher reports sooner or later.  *)
(*                                                                         *)
(* The window runs one handler at a time.  A dialog it shows runs the      *)
(* event loop: results land and the watcher reports while it is open, but  *)
(* the user does nothing else.                                             *)
(***************************************************************************)
EXTENDS EditHistory

CONSTANTS
    InitialFiles,
    NoSession,      \* the window shows another photograph
    Nothing,        \* a result that brings no list
    maximumBatch,   \* thumbnails written under one lock
    Asked,          \* the kinds of write that are asked for
    NewNames,       \* the names that new snapshots are given
    HistoryBound,   \* caps: steps of the history, revision of the file,
    RevisionBound,
    SerialBound,    \* sessions opened,
    TicketBound     \* and writes submitted

ASSUME WorkflowAssumption ==
    /\ NoSession \notin Sessions
    /\ Nothing \notin [snapshots : Collection, unreadable : Nat]
    /\ maximumBatch \in Nat \ {0}
    /\ NewNames \subseteq Names
    /\ Asked \subseteq {"create", "rename", "delete", "discard", "thumbnail"}
    /\ {HistoryBound, RevisionBound, SerialBound, TicketBound} \subseteq Nat
    /\ \A contents \in InitialFiles : contents \in Contents /\ Sound(contents)

VARIABLES
    file,     \* contents of the sidecar
    session,  \* open_->session, when the photograph is the one shown
    serial,   \* sessionSerial_
    ticket,   \* open_->structuralTicket, 0 when there is none
    dialog,   \* the dialog shown, with what its handler goes on with
    tickets,  \* how many writes have been submitted
    queue,    \* writes the writer has not taken
    run,      \* writes the writer is carrying out
    reread,   \* whether the one carried out met a conflict
    results,  \* results on their way to the event loop
    changed,  \* others have written, and the watcher has not reported it yet
    early     \* the session was opened on what was read before a dialog

-----------------------------------------------------------------------------
(* A change as the session prepares it, the request that asks for it, what a  *)
(* reading of the list brings, and what the writer answers.                   *)
SnapshotChange ==
    [op : {"create"}, draft : Snapshot, position : Nat]
        \cup [op : {"rename"}, id : SnapshotId, name : Names]
        \cup [op : {"delete", "thumbnail"}, id : SnapshotId]
        \cup [op : {"discard"}]

Request == [ticket : Nat, owner : Nat, expected : Nat, change : SnapshotChange]

SnapshotUpdate == [snapshots : Collection, unreadable : Nat]

SnapshotWriteResult ==
    [ticket  : Nat,
     owner   : Nat,
     change  : SnapshotChange,
     failure : {"none", "conflict", "error"},
     written : BOOLEAN,
     listing : SnapshotUpdate \cup {Nothing},
     id      : 0 .. MaximumId]

window == <<session, serial, ticket, dialog>>
writer == <<queue, run, reread, results>>
vars == <<file, window, tickets, writer, changed, early>>

NoDialog == [op |-> "none"]

Init ==
    /\ file \in InitialFiles
    /\ session = OpenedOn(file)
    /\ serial = 1
    /\ ticket = 0
    /\ dialog = NoDialog
    /\ tickets = 0
    /\ queue = << >> /\ run = << >> /\ results = << >>
    /\ reread = FALSE
    /\ changed = FALSE
    /\ early = FALSE

Open == session # NoSession
Quiet == Open /\ dialog = NoDialog

(* What a reading of the snapshots, or a structural write, brings back. *)
Listing == [snapshots |-> file.snapshots, unreadable |-> file.unreadable]

isPatch(write) == write.change.op = "thumbnail"

-----------------------------------------------------------------------------
(* Edits, as far as a result in flight can tell them apart. *)

UserEdit(new) ==
    /\ Quiet
    /\ Len(new.history) <= HistoryBound
    /\ session' = new
    /\ UNCHANGED <<file, serial, ticket, dialog, tickets, writer, changed, early>>

Begin == Open /\ UserEdit(begin(session))

SetState == Open /\ \E state \in States : UserEdit(setState(session, state))

Commit == Open /\ editing(session) /\ UserEdit(commit(session))

Undo == Open /\ UserEdit(undo(session))

RestoreSnapshot ==
    /\ Open
    /\ \E id \in Ids(session.held) :
          UserEdit(restoreSnapshot(session, id, session.held.entries[id]))

(* saveAdjustments: the list is read again if the base is gone from the file. *)
Savable(s) ==
    LET settled == Settled(s)
    IN  IF CanBase(file, settled.now.base) THEN settled
        ELSE refreshSnapshots(settled, file)

SavedFile(s) == WriteActiveAndBase(file, s.now.recipe, s.now.base, << >>)

Save ==
    /\ Quiet
    /\ LET s == Savable(session)
       IN  /\ Len(s.history) <= HistoryBound
           /\ file' = SavedFile(s)
           /\ session' = Saved(s, TRUE)
    /\ UNCHANGED <<serial, ticket, dialog, tickets, writer, changed, early>>

-----------------------------------------------------------------------------
(***************************************************************************)
(* Submitting a write.  Patches of an earlier session that the writer has  *)
(* not taken are dropped: its successor asks for them again.               *)
(***************************************************************************)
(* Mutant of Dropped: every write of an earlier session goes. *)
DroppedWithEdits(write) == write.owner < serial

Dropped(write) == isPatch(write) /\ write.owner < serial

(* What is left of the queue. *)
Undropped ==
    LET kept[n \in 0 .. Len(queue)] ==
            IF n = 0 THEN << >>
            ELSE IF Dropped(queue[n]) THEN kept[n - 1] ELSE Append(kept[n - 1], queue[n])
    IN  kept[Len(queue)]

Submit(change) ==
    /\ tickets < TicketBound
    /\ tickets' = tickets + 1
    /\ queue' = Append(Undropped,
                       [ticket   |-> tickets',
                        owner    |-> serial,
                        expected |-> session.held.revision,
                        change   |-> change])

MayChangeSnapshots == Quiet /\ ticket = 0

(* The four structural actions ask first: for a name, or to be sure. *)
Asks(question) ==
    /\ MayChangeSnapshots
    /\ question.op \in Asked
    /\ dialog' = [question EXCEPT !.serial = serial]
    /\ UNCHANGED <<file, serial, ticket, tickets, writer, changed, early>>

Question(op, id) == [op |-> op, id |-> id, serial |-> 0]

AskCreate ==
    /\ Asks(Question("create", NoId))
    /\ session' = Settled(session)
    /\ Len(session'.history) <= HistoryBound
    /\ Cardinality(Ids(session.held)) + session.unreadable < MaximumSnapshots

AskRename ==
    MayChangeSnapshots /\ \E id \in Ids(session.held) :
        Asks(Question("rename", id)) /\ UNCHANGED session

AskDelete ==
    MayChangeSnapshots /\ \E id \in Ids(session.held) :
        Asks(Question("delete", id)) /\ UNCHANGED session

AskDiscard ==
    /\ MayChangeSnapshots
    /\ session.unreadable > 0
    /\ Asks(Question("discard", NoId)) /\ UNCHANGED session

(* The change the answer makes, from the session as it is by then. *)
Changes ==
    CASE dialog.op = "create" ->
            {[op |-> "create", draft |-> DraftOf(session, session.now.recipe, name),
              position |-> session.position] :
                name \in {n \in NewNames : ~editing(session)}}
      [] dialog.op = "rename" ->
            {[op |-> "rename", id |-> dialog.id, name |-> name] :
                name \in {n \in Names : /\ dialog.id \in Ids(session.held)
                                        /\ session.held.entries[dialog.id].name # n}}
      [] dialog.op = "delete" ->
            {[op |-> "delete", id |-> id] : id \in {dialog.id} \cap Ids(session.held)}
      [] dialog.op = "discard" -> {[op |-> "discard"]}

Agree ==
    /\ dialog.op \in {"create", "rename", "delete", "discard"}
    /\ Open /\ dialog.serial = serial /\ ticket = 0
    /\ \E change \in Changes : Submit(change)
    /\ ticket' = tickets'
    /\ dialog' = NoDialog
    /\ UNCHANGED <<file, session, serial, run, reread, results, changed, early>>

(* Cancelled, or answered when it no longer means anything. *)
Decline ==
    /\ dialog # NoDialog
    /\ dialog' = NoDialog
    /\ UNCHANGED <<file, session, serial, ticket, tickets, writer, changed, early>>

InFlight == {(queue \o run \o results)[i] : i \in 1 .. Len(queue \o run \o results)}

(* A rendered picture is stored under the look the session holds.  It is asked for once. *)
StoreThumbnail ==
    /\ Open
    /\ "thumbnail" \in Asked
    /\ \E id \in Ids(session.held) :
          /\ ~session.held.entries[id].thumbnail
          /\ \A write \in InFlight :
                ~(isPatch(write) /\ write.change.id = id /\ write.owner = serial)
          /\ Submit([op |-> "thumbnail", id |-> id])
    /\ UNCHANGED <<file, window, run, reread, results, changed, early>>

-----------------------------------------------------------------------------
(* The writer's thread. *)

(* The first write, or as many patches as stand at the head and fit a batch. *)
BatchSize ==
    LET sizes == {n \in 1 .. Len(queue) :
                     \/ n = 1
                     \/ n <= maximumBatch /\ \A i \in 1 .. n : isPatch(queue[i])}
    IN  CHOOSE n \in sizes : \A other \in sizes : other <= n

Take ==
    /\ queue # << >> /\ run = << >>
    /\ run' = SubSeq(queue, 1, BatchSize)
    /\ queue' = SubSeq(queue, BatchSize + 1, Len(queue))
    /\ UNCHANGED <<file, window, tickets, reread, results, changed, early>>

Result(write, failure, written, listing, id) ==
    [ticket |-> write.ticket, owner |-> write.owner, change |-> write.change,
     failure |-> failure, written |-> written, listing |-> listing, id |-> id]

Deliver(delivered) ==
    /\ results' = results \o delivered
    /\ run' = << >>
    /\ reread' = FALSE
    /\ UNCHANGED <<window, tickets, queue, changed, early>>

Running == run # << >> /\ ~reread
Write == run[1]
Change == Write.change

(* Patches name no revision: those whose snapshot is listed are stored. *)
WritePatches ==
    /\ Running /\ isPatch(Write)
    /\ file' = SetThumbnails(file, {run[i].change.id : i \in 1 .. Len(run)}
                                       \cap Ids(file.snapshots))
    /\ Deliver([i \in 1 .. Len(run) |->
                   Result(run[i], "none", run[i].change.id \in Ids(file.snapshots),
                          Nothing, NoId)])

Current == Running /\ ~isPatch(Write) /\ Write.expected = file.snapshots.revision

WriteChange ==
    /\ Current
    /\ file.snapshots.revision < RevisionBound
    /\ \/ Change.op = "create" /\ CanAdd(file, Change.draft)
          /\ file' = AddSnapshot(file, Change.draft)
       \/ Change.op = "rename" /\ Change.id \in Ids(file.snapshots)
          /\ file' = RenameSnapshot(file, Change.id, Change.name)
       \/ Change.op = "delete" /\ Change.id \in Ids(file.snapshots)
          /\ file' = DeleteSnapshot(file, Change.id)
       \/ Change.op = "discard" /\ file.unreadable > 0
          /\ file' = DiscardUnreadable(file, file.snapshots.nextId)
    /\ Deliver(<<Result(Write, "none", TRUE, Listing', file.snapshots.nextId)>>)

FindNothingToDiscard ==
    /\ Current /\ Change.op = "discard" /\ file.unreadable = 0
    /\ Deliver(<<Result(Write, "none", FALSE, Nothing, NoId)>>)
    /\ UNCHANGED file

(* A full list, a lock held too long, a file that cannot be written. *)
Fail ==
    /\ Running
    /\ Deliver([i \in 1 .. Len(run) |-> Result(run[i], "error", FALSE, Nothing, NoId)])
    /\ UNCHANGED file

MeetConflict ==
    /\ Running /\ ~isPatch(Write) /\ Write.expected # file.snapshots.revision
    /\ reread' = TRUE
    /\ UNCHANGED <<file, window, tickets, queue, run, results, changed, early>>

(* The list is read for the window after the lock has gone, when it can be. *)
ReadFresh ==
    /\ reread
    /\ \E fresh \in {Listing, Nothing} :
          Deliver(<<Result(Write, "conflict", FALSE, fresh, NoId)>>)
    /\ UNCHANGED file

CarryOut == WritePatches \/ WriteChange \/ FindNothingToDiscard \/ Fail
            \/ MeetConflict \/ ReadFresh

-----------------------------------------------------------------------------
(***************************************************************************)
(* A result lands.  The session that asked takes it whole; a later session *)
(* of the same photograph takes only the list it brings.                   *)
(***************************************************************************)
Finished(s, result) ==
    IF result.failure = "error" THEN s
    ELSE IF result.failure = "conflict" THEN
        IF result.listing = Nothing THEN s ELSE adoptSnapshots(s, result.listing)
    ELSE IF isPatch(result) THEN
        IF result.written THEN finishThumbnail(s, result.change.id) ELSE s
    ELSE IF result.listing = Nothing THEN finishEmptyDiscard(s)
    ELSE IF result.change.op = "create" THEN
        finishCreate(s, result.listing, result.id, result.change.draft, result.change.position)
    ELSE adoptSnapshots(s, result.listing)

(* Mutant of Passed: results of an earlier session are ignored. *)
PassedNothing(s, result) == s

Passed(s, result) ==
    IF isPatch(result) \/ result.listing = Nothing THEN s
    ELSE adoptSnapshots(s, result.listing)

(* Mutant of snapshotWriteLanded: the ticket goes only with a result of the session's own. *)
landedForOwner ==
    /\ results # << >>
    /\ LET result == Head(results)
       IN  /\ session' = IF ~Open THEN session
                         ELSE IF result.owner = serial THEN Finished(session, result)
                         ELSE Passed(session, result)
           /\ ticket' = IF ticket = result.ticket /\ result.owner = serial THEN 0 ELSE ticket
    /\ results' = Tail(results)
    /\ UNCHANGED <<file, serial, dialog, tickets, queue, run, reread, changed, early>>

snapshotWriteLanded ==
    /\ results # << >>
    /\ LET result == Head(results)
       IN  /\ session' = IF ~Open THEN session
                         ELSE IF result.owner = serial THEN Finished(session, result)
                         ELSE Passed(session, result)
           /\ ticket' = IF ticket = result.ticket THEN 0 ELSE ticket
    /\ results' = Tail(results)
    /\ UNCHANGED <<file, serial, dialog, tickets, queue, run, reread, changed, early>>

-----------------------------------------------------------------------------
(* The sessions of the window. *)

Show(contents, stale) ==
    /\ serial < SerialBound
    /\ serial' = serial + 1
    /\ session' = OpenedOn(contents)
    /\ early' = stale

(***************************************************************************)
(* The watcher reports the sidecar (sidecarChangedOnDisk).  Settings       *)
(* changed elsewhere open a new session, unless there are unsaved edits;   *)
(* the ticket of a write in flight goes over to it.                        *)
(***************************************************************************)
sidecarChangedOnDisk ==
    LET same == file.recipe = session.saved
        adopted == IF same THEN adoptSnapshots(session, Listing) ELSE session
        settled == Settled(adopted)
    IN  /\ Open
        /\ \/ /\ same /\ file.savedBase = adopted.savedBase
              /\ session' = adopted
              /\ UNCHANGED <<serial, early>>
           \/ /\ ~(same /\ file.savedBase = adopted.savedBase)
              /\ hasUnsavedChanges(settled)
              /\ session' = adoptSnapshots(settled, Listing)
              /\ Len(session'.history) <= HistoryBound
              /\ UNCHANGED <<serial, early>>
           \/ /\ ~(same /\ file.savedBase = adopted.savedBase)
              /\ ~hasUnsavedChanges(settled)
              /\ Show(file, FALSE)
        /\ changed' = FALSE
        /\ UNCHANGED <<file, ticket, dialog, tickets, writer>>

(* Another photograph is shown; the edits have been saved, or are given up. *)
Leave ==
    /\ Quiet
    /\ session' = NoSession
    /\ ticket' = 0
    /\ UNCHANGED <<file, serial, dialog, tickets, writer, changed, early>>

(***************************************************************************)
(* The photograph is opened, once more or from another one (activateShot,  *)
(* openFile).  Its sidecar is read first; then the user is asked about     *)
(* edits that are not saved, of this or of the other photograph; then what *)
(* was read is shown.                                                      *)
(***************************************************************************)
Opens ==
    /\ dialog = NoDialog
    /\ Open => ~hasUnsavedChanges(Settled(session))
    /\ Show(file, FALSE)
    /\ ticket' = 0
    /\ changed' = FALSE
    /\ UNCHANGED <<file, dialog, tickets, writer>>

OpensAndAsks ==
    /\ dialog = NoDialog
    /\ session' = IF Open THEN Settled(session) ELSE session
    /\ Open => hasUnsavedChanges(session') /\ Len(session'.history) <= HistoryBound
    /\ dialog' = [op |-> "open", document |-> file]
    /\ UNCHANGED <<file, serial, ticket, tickets, writer, changed, early>>

SavesOrDiscards ==
    /\ dialog.op = "open"
    /\ \/ UNCHANGED file
       \/ Open /\ file' = SavedFile(Savable(session))
    /\ Show(dialog.document, dialog.document # file')
    /\ ticket' = 0
    /\ dialog' = NoDialog
    /\ UNCHANGED <<tickets, writer, changed>>

-----------------------------------------------------------------------------
(* Writes of others. *)

Foreign(new) ==
    /\ file' = new
    /\ changed' = TRUE
    /\ UNCHANGED <<window, tickets, writer, early>>

MayEdit == file.snapshots.revision < RevisionBound

OthersAdd ==
    \E draft \in {d \in Snapshot : d.name \in NewNames /\ ~d.thumbnail} :
        MayEdit /\ CanAdd(file, draft) /\ Foreign(AddSnapshot(file, draft))

OthersDelete ==
    \E id \in Ids(file.snapshots) : MayEdit /\ Foreign(DeleteSnapshot(file, id))

(* A text editor takes out what cannot be read: the revision stays. *)
OthersMend ==
    file.unreadable > 0 /\ Foreign([file EXCEPT !.unreadable = 0])

OthersSave ==
    \E recipe \in Recipe, base \in MaybeId :
        CanBase(file, base) /\ Foreign(WriteActiveAndBase(file, recipe, base, << >>))

-----------------------------------------------------------------------------
Next ==
    \/ Begin \/ SetState \/ Commit \/ Undo \/ RestoreSnapshot \/ Save
    \/ AskCreate \/ AskRename \/ AskDelete \/ AskDiscard \/ Agree \/ Decline
    \/ StoreThumbnail
    \/ Take \/ CarryOut
    \/ snapshotWriteLanded \/ sidecarChangedOnDisk
    \/ Leave \/ Opens \/ OpensAndAsks \/ SavesOrDiscards
    \/ OthersAdd \/ OthersDelete \/ OthersMend \/ OthersSave

Spec == Init /\ [][Next]_vars

(* The thread runs for as long as the window is there, every lock has a timeout, and *)
(* the event loop runs in dialogs too.                                               *)
Fairness == WF_vars(Take) /\ WF_vars(CarryOut) /\ WF_vars(snapshotWriteLanded)

LiveSpec == Spec /\ Fairness

-----------------------------------------------------------------------------
TypeOK ==
    /\ file \in Contents
    /\ Open => session \in Sessions
    /\ {serial, ticket, tickets} \subseteq Nat
    /\ queue \in Seq(Request) /\ run \in Seq(Request)
    /\ results \in Seq(SnapshotWriteResult)
    /\ {reread, changed, early} \subseteq BOOLEAN

(***************************************************************************)
(* The references of the session stay within its list, its history stays   *)
(* at its current step, and its list is one that the file has had, however *)
(* late results land and whatever was reported before them                 *)
(* (snapshotWriteLanded, adoptSnapshots, finishSnapshotWrite).             *)
(***************************************************************************)
SessionIsSound ==
    /\ TypeOK
    /\ Open => /\ BasesListed(session)
               /\ StepIsCurrent(session)
               /\ IsPast(session.held, file.snapshots)

(***************************************************************************)
(* While the actions are off because a structural write is owed, that      *)
(* write is under way, and it alone of those this session asked for        *)
(* (structuralTicket).                                                     *)
(***************************************************************************)
TicketIsOwed ==
    LET Owed == {write \in InFlight : ~isPatch(write) /\ write.owner = serial}
    IN  /\ ticket # 0 => \E write \in InFlight : ~isPatch(write) /\ write.ticket = ticket
        /\ Open => \A write \in Owed : write.ticket = ticket

(* ... and the actions come back (SnapshotWriter delivers every structural result). *)
TicketIsCleared == ticket # 0 ~> ticket = 0

(***************************************************************************)
(* A session never goes back to an older list: "an older result must not   *)
(* move the session backwards" (adoptSnapshots, finishSnapshotWrite).      *)
(***************************************************************************)
NeverBackwards ==
    [][ Open /\ Open' /\ serial' = serial
          => session'.held.revision >= session.held.revision ]_vars

(***************************************************************************)
(* The current look comes to be based on a snapshot the session did not    *)
(* list only when it is exactly that snapshot's look, whatever was edited  *)
(* while the snapshot was written (finishSnapshotWrite, "anchored").       *)
(***************************************************************************)
AnchorIsTrue ==
    [][ /\ Open /\ Open' /\ serial' = serial
        /\ session'.now.base \notin Ids(session.held) \cup {NoId}
        => session'.held.entries[session'.now.base].recipe = session'.now.recipe ]_vars

(***************************************************************************)
(* When nothing is under way and the watcher has reported what others      *)
(* wrote, the window shows the snapshots the file holds.  A session opened *)
(* on what was read before a dialog may not, and how many entries cannot   *)
(* be read may be behind: a text editor changes that without a revision.   *)
(***************************************************************************)
NothingMissed ==
    Open /\ InFlight = {} /\ ~changed /\ ~early
        => /\ SameEntries(session.held, file.snapshots)
           /\ session.held.revision = file.snapshots.revision

(***************************************************************************)
(* What the session takes for saved is what the file holds, but for saves  *)
(* of others (EditSession::saved, "Photograph as its sidecar holds it: the *)
(* baseline of unsaved changes").                                          *)
(***************************************************************************)
SavedIsTheFile == Open => session.saved = file.recipe

SavedIsKept == [][SavedIsTheFile /\ ~OthersSave => SavedIsTheFile']_vars
=============================================================================
