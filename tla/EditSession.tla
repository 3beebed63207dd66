----------------------------- MODULE EditSession -----------------------------
(***************************************************************************)
(* One EditSession over one photograph whose sidecar others write too: the *)
(* command line, scripts, another instance.  Every call of the session is  *)
(* one step, but for the calls that read the file again after their write  *)
(* was refused: others may write between the refusal, the reading and the  *)
(* second try.                                                             *)
(*                                                                         *)
(* The file changes by the writes of the abstract SnapshotStore, which     *)
(* SidecarFile implements.                                                 *)
(***************************************************************************)
EXTENDS EditHistory

CONSTANTS
    InitialFiles,
    HistoryBound,   \* cap on the steps of the history
    RevisionBound   \* cap on the revision of the file

VARIABLES
    file,     \* the contents of the sidecar
    session,
    phase     \* how far the call under way has got

vars == <<file, session, phase>>

ASSUME SessionAssumption ==
    /\ HistoryBound \in Nat
    /\ RevisionBound \in Nat
    /\ \A contents \in InitialFiles :
          /\ contents \in Contents
          /\ Sound(contents)
          /\ contents.snapshots.revision = 0 => Ids(contents.snapshots) = {}

Init ==
    /\ file \in InitialFiles
    /\ session \in {OpenedOn(file), OpenedBare(file)}
    /\ phase = "ready"

-----------------------------------------------------------------------------
(* Calls that leave the file alone. *)

Becomes(new) ==
    /\ Len(new.history) <= HistoryBound
    /\ session' = new

Local(new) == phase = "ready" /\ Becomes(new) /\ UNCHANGED <<file, phase>>

Begin == Local(begin(session))

Update ==
    \E recipe \in Recipe : editing(session) /\ Local(update(session, recipe))

Commit == editing(session) /\ Local(commit(session))

Cancel == editing(session) /\ Local(cancel(session))

SetState == \E state \in States : Local(setState(session, state))

SetBoth == \E recipe \in Recipe : Local(setBoth(session, recipe))

GoTo == \E index \in 1 .. HistoryBound : Local(goTo(session, index))

Undo == Local(undo(session))

Redo == Local(redo(session))

RestoreSnapshot ==
    \E id \in Ids(session.held) :
        Local(restoreSnapshot(session, id, session.held.entries[id]))

DiscardChanges == Local(FromStart(session))

RefreshSnapshots == Local(refreshSnapshots(session, file))

-----------------------------------------------------------------------------
(***************************************************************************)
(* save: the settings and the base go to the file before the session       *)
(* changes.  A base that another process has deleted is refused; the list  *)
(* is then read again and the write tried once more.                       *)
(***************************************************************************)
WritesBase == session.baseKnown \/ session.now.base # session.savedBase

SaveLands ==
    /\ WritesBase => CanBase(file, session.now.base)
    /\ file' = IF WritesBase
               THEN WriteActiveAndBase(file, Settling(session), session.now.base, << >>)
               ELSE WriteActive(file, Settling(session), session.marks)
    /\ Becomes(Saved(session, WritesBase))
    /\ phase' = "ready"

SaveRefused == WritesBase /\ ~CanBase(file, session.now.base)

Save ==
    /\ phase = "ready"
    /\ \/ SaveLands
       \/ SaveRefused /\ phase' = "baseMissing" /\ UNCHANGED <<file, session>>

SaveReadsAgain ==
    /\ phase = "baseMissing"
    /\ Becomes(refreshSnapshots(session, file))
    /\ phase' = "saveAgain"
    /\ UNCHANGED file

(* A second refusal is the caller's; the refreshed list stands. *)
SaveAgain ==
    /\ phase = "saveAgain"
    /\ \/ SaveLands
       \/ SaveRefused /\ phase' = "ready" /\ UNCHANGED <<file, session>>

(* Mutant of SetMarks: all marks are written. *)
SetAllMarks ==
    \E marks \in Marks :
        /\ phase = "ready"
        /\ file' = WriteMarks(file, marks)
        /\ session' = [session EXCEPT !.marks = marks]
        /\ UNCHANGED phase

(* Only the marks that differ are written. *)
SetMarks ==
    \E marks \in Marks :
        /\ phase = "ready"
        /\ file' = WriteMarks(file, ChangedMarks(session.marks, marks))
        /\ session' = [session EXCEPT !.marks = marks]
        /\ UNCHANGED phase

-----------------------------------------------------------------------------
(***************************************************************************)
(* Structural edits of the session.  The write is refused when the file is *)
(* not at the revision the session holds; the list is then read again, if  *)
(* it can be, and the edit given up.                                       *)
(***************************************************************************)
UpToDate == file.snapshots.revision = session.held.revision

MayEdit == file.snapshots.revision < RevisionBound

Conflicts ==
    /\ phase = "ready"
    /\ ~UpToDate
    /\ phase' = "conflict"
    /\ UNCHANGED <<file, session>>

CreateSnapshot ==
    \E name \in Names :
        LET draft == DraftOf(session, Settling(session), name)
            settled == Settled(session)
        IN  /\ phase = "ready" /\ UpToDate /\ MayEdit
            /\ CanAdd(file, draft)
            /\ file' = AddSnapshot(file, draft)
            /\ Becomes(finishCreate(settled, file', file.snapshots.nextId,
                                    draft, settled.position))
            /\ UNCHANGED phase

RenameSnapshotById ==
    \E id \in Ids(session.held), name \in Names :
        /\ phase = "ready" /\ UpToDate /\ MayEdit
        /\ id \in Ids(file.snapshots)
        /\ file' = RenameSnapshot(file, id, name)
        /\ session' = adoptSnapshots(session, file')
        /\ UNCHANGED phase

DeleteSnapshotById ==
    \E id \in Ids(session.held) :
        /\ phase = "ready" /\ UpToDate /\ MayEdit
        /\ id \in Ids(file.snapshots)
        /\ file' = DeleteSnapshot(file, id)
        /\ session' = adoptSnapshots(session, file')
        /\ UNCHANGED phase

(* A discard that finds nothing unreadable only tells the session so. *)
DiscardUnreadableEntries ==
    /\ phase = "ready" /\ UpToDate
    /\ \/ /\ file.unreadable > 0 /\ MayEdit
          /\ \E nextId \in file.snapshots.nextId .. MaximumId :
                file' = DiscardUnreadable(file, nextId)
          /\ session' = adoptSnapshots(session, file')
       \/ /\ file.unreadable = 0
          /\ session' = finishEmptyDiscard(session)
          /\ UNCHANGED file
    /\ UNCHANGED phase

ReadsAgain ==
    /\ phase = "conflict"
    /\ session' \in {session, refreshSnapshots(session, file)}
    /\ phase' = "ready"
    /\ UNCHANGED file

(* A thumbnail needs no revision: an id keeps its look for as long as it is listed. *)
ApplyThumbnail ==
    \E id \in Ids(session.held) \cap Ids(file.snapshots) :
        /\ phase = "ready"
        /\ file' = SetThumbnails(file, {id})
        /\ session' = finishThumbnail(session, id)
        /\ UNCHANGED phase

-----------------------------------------------------------------------------
(* Writes of others. *)

Foreign(new) == file' = new /\ UNCHANGED <<session, phase>>

OthersAdd ==
    /\ MayEdit
    /\ \E draft \in Snapshot :
          ~draft.thumbnail /\ CanAdd(file, draft) /\ Foreign(AddSnapshot(file, draft))

OthersRename ==
    \E id \in Ids(file.snapshots), name \in Names :
        MayEdit /\ Foreign(RenameSnapshot(file, id, name))

OthersDelete ==
    \E id \in Ids(file.snapshots) : MayEdit /\ Foreign(DeleteSnapshot(file, id))

OthersDiscard ==
    \E nextId \in file.snapshots.nextId .. MaximumId :
        MayEdit /\ file.unreadable > 0 /\ Foreign(DiscardUnreadable(file, nextId))

OthersStoreThumbnails ==
    \E ids \in SUBSET Ids(file.snapshots) : Foreign(SetThumbnails(file, ids))

OthersSaveMarks ==
    \E changes \in MarkChanges : Foreign(WriteMarks(file, changes))

OthersSave ==
    \E recipe \in Recipe, base \in MaybeId :
        CanBase(file, base) /\ Foreign(WriteActiveAndBase(file, recipe, base, << >>))

-----------------------------------------------------------------------------
Edits ==
    \/ Begin \/ Update \/ Commit \/ Cancel \/ SetState \/ SetBoth
    \/ GoTo \/ Undo \/ Redo \/ RestoreSnapshot \/ DiscardChanges \/ RefreshSnapshots

Writes ==
    \/ Save \/ SaveReadsAgain \/ SaveAgain \/ SetMarks
    \/ Conflicts \/ ReadsAgain
    \/ CreateSnapshot \/ RenameSnapshotById \/ DeleteSnapshotById
    \/ DiscardUnreadableEntries \/ ApplyThumbnail

Others ==
    \/ OthersAdd \/ OthersRename \/ OthersDelete \/ OthersDiscard
    \/ OthersStoreThumbnails \/ OthersSaveMarks \/ OthersSave

Next == Edits \/ Writes \/ Others

Spec == Init /\ [][Next]_vars

-----------------------------------------------------------------------------
TypeOK ==
    /\ file \in Contents
    /\ session \in Sessions
    /\ session.position \in 1 .. Len(session.history)
    /\ phase \in {"ready", "baseMissing", "saveAgain", "conflict"}

(***************************************************************************)
(* The current step is what undo leads away from: with no edit open it is  *)
(* the working look itself, and an open edit began at it.  Saves, refreshes *)
(* and snapshots made meanwhile move all of them together (goTo,           *)
(* commitPhoto, adopt, finishSnapshotWrite).                               *)
(***************************************************************************)
Coherent == TypeOK /\ StepIsCurrent(session)

(***************************************************************************)
(* No step, baseline or base refers to a snapshot that the session does    *)
(* not list, whoever deleted it and whenever the session learned of it     *)
(* (adopt, survivor, restoreSnapshot).                                     *)
(***************************************************************************)
RefsListed == BasesListed(session)

(***************************************************************************)
(* What the session holds is the file's list of some earlier time: never   *)
(* ahead of the file, the same entries at the same revision, and under an  *)
(* id both list, the same look, so a thumbnail rendered from the one may   *)
(* be stored in the other (adoptSnapshots, writeSnapshotThumbnailPatches). *)
(***************************************************************************)
HeldIsPast == IsPast(session.held, file.snapshots)

(***************************************************************************)
(* What the session takes for saved stays what the file says, through its  *)
(* own saves, refused and retried ones too, and through every structural   *)
(* edit of others; only another save comes between (save, adopt).  A       *)
(* session over a bare photograph does not know the saved base.            *)
(***************************************************************************)
Agrees ==
    /\ file.recipe = session.saved
    /\ session.baseKnown =>
          Survivor(session.held, session.savedBase, file.snapshots) = file.savedBase

AgreementKept == [][Agrees => Agrees' \/ OthersSave]_vars

(***************************************************************************)
(* A mark that another process wrote is never put back: the session        *)
(* changes a mark of the file only when it is told to change its own       *)
(* (setMarks, save).  Saving a bare photograph writes all its marks, as    *)
(* save documents.                                                         *)
(***************************************************************************)
MarksNotPutBack ==
    [][ \A m \in MarkNames :
          file'.marks[m] # file.marks[m] /\ session.baseKnown /\ Writes
              => session'.marks[m] # session.marks[m] ]_vars

(***************************************************************************)
(* Redo is offered only when it has a step to go to, once an open edit has *)
(* been committed (canRedo, redo).                                         *)
(***************************************************************************)
CanRedoMeansRedo ==
    canRedo(session) => Settled(session).position < Len(Settled(session).history)

(***************************************************************************)
(* Undo is offered only when it has a step to take back: "Whether undo()   *)
(* has a step to take back, counting an open edit that changed something." *)
(***************************************************************************)
CanUndoMeansUndo == canUndo(session) => Settled(session).position > 1
=============================================================================
