---------------------------- MODULE SnapshotStore ----------------------------
(***************************************************************************)
(* What the sidecar of one photograph promises to everything that reads    *)
(* it: the abstract store.  Its one variable is the contents a reader gets *)
(* (readSidecar); a step is one successful write by anyone, made whole and *)
(* upon the contents that are there.  Locks, rereads, refusals, crashes    *)
(* and the text of the file are SidecarFile's, which implements this       *)
(* module.                                                                 *)
(***************************************************************************)
EXTENDS Snapshots

CONSTANTS
    InitialFiles,  \* contents the store may start with
    RevisionBound  \* cap on the revision, so that a model stays finite

VARIABLE file

vars == <<file>>

ASSUME StoreAssumption ==
    /\ RevisionBound \in Nat
    /\ \A contents \in InitialFiles : contents \in Contents /\ Sound(contents)

Init == file \in InitialFiles

-----------------------------------------------------------------------------
MayEdit == file.snapshots.revision < RevisionBound

Add ==
    \E draft \in Snapshot :
        /\ MayEdit
        /\ CanAdd(file, draft)
        /\ file' = AddSnapshot(file, draft)

Rename ==
    \E id \in Ids(file.snapshots), name \in Names :
        /\ MayEdit
        /\ file' = RenameSnapshot(file, id, name)

Delete ==
    \E id \in Ids(file.snapshots) :
        /\ MayEdit
        /\ file' = DeleteSnapshot(file, id)

Discard ==
    \E nextId \in file.snapshots.nextId .. MaximumId :
        /\ MayEdit
        /\ file.unreadable > 0
        /\ file' = DiscardUnreadable(file, nextId)

StoreThumbnails ==
    \E ids \in SUBSET Ids(file.snapshots) : file' = SetThumbnails(file, ids)

SaveActive ==
    \E recipe \in Recipe, changes \in MarkChanges :
        file' = WriteActive(file, recipe, changes)

SaveActiveAndBase ==
    \E recipe \in Recipe, changes \in MarkChanges, base \in MaybeId :
        /\ CanBase(file, base)
        /\ file' = WriteActiveAndBase(file, recipe, base, changes)

SaveMarks ==
    \E changes \in MarkChanges : file' = WriteMarks(file, changes)

Next ==
    \/ Add
    \/ Rename
    \/ Delete
    \/ Discard
    \/ StoreThumbnails
    \/ SaveActive
    \/ SaveActiveAndBase
    \/ SaveMarks

Spec == Init /\ [][Next]_vars

-----------------------------------------------------------------------------
(***************************************************************************)
(* The contents stay in the shape the reader gives them.                   *)
(***************************************************************************)
TypeOK == file \in Contents

(***************************************************************************)
(* After any run of writes the list is a forest within its limit, every id *)
(* lies under the counter, and the saved base is listed: a delete has      *)
(* moved the children and the saved base along with it                     *)
(* (validate(SnapshotCollection), deleteSnapshot, writeActive).            *)
(***************************************************************************)
FileSound == Sound(file)

(***************************************************************************)
(* An id once given is never given again: the counter only rises, and a    *)
(* snapshot that appears takes an id the counter had not passed            *)
(* (SnapshotId::value, "never reused after a snapshot is deleted").        *)
(***************************************************************************)
IdsNeverReused ==
    [][ /\ file'.snapshots.nextId >= file.snapshots.nextId
        /\ \A id \in Ids(file'.snapshots) \ Ids(file.snapshots) :
              id >= file.snapshots.nextId ]_vars

(***************************************************************************)
(* Two contents of one revision list the same snapshots, and a higher      *)
(* revision keeps the look of every id they share: what lets a session     *)
(* hold a list, compare revisions, and write a thumbnail without looking   *)
(* at the recipe again (finishSnapshotWrite, adoptSnapshots).              *)
(***************************************************************************)
RevisionTellsChange ==
    [][ /\ file'.snapshots.revision >= file.snapshots.revision
        /\ file'.snapshots.revision = file.snapshots.revision
              => SameSnapshots(file.snapshots, file'.snapshots)
        /\ \A id \in Ids(file.snapshots) \cap Ids(file'.snapshots) :
              file'.snapshots.entries[id].recipe = file.snapshots.entries[id].recipe ]_vars

=============================================================================
