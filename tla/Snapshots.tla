------------------------------ MODULE Snapshots ------------------------------
(***************************************************************************)
(* What the sidecar of a photograph says once arraw has read it, and what  *)
(* each write does to it.  The module has no variables: SnapshotStore, the *)
(* abstract store, EditSession and SnapshotWorkflow all speak of sidecar   *)
(* contents with these operators.                                          *)
(*                                                                         *)
(* A recipe stands for the develop state and the negative settings.  Of    *)
(* the negative only the lens matters here: whether a lens correction is   *)
(* on, and which lens is recorded, because recording it is the one change  *)
(* the program makes to a look by itself.  A thumbnail is there and        *)
(* current, or it is not.                                                  *)
(***************************************************************************)
EXTENDS Integers, FiniteSets

CONSTANTS
    States,           \* develop states
    DefaultState,     \* the state a photograph opens with when none is recorded
    Corrections,      \* positions of the correction switch: BOOLEAN, or one of them
    Lenses,           \* lenses a photograph can record
    NoLens,
    Names,            \* snapshot names
    NoSnapshot,       \* what a collection holds under an id it does not list
    MarkNames,        \* the marks of a photograph: its rating, its label
    MarkValues,
    MaximumSnapshots, \* maximumSnapshots
    MaximumId         \* 2^64 - 1, the largest id; none is ever given out

ASSUME SnapshotsAssumption ==
    /\ DefaultState \in States
    /\ Corrections \subseteq BOOLEAN
    /\ NoLens \notin Lenses
    /\ NoSnapshot \notin [parent : 0 .. MaximumId,
                           recipe : [state   : States,
                                     correct : Corrections,
                                     lens    : Lenses \cup {NoLens}],
                           name : Names, thumbnail : BOOLEAN]
    /\ MaximumSnapshots \in Nat
    /\ MaximumId \in Nat \ {0}

NoId == 0
SnapshotId == 1 .. (MaximumId - 1)
MaybeId == SnapshotId \cup {NoId}

Recipe == [state : States, correct : Corrections, lens : Lenses \cup {NoLens}]

Snapshot == [parent : MaybeId, recipe : Recipe, name : Names, thumbnail : BOOLEAN]

Collection ==
    [revision : Nat,
     nextId   : SnapshotId \cup {MaximumId},
     entries  : [SnapshotId -> Snapshot \cup {NoSnapshot}]]

Ids(collection) == {id \in SnapshotId : collection.entries[id] # NoSnapshot}

Marks == [MarkNames -> MarkValues]
MarkChanges == UNION {[M -> MarkValues] : M \in SUBSET MarkNames}

Contents ==
    [recorded   : BOOLEAN,
     recipe     : Recipe,
     savedBase  : MaybeId,
     marks      : Marks,
     unreadable : Nat,
     snapshots  : Collection]

NoSnapshots ==
    [revision |-> 0, nextId |-> 1, entries |-> [id \in SnapshotId |-> NoSnapshot]]

-----------------------------------------------------------------------------
(***************************************************************************)
(* What a collection must satisfy to be written: the limit, every id under *)
(* the counter, every parent listed, and no snapshot its own ancestor.  A  *)
(* cycle is a set of snapshots whose parents all lie inside the set.       *)
(***************************************************************************)
BelowCounter(collection) == \A id \in Ids(collection) : id < collection.nextId

ParentsListed(collection) ==
    \A id \in Ids(collection) :
        collection.entries[id].parent \in Ids(collection) \cup {NoId}

Acyclic(collection) ==
    \A S \in SUBSET Ids(collection) :
        S # {} => \E id \in S : collection.entries[id].parent \notin S

Valid(collection) ==
    /\ Cardinality(Ids(collection)) <= MaximumSnapshots
    /\ BelowCounter(collection)
    /\ ParentsListed(collection)
    /\ Acyclic(collection)

CanBase(contents, base) == base \in Ids(contents.snapshots) \cup {NoId}

(* The contents any reading gives: the reader repairs whatever it finds into this. *)
Sound(contents) ==
    /\ Valid(contents.snapshots)
    /\ CanBase(contents, contents.savedBase)

(***************************************************************************)
(* Where the walk up the parents held, from id, meets what fresh lists, or *)
(* ends.  It is bounded by the number of entries held.                     *)
(***************************************************************************)
WalkUp(held, id, fresh) ==
    LET bound == Cardinality(Ids(held)) + 1
        walk[left \in 0 .. bound] ==
            [at \in MaybeId |->
                IF at \in Ids(fresh) \cup {NoId} THEN at
                ELSE IF left = 0 \/ at \notin Ids(held) THEN NoId
                ELSE walk[left - 1][held.entries[at].parent]]
    IN  walk[bound][id]

(* The nearest ancestor of id, in the collection held, that fresh still lists. *)
Survivor(held, id, fresh) ==
    IF id \in Ids(fresh) \cup {NoId} THEN id
    ELSE IF WalkUp(held, id, fresh) \in Ids(fresh) THEN WalkUp(held, id, fresh)
    ELSE NoId

(***************************************************************************)
(* Whether two collections list the same snapshots but for the thumbnails, *)
(* which are derived data and do not raise the revision.                   *)
(***************************************************************************)
SameEntries(one, other) ==
    /\ Ids(one) = Ids(other)
    /\ \A id \in Ids(one) :
          [one.entries[id] EXCEPT !.thumbnail = FALSE] =
              [other.entries[id] EXCEPT !.thumbnail = FALSE]

SameSnapshots(one, other) == one.nextId = other.nextId /\ SameEntries(one, other)

-----------------------------------------------------------------------------
(***************************************************************************)
(* Structural edits.  Each raises the revision, and none lowers the        *)
(* counter.                                                                *)
(***************************************************************************)
Edited(contents, nextId, entries) ==
    [contents EXCEPT !.snapshots =
        [revision |-> contents.snapshots.revision + 1,
         nextId   |-> nextId,
         entries  |-> entries]]

(* Entries that cannot be read stay in the list and count toward the limit. *)
HasRoom(contents) ==
    Cardinality(Ids(contents.snapshots)) + contents.unreadable < MaximumSnapshots

(* Mutant of CanAdd: the counter may pass the largest id. *)
CanAddPastTheLast(contents, draft) ==
    /\ HasRoom(contents)
    /\ draft.parent \in Ids(contents.snapshots) \cup {NoId}

CanAdd(contents, draft) ==
    /\ HasRoom(contents)
    /\ draft.parent \in Ids(contents.snapshots) \cup {NoId}
    /\ contents.snapshots.nextId # MaximumId

(* Mutant of AddSnapshot: the lowest free id is given. *)
AddAtFreeId(contents, draft) ==
    LET old == contents.snapshots
        Free == SnapshotId \ Ids(old)
        id == CHOOSE free \in Free : \A another \in Free : free <= another
    IN  Edited(contents, IF id < old.nextId THEN old.nextId ELSE id + 1,
               [old.entries EXCEPT ![id] = draft])

AddSnapshot(contents, draft) ==
    LET old == contents.snapshots
    IN  Edited(contents, old.nextId + 1, [old.entries EXCEPT ![old.nextId] = draft])

RenameSnapshot(contents, id, name) ==
    Edited(contents, contents.snapshots.nextId,
           [contents.snapshots.entries EXCEPT ![id].name = name])

(* Mutant of DeleteSnapshot: the children keep the deleted snapshot as parent. *)
DeleteLeavingChildren(contents, id) ==
    LET old == contents.snapshots
    IN  Edited([contents EXCEPT !.savedBase = IF @ = id THEN NoId ELSE @], old.nextId,
               [old.entries EXCEPT ![id] = NoSnapshot])

(* Mutant of DeleteSnapshot: the revision is not raised. *)
DeleteQuietly(contents, id) ==
    [DeleteLeavingChildren(contents, id) EXCEPT !.snapshots.revision = contents.snapshots.revision]

(* The children of a deleted snapshot, and a saved base on it, move to its parent. *)
DeleteSnapshot(contents, id) ==
    LET old == contents.snapshots
        heir(ref) == IF ref = id THEN old.entries[id].parent ELSE ref
    IN  Edited([contents EXCEPT !.savedBase = heir(@)], old.nextId,
               [other \in SnapshotId |->
                   IF other \in Ids(old) \ {id}
                   THEN [old.entries[other] EXCEPT !.parent = heir(@)]
                   ELSE NoSnapshot])

(* The counter is raised above every id the discarded entries carried. *)
DiscardUnreadable(contents, nextId) ==
    Edited([contents EXCEPT !.unreadable = 0], nextId, contents.snapshots.entries)

(* Thumbnails are derived data: storing them does not raise the revision. *)
SetThumbnails(contents, ids) ==
    LET old == contents.snapshots
    IN  [contents EXCEPT !.snapshots.entries =
            [id \in SnapshotId |->
                IF id \in ids THEN [old.entries[id] EXCEPT !.thumbnail = TRUE]
                ELSE old.entries[id]]]

-----------------------------------------------------------------------------
(***************************************************************************)
(* Writes of the active settings and of the marks.  Only the marks named   *)
(* in changes are written.                                                 *)
(***************************************************************************)
WithMarks(marks, changes) ==
    [m \in MarkNames |-> IF m \in DOMAIN changes THEN changes[m] ELSE marks[m]]

ChangedMarks(from, to) == [m \in {n \in MarkNames : from[n] # to[n]} |-> to[m]]

WriteMarks(contents, changes) == [contents EXCEPT !.marks = WithMarks(@, changes)]

WriteActive(contents, recipe, changes) ==
    [WriteMarks(contents, changes) EXCEPT !.recorded = TRUE, !.recipe = recipe]

WriteActiveAndBase(contents, recipe, base, changes) ==
    [WriteActive(contents, recipe, changes) EXCEPT !.savedBase = base]
=============================================================================
