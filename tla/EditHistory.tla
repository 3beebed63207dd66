----------------------------- MODULE EditHistory -----------------------------
(***************************************************************************)
(* The edit and history part of arraw's EditSession, without the file: a   *)
(* working look, at most one open edit that remembers where it began, the  *)
(* steps that undo and redo walk, and the list of snapshots all of them    *)
(* refer to.  Operators take a session and give the session after the      *)
(* call; what a call needs (an open edit, a listed snapshot) is the guard  *)
(* of the action that uses it.                                             *)
(***************************************************************************)
EXTENDS Snapshots, Sequences

CONSTANTS
    Match,  \* the lens the database matches this photograph with, or NoLens
    NoEdit  \* no edit is open

ASSUME HistoryAssumption ==
    /\ Match \in Lenses \cup {NoLens}
    /\ NoEdit \notin [recipe : Recipe, base : MaybeId]

(* A look and the snapshot it is based on: what a step, a baseline and the *)
(* working state each hold.                                                *)
Point == [recipe : Recipe, base : MaybeId]

Sessions ==
    [now        : Point,
     baseline   : Point \cup {NoEdit},  \* where the open edit began
     history    : Seq(Point),
     position   : Nat,                  \* of the current step, the first being 1
     saved      : Recipe,
     savedBase  : MaybeId,
     baseKnown  : BOOLEAN,              \* whether the session has read the file's saved base
     marks      : Marks,
     held       : Collection,           \* the snapshots as last read
     unreadable : Nat]

editing(session) == session.baseline # NoEdit

(* Mutant of FromStart: the position is left where it was. *)
FromStartInPlace(session) ==
    LET point == [recipe |-> session.saved, base |-> session.savedBase]
    IN  [session EXCEPT !.now = point, !.baseline = NoEdit, !.history = <<point>>]

(* The one step of a session as opened, or with its changes discarded. *)
FromStart(session) ==
    LET point == [recipe |-> session.saved, base |-> session.savedBase]
    IN  [session EXCEPT !.now = point, !.baseline = NoEdit,
                        !.history = <<point>>, !.position = 1]

OpenedWith(contents, base, known, held, unreadable) ==
    FromStart([now        |-> [recipe |-> contents.recipe, base |-> base],
               baseline   |-> NoEdit,
               history    |-> << >>,
               position   |-> 1,
               saved      |-> contents.recipe,
               savedBase  |-> base,
               baseKnown  |-> known,
               marks      |-> contents.marks,
               held       |-> held,
               unreadable |-> unreadable])

(* A session over a document (openDocument), and one over a bare photograph. *)
OpenedOn(contents) ==
    OpenedWith(contents, contents.savedBase, TRUE, contents.snapshots, contents.unreadable)

OpenedBare(contents) == OpenedWith(contents, NoId, FALSE, NoSnapshots, 0)

-----------------------------------------------------------------------------
(* recordLensMatch: a match is recorded when a correction is on and no lens is. *)
RecordLensMatch(recipe) ==
    IF recipe.correct /\ recipe.lens = NoLens
    THEN [recipe EXCEPT !.lens = Match] ELSE recipe

LensSettings(recipe) == <<recipe.correct, recipe.lens>>

withLensRecorded(before, after) ==
    IF LensSettings(before) = LensSettings(after) THEN after ELSE RecordLensMatch(after)

(* The steps after the position are dropped. *)
appendStep(session) ==
    [session EXCEPT !.history = Append(SubSeq(@, 1, session.position), session.now),
                !.position = @ + 1]

commitPhoto(session, next) ==
    LET ended == [session EXCEPT !.now.recipe = next, !.baseline = NoEdit]
    IN  IF session.baseline = ended.now THEN ended ELSE appendStep(ended)

(* The look as the commit of the open edit will leave it. *)
Settling(session) ==
    IF editing(session) THEN withLensRecorded(session.baseline.recipe, session.now.recipe)
    ELSE session.now.recipe

commit(session) == commitPhoto(session, Settling(session))

(* What most calls do first. *)
Settled(session) == IF editing(session) THEN commit(session) ELSE session

begin(session) == LET settled == Settled(session)
              IN  [settled EXCEPT !.baseline = settled.now]

update(session, recipe) == [session EXCEPT !.now.recipe = recipe]

cancel(session) == [session EXCEPT !.now = session.baseline, !.baseline = NoEdit]

(* setState of a develop state: an edit of its own. *)
setState(session, state) ==
    commit(update(begin(session), [session.now.recipe EXCEPT !.state = state]))

(* setState of a negative and a state: a step of its own.  The lens that      *)
(* committing the open edit records is kept by a negative that was built      *)
(* before, and both records compare with the look they follow.                *)
setBoth(session, recipe) ==
    LET settled == Settled(session)
        kept == IF /\ session.now.recipe.lens = NoLens
                   /\ recipe.lens = NoLens
                THEN [recipe EXCEPT !.lens = settled.now.recipe.lens] ELSE recipe
        next == withLensRecorded(settled.now.recipe, kept)
    IN  IF next = settled.now.recipe THEN settled
        ELSE appendStep([settled EXCEPT !.now.recipe = next])

-----------------------------------------------------------------------------
baselineIsCurrent(session) == session.baseline = session.now

canUndo(session) == session.position > 1 \/ (editing(session) /\ ~baselineIsCurrent(session))

(* Mutant of canRedo: the open edit is not considered. *)
canRedoWhileEditing(session) == session.position < Len(session.history)

canRedo(session) ==
    /\ session.position < Len(session.history)
    /\ editing(session) => baselineIsCurrent(session)

(* A step that is not there leaves only the commit. *)
goTo(session, index) ==
    LET settled == Settled(session)
    IN  IF index \in 1 .. Len(settled.history)
        THEN [settled EXCEPT !.now = settled.history[index], !.position = index]
        ELSE settled

undo(session) == goTo(session, Settled(session).position - 1)

redo(session) == goTo(session, Settled(session).position + 1)

(* The snapshot's own recipe, exactly: no lens is matched again. *)
restoreSnapshot(session, id, snapshot) ==
    LET settled == Settled(session)
        target == [recipe |-> snapshot.recipe, base |-> id]
    IN  IF settled.now = target THEN settled
        ELSE appendStep([settled EXCEPT !.now = target])

-----------------------------------------------------------------------------
(* A list of snapshots comes in: every reference goes to the nearest ancestor *)
(* that it still has.                                                         *)
Moved(session, fresh, point) == [point EXCEPT !.base = Survivor(session.held, @, fresh)]

(* Mutant of adopt: the open edit goes back to where it began. *)
adoptButBaseline(session, fresh) ==
    [session EXCEPT
        !.now       = Moved(session, fresh, @),
        !.history   = [i \in 1 .. Len(@) |-> Moved(session, fresh, session.history[i])],
        !.savedBase = Survivor(session.held, @, fresh),
        !.held      = fresh]

(* Mutant of adopt: the steps keep their bases. *)
adoptButHistory(session, fresh) ==
    [session EXCEPT
        !.now       = Moved(session, fresh, @),
        !.baseline  = IF editing(session) THEN Moved(session, fresh, @) ELSE NoEdit,
        !.savedBase = Survivor(session.held, @, fresh),
        !.held      = fresh]

adopt(session, fresh) ==
    [session EXCEPT
        !.now       = Moved(session, fresh, @),
        !.baseline  = IF editing(session) THEN Moved(session, fresh, @) ELSE NoEdit,
        !.history   = [i \in 1 .. Len(@) |-> Moved(session, fresh, session.history[i])],
        !.savedBase = Survivor(session.held, @, fresh),
        !.held      = fresh]

refreshSnapshots(session, contents) ==
    [adopt(session, contents.snapshots) EXCEPT !.unreadable = contents.unreadable]

(* Mutant of adoptSnapshots: the latest result counts. *)
adoptWhatever(session, contents) == refreshSnapshots(session, contents)

(* An older result does not move the session backwards. *)
adoptSnapshots(session, contents) ==
    IF contents.snapshots.revision < session.held.revision THEN session
    ELSE refreshSnapshots(session, contents)

(* Mutants of CanAnchor: the snapshot may be gone, the look may be another. *)
CanAnchorUnlisted(session, id, draft, position) ==
    /\ ~editing(session)
    /\ session.position = position
    /\ session.now = [recipe |-> draft.recipe, base |-> draft.parent]

CanAnchorAnyLook(session, id, draft, position) ==
    /\ id \in Ids(session.held)
    /\ ~editing(session)
    /\ session.now.base = draft.parent

(* The current look becomes the look of a new snapshot, when it still is what *)
(* the snapshot was made of.                                                  *)
CanAnchor(session, id, draft, position) ==
    /\ id \in Ids(session.held)
    /\ ~editing(session)
    /\ session.position = position
    /\ session.now = [recipe |-> draft.recipe, base |-> draft.parent]

Anchored(session, id) ==
    [session EXCEPT
        !.now.base = id,
        !.history  = [i \in 1 .. Len(@) |->
                         IF i = session.position THEN [session.history[i] EXCEPT !.base = id]
                         ELSE session.history[i]]]

finishCreate(session, contents, id, draft, position) ==
    LET adopted == adoptSnapshots(session, contents)
    IN  IF CanAnchor(adopted, id, draft, position) THEN Anchored(adopted, id) ELSE adopted

finishThumbnail(session, id) ==
    IF id \in Ids(session.held)
    THEN [session EXCEPT !.held.entries[id].thumbnail = TRUE] ELSE session

(* A discard that found nothing unreadable only tells the session so. *)
finishEmptyDiscard(session) == [session EXCEPT !.unreadable = 0]

DraftOf(session, look, name) ==
    [parent |-> session.now.base, recipe |-> look, name |-> name, thumbnail |-> FALSE]

(* Mutant of Saved: the base is not remembered. *)
SavedWithoutBase(session, known) ==
    [Settled(session) EXCEPT !.saved = Settling(session), !.baseKnown = known]

(* The session after a save of its look and base. *)
Saved(session, known) ==
    [Settled(session) EXCEPT !.saved     = Settling(session),
                             !.baseKnown = known,
                             !.savedBase = session.now.base]

hasUnsavedChanges(session) ==
    session.now # [recipe |-> session.saved, base |-> session.savedBase]

-----------------------------------------------------------------------------
(* What the sessions of EditSession and of SnapshotWorkflow must satisfy. *)

(* The current step is what undo leads away from. *)
StepIsCurrent(session) ==
    session.history[session.position] =
        IF editing(session) THEN session.baseline ELSE session.now

Bases(session) ==
    {session.now.base, session.savedBase}
        \cup (IF editing(session) THEN {session.baseline.base} ELSE {})
        \cup {session.history[i].base : i \in 1 .. Len(session.history)}

BasesListed(session) == Bases(session) \subseteq Ids(session.held) \cup {NoId}

(* A list that the file has had: never ahead of it, the same entries at the *)
(* same revision, and the same look under an id that both list.             *)
IsPast(held, current) ==
    /\ held.revision <= current.revision
    /\ held.revision = current.revision => SameEntries(held, current)
    /\ \A id \in Ids(held) \cap Ids(current) :
          held.entries[id].recipe = current.entries[id].recipe
=============================================================================
