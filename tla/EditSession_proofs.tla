-------------------------- MODULE EditSession_proofs --------------------------
(***************************************************************************)
(* What EditSession keeps whatever the user, the command line and other    *)
(* processes do and in whatever order: for every history, every list of    *)
(* snapshots and every file a session may be opened over.  And, in the     *)
(* second half, what the modes of a window keep of the session they edit,  *)
(* whatever looks there are and in whatever order keys, drags and what     *)
(* happens to the window come.                                             *)
(***************************************************************************)
EXTENDS MCEditSession, Snapshots_proofs

(* The list held must be one of the file's past in the strong sense: that its *)
(* counter is not past the file's is what keeps an id another process adds    *)
(* from being one the session takes for another snapshot.                     *)
Inv ==
    /\ file \in Contents
    /\ Sound(file)
    /\ WellFormed(session)
    /\ Past(session.held, file.snapshots)
    /\ phase \in {"ready", "baseMissing", "saveAgain", "conflict"}

(* Every session the program opens starts in good order. *)
LEMMA InvInit == Init => Inv
<1> SUFFICES ASSUME Init
             PROVE  Inv
  OBVIOUS
<1>1. /\ file \in Contents
      /\ Sound(file)
      /\ file.snapshots.revision = 0 => Ids(file.snapshots) = {}
  BY SessionAssumption DEF Init
<1>2. /\ file.snapshots \in Collection /\ Valid(file.snapshots)
      /\ file.savedBase \in Ids(file.snapshots) \cup {NoId}
      /\ file.unreadable \in Nat
  BY <1>1 DEF Contents, Sound, CanBase
<1>3. CASE session = OpenedOn(file)
  BY <1>1, <1>2, <1>3, OpenedOnWell, PresentIsPast DEF Init, Inv
<1>4. CASE session = OpenedBare(file)
  BY <1>1, <1>2, <1>4, OpenedBareWell, NothingIsPast DEF Init, Inv
<1> QED  BY <1>3, <1>4 DEF Init

(* The file's list, as every step finds it. *)
LEMMA FileParts ==
    ASSUME Inv
    PROVE  /\ file \in Contents /\ Sound(file)
           /\ file.snapshots \in Collection /\ Valid(file.snapshots)
           /\ file.unreadable \in Nat /\ file.marks \in Marks
           /\ session \in Sessions /\ WellFormed(session)
           /\ session.held \in Collection
           /\ Past(file.snapshots, file.snapshots)
<1>1. /\ file \in Contents /\ Sound(file)
      /\ file.snapshots \in Collection /\ Valid(file.snapshots)
      /\ file.unreadable \in Nat /\ file.marks \in Marks
      /\ session \in Sessions /\ WellFormed(session)
  BY DEF Inv, Contents, Sound, WellFormed, Anchorable
<1> QED  BY <1>1, PresentIsPast, SessionParts

(* Sessions a call may leave while it leaves the file alone. *)
LEMMA LocalKeeps ==
    ASSUME Inv, NEW new, WellFormed(new),
           new.held = session.held \/ new.held = file.snapshots,
           session' = new, UNCHANGED file,
           phase' \in {"ready", "baseMissing", "saveAgain", "conflict"}
    PROVE  Inv'
BY FileParts DEF Inv

(* ... and a write that leaves the session's list alone, or that it learns from. *)
LEMMA WriteKeeps ==
    ASSUME Inv, file' \in Contents, Sound(file'), Later(file.snapshots, file'.snapshots),
           WellFormed(session'),
           \/ session'.held = session.held
           \/ session'.held = file'.snapshots
           \/ Past(session'.held, file.snapshots),
           phase' \in {"ready", "baseMissing", "saveAgain", "conflict"}
    PROVE  Inv'
<1>1. file.snapshots \in Collection /\ file'.snapshots \in Collection /\ Valid(file'.snapshots)
      /\ Valid(file.snapshots)
  BY FileParts DEF Contents, Sound
<1>2. Past(session.held, file'.snapshots)
  BY <1>1, PastStays DEF Inv
<1>3. Past(file'.snapshots, file'.snapshots)
  BY <1>1, PresentIsPast
<1>4. CASE session'.held = session.held
  BY <1>2, <1>4 DEF Inv
<1>5. CASE session'.held = file'.snapshots
  BY <1>3, <1>5 DEF Inv
<1>6. CASE Past(session'.held, file.snapshots)
  <2>1. Past(session'.held, file'.snapshots)
    BY <1>1, <1>6, PastStays
  <2> QED  BY <2>1 DEF Inv
<1> QED  BY <1>4, <1>5, <1>6

-----------------------------------------------------------------------------
(* Edits, undo and redo leave the file alone and the session in good order. *)
LEMMA EditsKeep == Inv /\ Edits => Inv'
<1> SUFFICES ASSUME Inv, Edits
             PROVE  Inv'
  OBVIOUS
<1>0. WellFormed(session) /\ session \in Sessions
  BY FileParts
<1>1. ASSUME NEW new, Local(new), WellFormed(new),
             new.held = session.held \/ new.held = file.snapshots
      PROVE  Inv'
  BY <1>1, LocalKeeps DEF Local, Becomes
<1>2. CASE Begin
  BY <1>0, <1>1, <1>2, BeginWell DEF Begin, Frame
<1>3. CASE Update
  BY <1>0, <1>1, <1>3, UpdateWell DEF Update, Frame
<1>4. CASE Commit
  <2>1. WellFormed(commit(session)) /\ Frame(session, commit(session))
    BY <1>0, <1>4, CommitIsSettling, SettledWell DEF Commit
  <2> QED  BY <1>1, <1>4, <2>1 DEF Commit, Frame
<1>5. CASE Cancel
  BY <1>0, <1>1, <1>5, CancelWell DEF Cancel, Frame
<1>6. CASE SetState
  BY <1>0, <1>1, <1>6, SetStateWell DEF SetState, Frame
<1>7. CASE SetBoth
  BY <1>0, <1>1, <1>7, SetBothWell DEF SetBoth, Frame
<1>8. CASE GoTo
  BY <1>0, <1>1, <1>8, GoToWell DEF GoTo, Frame
<1>9. CASE Undo
  BY <1>0, <1>1, <1>9, GoToWell DEF Undo, undo, Frame
<1>10. CASE Redo
  BY <1>0, <1>1, <1>10, GoToWell DEF Redo, redo, Frame
<1>11. CASE RestoreSnapshot
  <2>1. PICK id \in Ids(session.held) :
           Local(restoreSnapshot(session, id, session.held.entries[id]))
    BY <1>11 DEF RestoreSnapshot
  <2>2. session.held.entries[id] \in Snapshot
    BY FileParts, IdsType
  <2> QED  BY <1>0, <1>1, <2>1, <2>2, RestoreWell DEF Frame
<1>12. CASE DiscardChanges
  <2>1. session.savedBase \in Listed(session)
    BY <1>0 DEF WellFormed, Anchorable
  <2> QED  BY <1>0, <1>1, <1>12, <2>1, FromStartWell DEF DiscardChanges, Frame
<1>13. CASE RefreshSnapshots
  BY <1>0, <1>1, <1>13, FileParts, RefreshWell DEF RefreshSnapshots
<1> QED  BY <1>2, <1>3, <1>4, <1>5, <1>6, <1>7, <1>8, <1>9, <1>10, <1>11, <1>12, <1>13
         DEF Edits

-----------------------------------------------------------------------------
(* A save that lands leaves the list of the file and of the session alone. *)
LEMMA SaveLandsKeeps ==
    ASSUME Inv, SaveLands
    PROVE  /\ Inv'
           /\ file'.snapshots = file.snapshots
           /\ session'.held = session.held
<1>1. /\ WellFormed(session) /\ session \in Sessions
      /\ session.marks \in Marks /\ session.now.base \in MaybeId
      /\ Settling(session) \in Recipe
      /\ file \in Contents /\ Sound(file)
  BY FileParts, SessionParts, SettlingType
<1>2. session.marks \in MarkChanges /\ << >> \in MarkChanges
  BY <1>1, ChangedMarksType, NoMarksType
<1>3. WritesBase \in BOOLEAN
  BY <1>1, SessionParts DEF WritesBase
<1>4. /\ WellFormed(Saved(session, WritesBase))
      /\ Saved(session, WritesBase).held = session.held
  BY <1>1, <1>3, SavedWell
<1>5. session' = Saved(session, WritesBase) /\ phase' = "ready"
  BY DEF SaveLands, Becomes
<1>6. file' \in Contents /\ Sound(file') /\ file'.snapshots = file.snapshots
  <2>1. CASE WritesBase
    <3>1. CanBase(file, session.now.base)
          /\ file' = WriteActiveAndBase(file, Settling(session), session.now.base, << >>)
      BY <2>1 DEF SaveLands
    <3> QED  BY <1>1, <1>2, <3>1, ActiveAndBaseSound, ActiveAndBaseEffect
  <2>2. CASE ~WritesBase
    <3>1. file' = WriteActive(file, Settling(session), session.marks)
      BY <2>2 DEF SaveLands
    <3> QED  BY <1>1, <1>2, <3>1, ActiveSound, ActiveEffect
  <2> QED  BY <2>1, <2>2
<1>7. Later(file.snapshots, file'.snapshots)
  BY <1>6, FileParts, SameIsLater
<1> QED  BY <1>4, <1>5, <1>6, <1>7, WriteKeeps

(* What a structural write brings is the list that the file then has. *)
LEMMA BroughtKeeps ==
    ASSUME Inv, file' \in Contents, Sound(file'), Later(file.snapshots, file'.snapshots),
           session' = adoptSnapshots(session, file'), UNCHANGED phase
    PROVE  Inv'
<1>1. WellFormed(session) /\ file'.snapshots \in Collection /\ file'.unreadable \in Nat
  BY FileParts DEF Contents
<1>2. /\ WellFormed(session')
      /\ session'.held = session.held \/ session'.held = file'.snapshots
  BY <1>1, AdoptSnapshotsWell
<1> QED  BY <1>2, WriteKeeps DEF Inv

(* So do the writes of the session: what it then holds is the file's list. *)
LEMMA WritesKeep == Inv /\ Writes => Inv'
<1> SUFFICES ASSUME Inv, Writes
             PROVE  Inv'
  OBVIOUS
<1>0. /\ WellFormed(session) /\ session \in Sessions /\ session.held \in Collection
      /\ file \in Contents /\ Sound(file)
      /\ file.snapshots \in Collection /\ file.unreadable \in Nat
  BY FileParts
<1>1. CASE Save
  <2>1. CASE SaveLands
    BY <2>1, SaveLandsKeeps
  <2>2. CASE phase' = "baseMissing" /\ UNCHANGED <<file, session>>
    BY <1>0, <2>2, LocalKeeps
  <2> QED  BY <1>1, <2>1, <2>2 DEF Save
<1>2. CASE SaveReadsAgain
  BY <1>0, <1>2, RefreshWell, LocalKeeps DEF SaveReadsAgain, Becomes
<1>3. CASE SaveAgain
  <2>1. CASE SaveLands
    BY <2>1, SaveLandsKeeps
  <2>2. CASE phase' = "ready" /\ UNCHANGED <<file, session>>
    BY <1>0, <2>2, LocalKeeps
  <2> QED  BY <1>3, <2>1, <2>2 DEF SaveAgain
<1>4. CASE SetMarks
  <2>1. PICK marks \in Marks :
           /\ file' = WriteMarks(file, ChangedMarks(session.marks, marks))
           /\ session' = [session EXCEPT !.marks = marks]
           /\ UNCHANGED phase
    BY <1>4 DEF SetMarks
  <2>2. ChangedMarks(session.marks, marks) \in MarkChanges
    BY <1>0, SessionParts, ChangedMarksType
  <2>3. file' \in Contents /\ Sound(file') /\ file'.snapshots = file.snapshots
    BY <1>0, <2>1, <2>2, MarksSound, MarksEffect
  <2>4. WellFormed(session') /\ session'.held = session.held
    BY <1>0, <2>1, MarksWell
  <2>5. Later(file.snapshots, file'.snapshots)
    BY <1>0, <2>3, SameIsLater
  <2> QED  BY <2>1, <2>3, <2>4, <2>5, WriteKeeps DEF Inv
<1>5. CASE Conflicts
  BY <1>0, <1>5, LocalKeeps DEF Conflicts
<1>6. CASE ReadsAgain
  BY <1>0, <1>6, RefreshWell, LocalKeeps DEF ReadsAgain
<1>7. CASE CreateSnapshot
  <2> DEFINE settled == Settled(session)
  <2>1. PICK name \in Names :
           LET draft == DraftOf(session, Settling(session), name)
           IN  /\ CanAdd(file, draft)
               /\ file' = AddSnapshot(file, draft)
               /\ session' = finishCreate(settled, file', file.snapshots.nextId,
                                          draft, settled.position)
               /\ UNCHANGED phase
    BY <1>7 DEF CreateSnapshot, Becomes
  <2> DEFINE draft == DraftOf(session, Settling(session), name)
             id == file.snapshots.nextId
             position == settled.position
             after == finishCreate(settled, file', id, draft, position)
  <2>2. draft \in Snapshot
    BY <1>0, SessionParts, SettlingType DEF DraftOf, Snapshot
  <2>3. WellFormed(settled) /\ settled.held = session.held
    BY <1>0, SettledWell DEF Frame
  <2>7. session' = after
    BY <2>1
  <2> HIDE DEF draft, settled, id, position
  <2>4. /\ file' \in Contents /\ Sound(file')
        /\ Later(file.snapshots, file'.snapshots)
    BY <1>0, <2>1, <2>2, AddSound, AddLater DEF draft
  <2>5. file'.snapshots \in Collection /\ file'.unreadable \in Nat
    BY <2>4 DEF Contents
  <2>6. /\ WellFormed(session')
        /\ session'.held = settled.held \/ session'.held = file'.snapshots
    BY <2>3, <2>5, <2>7, FinishCreateWell
  <2> QED  BY <2>1, <2>3, <2>4, <2>6, WriteKeeps DEF Inv
<1>8. CASE RenameSnapshotById
  BY <1>0, <1>8, RenameSound, RenameLater, BroughtKeeps DEF RenameSnapshotById
<1>9. CASE DeleteSnapshotById
  BY <1>0, <1>9, DeleteSound, DeleteLater, BroughtKeeps DEF DeleteSnapshotById
<1>10. CASE DiscardUnreadableEntries
  <2>1. CASE session' = adoptSnapshots(session, file')
             /\ \E nextId \in file.snapshots.nextId .. MaximumId :
                   file' = DiscardUnreadable(file, nextId)
    BY <1>0, <1>10, <2>1, DiscardSound, DiscardLater, BroughtKeeps
       DEF DiscardUnreadableEntries
  <2>2. CASE session' = finishEmptyDiscard(session) /\ UNCHANGED file
    BY <1>0, <1>10, <2>2, EmptyDiscardWell, LocalKeeps DEF DiscardUnreadableEntries, Inv
  <2> QED  BY <1>10, <2>1, <2>2 DEF DiscardUnreadableEntries
<1>11. CASE ApplyThumbnail
  <2>1. PICK id \in Ids(session.held) \cap Ids(file.snapshots) :
           /\ file' = SetThumbnails(file, {id})
           /\ session' = finishThumbnail(session, id)
           /\ UNCHANGED phase
    BY <1>11 DEF ApplyThumbnail
  <2>2. {id} \in SUBSET Ids(file.snapshots)
    OBVIOUS
  <2>3. /\ file' \in Contents /\ Sound(file')
        /\ Later(file.snapshots, file'.snapshots)
    BY <1>0, <2>1, <2>2, ThumbnailSound, ThumbnailLater
  <2>4. /\ WellFormed(session')
        /\ session'.held \in Collection
        /\ session'.held.revision = session.held.revision
        /\ SameSnapshots(session.held, session'.held)
        /\ \A i \in Ids(session.held) :
              session'.held.entries[i].recipe = session.held.entries[i].recipe
    BY <1>0, <2>1, FinishThumbnailWell
  <2>5. Past(session'.held, file.snapshots)
    BY <1>0, <2>4, PastWithThumbnail DEF Inv
  <2> QED  BY <2>1, <2>3, <2>4, <2>5, WriteKeeps DEF Inv
<1> QED  BY <1>1, <1>2, <1>3, <1>4, <1>5, <1>6, <1>7, <1>8, <1>9, <1>10, <1>11 DEF Writes

-----------------------------------------------------------------------------
(* What others write leaves the session holding an older list. *)
LEMMA OthersKeep == Inv /\ Others => Inv'
<1> SUFFICES ASSUME Inv, Others
             PROVE  Inv'
  OBVIOUS
<1>0. /\ WellFormed(session)
      /\ file \in Contents /\ Sound(file) /\ file.snapshots \in Collection
  BY FileParts
<1>1. ASSUME NEW new \in Contents, Foreign(new), Sound(new), Later(file.snapshots, new.snapshots)
      PROVE  Inv'
  BY <1>0, <1>1, WriteKeeps DEF Foreign, Inv
<1>2. CASE OthersAdd
  BY <1>0, <1>1, <1>2, AddSound, AddLater DEF OthersAdd
<1>3. CASE OthersRename
  BY <1>0, <1>1, <1>3, RenameSound, RenameLater DEF OthersRename
<1>4. CASE OthersDelete
  BY <1>0, <1>1, <1>4, DeleteSound, DeleteLater DEF OthersDelete
<1>5. CASE OthersDiscard
  BY <1>0, <1>1, <1>5, DiscardSound, DiscardLater DEF OthersDiscard
<1>6. CASE OthersStoreThumbnails
  BY <1>0, <1>1, <1>6, ThumbnailSound, ThumbnailLater DEF OthersStoreThumbnails
<1>7. CASE OthersSaveMarks
  <2>1. PICK changes \in MarkChanges : Foreign(WriteMarks(file, changes))
    BY <1>7 DEF OthersSaveMarks
  <2> QED  BY <1>0, <1>1, <2>1, MarksSound, MarksEffect, SameIsLater
<1>8. CASE OthersSave
  <2>1. PICK recipe \in Recipe, base \in MaybeId :
           CanBase(file, base) /\ Foreign(WriteActiveAndBase(file, recipe, base, << >>))
    BY <1>8 DEF OthersSave
  <2> QED  BY <1>0, <1>1, <2>1, NoMarksType, ActiveAndBaseSound, ActiveAndBaseEffect, SameIsLater
<1> QED  BY <1>2, <1>3, <1>4, <1>5, <1>6, <1>7, <1>8 DEF Others

(* No step breaks the invariant. *)
LEMMA InvNext == Inv /\ [Next]_vars => Inv'
<1>1. Inv /\ UNCHANGED vars => Inv'
  BY DEF Inv, vars
<1> QED  BY <1>1, EditsKeep, WritesKeep, OthersKeep DEF Next

(* The invariant holds in every state. *)
LEMMA Invariance == Spec => []Inv
<1> QED  BY InvInit, InvNext, PTL DEF Spec

-----------------------------------------------------------------------------
(* The current step is the working look, or where the open edit began, whatever *)
(* calls, refusals and lists came before.                                       *)
THEOREM AlwaysCoherent == Spec => []Coherent
<1>1. Inv => Coherent
  BY FileParts DEF Inv, Coherent, TypeOK, WellFormed, Anchorable, Steps
<1> QED  BY <1>1, Invariance, PTL

(* Every reference of the session is to a snapshot it lists. *)
THEOREM ReferencesAreListed == Spec => []RefsListed
<1>1. Inv => RefsListed
  BY WellFormedMeans DEF Inv, RefsListed
<1> QED  BY <1>1, Invariance, PTL

(* The list held is one that the file has had. *)
THEOREM HeldIsOfThePast == Spec => []HeldIsPast
<1>1. Inv => HeldIsPast
  BY DEF Inv, HeldIsPast, Past
<1> QED  BY <1>1, Invariance, PTL

(* A redo that is offered has a step to go to. *)
THEOREM RedoGoesSomewhere == Spec => []CanRedoMeansRedo
<1>1. Inv => CanRedoMeansRedo
  BY RedoHasStep DEF Inv, CanRedoMeansRedo
<1> QED  BY <1>1, Invariance, PTL

-----------------------------------------------------------------------------
(* A mark that a write of the session changes in the file is one the session was *)
(* told to change: a save over a document names no marks, and setMarks only the  *)
(* ones that differ.                                                             *)
MarksStay ==
    \A m \in MarkNames :
        file'.marks[m] # file.marks[m] /\ session.baseKnown /\ Writes
            => session'.marks[m] # session.marks[m]

(* The marks after a write of some. *)
LEMMA MarksAfter ==
    ASSUME NEW f \in Contents, NEW changes \in MarkChanges, NEW m \in MarkNames
    PROVE  WriteMarks(f, changes).marks[m] =
               IF m \in DOMAIN changes THEN changes[m] ELSE f.marks[m]
BY DEF WriteMarks, WithMarks, Contents

(* The marks that a save names are those the session changed, and no others. *)
LEMMA StepKeepsMarks == Inv /\ [Next]_vars => MarksStay
<1> SUFFICES ASSUME Inv, NEW m \in MarkNames, session.baseKnown, Writes,
                    file'.marks[m] # file.marks[m]
             PROVE  session'.marks[m] # session.marks[m]
  BY DEF MarksStay
<1>0. file \in Contents /\ session \in Sessions /\ session.marks \in Marks
  BY FileParts, SessionParts
<1>1. CASE SaveLands
  <2>1. WritesBase
    BY DEF WritesBase
  <2>2. file' = WriteActiveAndBase(file, Settling(session), session.now.base, << >>)
    BY <1>1, <2>1 DEF SaveLands
  <2>3. file'.marks = WriteMarks(file, << >>).marks
    BY <1>0, <2>2, NoMarksType, MarksEffect DEF WriteActiveAndBase, WriteActive, Contents
  <2>4. file'.marks[m] = file.marks[m]
    BY <1>0, <2>3, NoMarksType, MarksAfter
  <2> QED  BY <2>4
<1>2. CASE SetMarks
  <2>1. PICK marks \in Marks :
           /\ file' = WriteMarks(file, ChangedMarks(session.marks, marks))
           /\ session' = [session EXCEPT !.marks = marks]
    BY <1>2 DEF SetMarks
  <2>2. /\ ChangedMarks(session.marks, marks) \in MarkChanges
        /\ DOMAIN ChangedMarks(session.marks, marks) =
               {n \in MarkNames : session.marks[n] # marks[n]}
    BY <1>0, ChangedMarksType
  <2>3. m \in DOMAIN ChangedMarks(session.marks, marks)
    BY <1>0, <2>1, <2>2, MarksAfter
  <2>4. session'.marks = marks
    BY <1>0, <2>1 DEF Sessions
  <2> QED  BY <2>2, <2>3, <2>4
<1>3. CASE UNCHANGED file
  BY <1>3
<1>4. CASE CreateSnapshot \/ RenameSnapshotById \/ DeleteSnapshotById
           \/ DiscardUnreadableEntries \/ ApplyThumbnail
  <2>1. file'.marks = file.marks
    BY <1>0, <1>4
       DEF CreateSnapshot, RenameSnapshotById, DeleteSnapshotById, DiscardUnreadableEntries,
           ApplyThumbnail, AddSnapshot, RenameSnapshot, DeleteSnapshot, DiscardUnreadable,
           SetThumbnails, Edited, Contents
  <2> QED  BY <2>1
<1> QED  BY <1>1, <1>2, <1>3, <1>4
         DEF Writes, Save, SaveReadsAgain, SaveAgain, Conflicts, ReadsAgain

(* A mark that another process wrote is not put back by saves, refusals or retries. *)
THEOREM MarksAreLeftAlone == Spec => MarksNotPutBack
<1>1. Inv /\ [Next]_vars => [MarksStay]_vars
  BY StepKeepsMarks
<1>2. Spec => [][MarksStay]_vars
  BY <1>1, Invariance, PTL DEF Spec
<1> QED  BY <1>2 DEF MarksNotPutBack, MarksStay

-----------------------------------------------------------------------------
(* Where agreement is kept: what a session takes for saved is untouched while the *)
(* file is; *)
LEMMA UntouchedAgrees ==
    ASSUME Inv, Agrees, UNCHANGED file,
           session'.saved = session.saved, session'.baseKnown = session.baseKnown,
           Brings(session, file.snapshots, session')
    PROVE  Agrees'
<1>1. CanBase(file, file.savedBase)
  BY FileParts DEF Sound
<1>2. Survivor(file.snapshots, file.savedBase, file.snapshots) = file.savedBase
  BY <1>1, ListedSurvives
<1> QED  BY <1>2 DEF Agrees, Brings

(* it follows a write that the session learns from, or does not hear of; *)
LEMMA FollowedAgrees ==
    ASSUME Inv, Agrees, file' \in Contents, Sound(file'),
           Later(file.snapshots, file'.snapshots), Follows(file, file'),
           session'.saved = session.saved, session'.baseKnown = session.baseKnown,
           Brings(session, file'.snapshots, session')
    PROVE  Agrees'
<1>1. /\ file \in Contents /\ Sound(file)
      /\ Past(session.held, file.snapshots)
      /\ session.savedBase \in Ids(session.held) \cup {NoId}
  BY FileParts DEF Inv, WellFormed, Anchorable, Listed
<1>2. file'.recipe = session'.saved
  BY DEF Agrees, Follows
<1>3. session.baseKnown =>
         Survivor(session.held, session.savedBase, file'.snapshots) = file'.savedBase
  BY <1>1, AgreementStays DEF Agrees
<1>4. Survivor(file'.snapshots, file'.savedBase, file'.snapshots) = file'.savedBase
  BY ListedSurvives DEF Sound
<1> QED  BY <1>2, <1>3, <1>4 DEF Agrees, Brings

(* and a save sets both. *)
LEMMA SavedAgrees ==
    ASSUME Inv, SaveLands
    PROVE  Agrees'
<1>1. /\ WellFormed(session) /\ session \in Sessions
      /\ session.marks \in Marks /\ session.now.base \in MaybeId
      /\ Settling(session) \in Recipe
      /\ file \in Contents /\ Sound(file)
  BY FileParts, SessionParts, SettlingType
<1>2. session.marks \in MarkChanges /\ << >> \in MarkChanges
  BY <1>1, ChangedMarksType, NoMarksType
<1>3. WritesBase \in BOOLEAN
  BY <1>1, SessionParts DEF WritesBase
<1>4. /\ session'.saved = Settling(session)
      /\ session'.savedBase = session.now.base
      /\ session'.baseKnown = WritesBase
  BY <1>1, <1>3, SavedWell DEF SaveLands, Becomes
<1>5. CASE WritesBase
  <2>1. CanBase(file, session.now.base)
        /\ file' = WriteActiveAndBase(file, Settling(session), session.now.base, << >>)
    BY <1>5 DEF SaveLands
  <2>2. /\ file'.snapshots = file.snapshots
        /\ file'.savedBase = session.now.base
        /\ file'.recipe = Settling(session)
    <3>1. file'.snapshots = file.snapshots /\ file'.savedBase = session.now.base
      BY <1>1, <1>2, <2>1, ActiveAndBaseEffect
    <3>2. file'.recipe = Settling(session)
      BY <1>1, <2>1 DEF WriteActiveAndBase, WriteActive, WriteMarks, Contents
    <3> QED  BY <3>1, <3>2
  <2>3. CanBase(file', file'.savedBase)
    BY <2>1, <2>2 DEF CanBase
  <2> QED  BY <1>4, <2>2, <2>3, ListedSurvives DEF Agrees
<1>6. CASE ~WritesBase
  <2>1. file' = WriteActive(file, Settling(session), session.marks)
    BY <1>6 DEF SaveLands
  <2>2. file'.recipe = Settling(session)
    BY <1>1, <1>2, <2>1, SettingsWritten
  <2> QED  BY <1>4, <1>6, <2>2 DEF Agrees
<1> QED  BY <1>5, <1>6

(* A call leaves the saved look, and the saved base unless a list comes in. *)
LEMMA EditsAgree == Inv /\ Agrees /\ Edits => Agrees'
<1> SUFFICES ASSUME Inv, Agrees, Edits
             PROVE  Agrees'
  OBVIOUS
<1>0. WellFormed(session) /\ session \in Sessions
  BY FileParts
<1>1. ASSUME NEW new, Local(new), Frame(session, new)
      PROVE  Agrees'
  BY <1>1, UntouchedAgrees DEF Local, Becomes, Frame, Brings
<1>2. CASE Begin
  BY <1>0, <1>1, <1>2, BeginWell DEF Begin
<1>3. CASE Update
  BY <1>0, <1>1, <1>3, UpdateWell DEF Update
<1>4. CASE Commit
  <2>1. Frame(session, commit(session))
    BY <1>0, <1>4, CommitIsSettling, SettledWell DEF Commit
  <2> QED  BY <1>1, <1>4, <2>1 DEF Commit
<1>5. CASE Cancel
  BY <1>0, <1>1, <1>5, CancelWell DEF Cancel
<1>6. CASE SetState
  BY <1>0, <1>1, <1>6, SetStateWell DEF SetState
<1>7. CASE SetBoth
  BY <1>0, <1>1, <1>7, SetBothWell DEF SetBoth
<1>8. CASE GoTo
  BY <1>0, <1>1, <1>8, GoToWell DEF GoTo
<1>9. CASE Undo
  BY <1>0, <1>1, <1>9, GoToWell DEF Undo, undo
<1>10. CASE Redo
  BY <1>0, <1>1, <1>10, GoToWell DEF Redo, redo
<1>11. CASE RestoreSnapshot
  <2>1. PICK id \in Ids(session.held) :
           Local(restoreSnapshot(session, id, session.held.entries[id]))
    BY <1>11 DEF RestoreSnapshot
  <2>2. session.held.entries[id] \in Snapshot
    BY FileParts, IdsType
  <2> QED  BY <1>0, <1>1, <2>1, <2>2, RestoreWell
<1>12. CASE DiscardChanges
  <2>1. session.savedBase \in Listed(session)
    BY <1>0 DEF WellFormed, Anchorable
  <2> QED  BY <1>0, <1>1, <1>12, <2>1, FromStartWell DEF DiscardChanges
<1>13. CASE RefreshSnapshots
  BY <1>0, <1>13, FileParts, RefreshWell, UntouchedAgrees
     DEF RefreshSnapshots, Local, Becomes, Brings
<1> QED  BY <1>2, <1>3, <1>4, <1>5, <1>6, <1>7, <1>8, <1>9, <1>10, <1>11, <1>12, <1>13
         DEF Edits

(* After a write of its own the session agrees with the file on the saved base. *)
LEMMA WritesAgree == Inv /\ Agrees /\ Writes => Agrees'
<1> SUFFICES ASSUME Inv, Agrees, Writes
             PROVE  Agrees'
  OBVIOUS
<1>0. /\ WellFormed(session) /\ session \in Sessions /\ session.held \in Collection
      /\ file \in Contents /\ Sound(file)
      /\ file.snapshots \in Collection /\ file.unreadable \in Nat
  BY FileParts
<1>1. CASE UNCHANGED <<file, session>>
  BY <1>1, UntouchedAgrees DEF Brings
<1>2. ASSUME session' = refreshSnapshots(session, file), UNCHANGED file
      PROVE  Agrees'
  BY <1>0, <1>2, RefreshWell, UntouchedAgrees DEF Brings
<1>3. CASE SetMarks
  <2>1. PICK marks \in Marks :
           /\ file' = WriteMarks(file, ChangedMarks(session.marks, marks))
           /\ session' = [session EXCEPT !.marks = marks]
    BY <1>3 DEF SetMarks
  <2>2. ChangedMarks(session.marks, marks) \in MarkChanges
    BY <1>0, SessionParts, ChangedMarksType
  <2>3. /\ file' \in Contents /\ Sound(file') /\ file'.snapshots = file.snapshots
        /\ Follows(file, file')
    BY <1>0, <2>1, <2>2, MarksSound, MarksEffect, MarksFollow
  <2>4. /\ session'.held = session.held /\ session'.savedBase = session.savedBase
        /\ session'.saved = session.saved /\ session'.baseKnown = session.baseKnown
    BY <1>0, <2>1, MarksWell
  <2>5. Later(file.snapshots, file'.snapshots)
    BY <1>0, <2>3, SameIsLater
  <2> QED  BY <2>3, <2>4, <2>5, FollowedAgrees DEF Brings
<1>4. ASSUME file' \in Contents, Sound(file'), Later(file.snapshots, file'.snapshots),
             Follows(file, file'), session' = adoptSnapshots(session, file')
      PROVE  Agrees'
  <2>1. file'.snapshots \in Collection /\ file'.unreadable \in Nat
    BY <1>4 DEF Contents
  <2>2. /\ Brings(session, file'.snapshots, session')
        /\ session'.saved = session.saved /\ session'.baseKnown = session.baseKnown
    BY <1>0, <1>4, <2>1, AdoptSnapshotsWell
  <2> QED  BY <1>4, <2>2, FollowedAgrees
<1>5. CASE CreateSnapshot
  <2> DEFINE settled == Settled(session)
  <2>1. PICK name \in Names :
           LET draft == DraftOf(session, Settling(session), name)
           IN  /\ CanAdd(file, draft)
               /\ file' = AddSnapshot(file, draft)
               /\ session' = finishCreate(settled, file', file.snapshots.nextId,
                                          draft, settled.position)
    BY <1>5 DEF CreateSnapshot, Becomes
  <2> DEFINE draft == DraftOf(session, Settling(session), name)
             id == file.snapshots.nextId
             position == settled.position
             after == finishCreate(settled, file', id, draft, position)
  <2>2. draft \in Snapshot
    BY <1>0, SessionParts, SettlingType DEF DraftOf, Snapshot
  <2>3. WellFormed(settled) /\ Frame(session, settled)
    BY <1>0, SettledWell
  <2>4. session' = after
    BY <2>1
  <2> HIDE DEF draft, settled, id, position
  <2>5. /\ file' \in Contents /\ Sound(file')
        /\ Later(file.snapshots, file'.snapshots) /\ Follows(file, file')
    BY <1>0, <2>1, <2>2, AddSound, AddLater, AddFollows DEF draft
  <2>6. file'.snapshots \in Collection /\ file'.unreadable \in Nat
    BY <2>5 DEF Contents
  <2>7. /\ Brings(settled, file'.snapshots, session')
        /\ session'.saved = settled.saved /\ session'.baseKnown = settled.baseKnown
    BY <2>3, <2>4, <2>6, FinishCreateWell
  <2>8. Brings(session, file'.snapshots, session')
    BY <2>3, <2>7 DEF Brings, Frame
  <2> QED  BY <2>3, <2>5, <2>7, <2>8, FollowedAgrees DEF Frame
<1>6. CASE RenameSnapshotById
  BY <1>0, <1>4, <1>6, RenameSound, RenameLater, RenameFollows DEF RenameSnapshotById
<1>7. CASE DeleteSnapshotById
  BY <1>0, <1>4, <1>7, DeleteSound, DeleteLater, DeleteFollows DEF DeleteSnapshotById
<1>8. CASE DiscardUnreadableEntries
  <2>1. CASE session' = adoptSnapshots(session, file')
             /\ \E nextId \in file.snapshots.nextId .. MaximumId :
                   file' = DiscardUnreadable(file, nextId)
    BY <1>0, <1>4, <2>1, DiscardSound, DiscardLater, DiscardFollows
  <2>2. CASE session' = finishEmptyDiscard(session) /\ UNCHANGED file
    BY <1>0, <2>2, EmptyDiscardWell, UntouchedAgrees DEF Brings
  <2> QED  BY <1>8, <2>1, <2>2 DEF DiscardUnreadableEntries
<1>9. CASE ApplyThumbnail
  <2>1. PICK id \in Ids(session.held) \cap Ids(file.snapshots) :
           /\ file' = SetThumbnails(file, {id})
           /\ session' = finishThumbnail(session, id)
    BY <1>9 DEF ApplyThumbnail
  <2>2. {id} \in SUBSET Ids(file.snapshots)
    OBVIOUS
  <2>3. /\ file' \in Contents /\ Sound(file')
        /\ Later(file.snapshots, file'.snapshots) /\ Follows(file, file')
    BY <1>0, <2>1, <2>2, ThumbnailSound, ThumbnailLater, ThumbnailFollows
  <2>4. /\ session'.held \in Collection
        /\ SameSnapshots(session.held, session'.held)
        /\ session'.savedBase = session.savedBase
        /\ session'.saved = session.saved /\ session'.baseKnown = session.baseKnown
    BY <1>0, <2>1, FinishThumbnailWell
  <2>5. /\ Past(session.held, file'.snapshots)
        /\ session.savedBase \in Ids(session.held) \cup {NoId}
    BY <1>0, <2>3, PastStays DEF Inv, Contents, Sound, WellFormed, Anchorable, Listed
  <2>6. session.baseKnown =>
           Survivor(session.held, session.savedBase, file'.snapshots) = file'.savedBase
    BY <1>0, <2>3, <2>5, AgreementStays DEF Inv, Agrees
  <2>7. Survivor(session'.held, session.savedBase, file'.snapshots) =
            Survivor(session.held, session.savedBase, file'.snapshots)
    BY <1>0, <2>4, <2>5, LineageOfSame DEF Past, SameSnapshots
  <2> QED  BY <2>3, <2>4, <2>6, <2>7 DEF Agrees, Follows
<1>10. Save \/ SaveAgain => SaveLands \/ UNCHANGED <<file, session>>
  BY DEF Save, SaveAgain
<1>11. SaveReadsAgain \/ Conflicts \/ ReadsAgain =>
          \/ UNCHANGED <<file, session>>
          \/ session' = refreshSnapshots(session, file) /\ UNCHANGED file
  BY DEF SaveReadsAgain, Conflicts, ReadsAgain, Becomes
<1> QED  BY <1>1, <1>2, <1>3, <1>5, <1>6, <1>7, <1>8, <1>9, <1>10, <1>11, SavedAgrees DEF Writes

(* A write of others keeps the agreement: both move to the same ancestor. *)
LEMMA OthersAgree == Inv /\ Agrees /\ Others => Agrees' \/ OthersSave
<1> SUFFICES ASSUME Inv, Agrees, Others, ~OthersSave
             PROVE  Agrees'
  OBVIOUS
<1>0. file \in Contents /\ Sound(file) /\ file.snapshots \in Collection
  BY FileParts
<1>1. ASSUME NEW new \in Contents, Foreign(new), Sound(new),
             Later(file.snapshots, new.snapshots), Follows(file, new)
      PROVE  Agrees'
  BY <1>1, FollowedAgrees DEF Foreign, Brings
<1>2. CASE OthersAdd
  BY <1>0, <1>1, <1>2, AddSound, AddLater, AddFollows DEF OthersAdd
<1>3. CASE OthersRename
  BY <1>0, <1>1, <1>3, RenameSound, RenameLater, RenameFollows DEF OthersRename
<1>4. CASE OthersDelete
  BY <1>0, <1>1, <1>4, DeleteSound, DeleteLater, DeleteFollows DEF OthersDelete
<1>5. CASE OthersDiscard
  BY <1>0, <1>1, <1>5, DiscardSound, DiscardLater, DiscardFollows DEF OthersDiscard
<1>6. CASE OthersStoreThumbnails
  BY <1>0, <1>1, <1>6, ThumbnailSound, ThumbnailLater, ThumbnailFollows DEF OthersStoreThumbnails
<1>7. CASE OthersSaveMarks
  <2>1. PICK changes \in MarkChanges : Foreign(WriteMarks(file, changes))
    BY <1>7 DEF OthersSaveMarks
  <2> QED  BY <1>0, <1>1, <2>1, MarksSound, MarksEffect, MarksFollow, SameIsLater
<1> QED  BY <1>2, <1>3, <1>4, <1>5, <1>6, <1>7 DEF Others

(* What a session takes for saved stays what the file says, until another process *)
(* saves: deletions by anyone, saves refused and retried, and lists that come in  *)
(* late all leave both on the same ancestor.                                      *)
THEOREM AgreementStaysKept == Spec => AgreementKept
<1>1. Inv /\ [Next]_vars => [Agrees => Agrees' \/ OthersSave]_vars
  BY EditsAgree, WritesAgree, OthersAgree DEF Next
<1>2. Spec => [][Agrees => Agrees' \/ OthersSave]_vars
  BY <1>1, Invariance, PTL DEF Spec
<1> QED  BY <1>2 DEF AgreementKept

-----------------------------------------------------------------------------
(* To anything that reads it, the file of a session and of all who write beside it *)
(* is the store: no call, retry or refusal does more than one write of the store's. *)
Store == INSTANCE SnapshotStore

(* The store speaks of contents in the same words. *)
LEMMA SameWords ==
    /\ Store!NoId = NoId
    /\ Store!SnapshotId = SnapshotId
    /\ Store!MaybeId = MaybeId
    /\ Store!Recipe = Recipe
    /\ Store!Snapshot = Snapshot
    /\ Store!MarkChanges = MarkChanges
    /\ \A c : Store!Ids(c) = Ids(c)
    /\ \A f, base : Store!CanBase(f, base) <=> CanBase(f, base)
    /\ \A f, draft : Store!CanAdd(f, draft) <=> CanAdd(f, draft)
<1>0. \A S : Store!Cardinality(S) = Cardinality(S)
  BY DEF Store!Cardinality, Cardinality
<1>1. /\ Store!NoId = NoId /\ Store!SnapshotId = SnapshotId /\ Store!MaybeId = MaybeId
      /\ Store!Recipe = Recipe
  BY DEF Store!NoId, NoId, Store!SnapshotId, SnapshotId, Store!MaybeId, MaybeId,
         Store!Recipe, Recipe
<1>2. Store!Snapshot = Snapshot
  BY <1>1 DEF Store!Snapshot, Snapshot
<1>3. Store!MarkChanges = MarkChanges
  BY DEF Store!MarkChanges, MarkChanges
<1>4. \A c : Store!Ids(c) = Ids(c)
  BY <1>1 DEF Store!Ids, Ids
<1>5. \A f, base : Store!CanBase(f, base) <=> CanBase(f, base)
  BY <1>1, <1>4 DEF Store!CanBase, CanBase
<1>6. \A f, draft : Store!CanAdd(f, draft) <=> CanAdd(f, draft)
  <2> SUFFICES ASSUME NEW f, NEW draft
               PROVE  Store!CanAdd(f, draft) <=> CanAdd(f, draft)
    OBVIOUS
  <2>1. Store!Ids(f.snapshots) = Ids(f.snapshots)
    BY <1>4
  <2>2. Store!HasRoom(f) <=> HasRoom(f)
    BY <1>0, <2>1 DEF Store!HasRoom, HasRoom
  <2> QED  BY <1>1, <2>1, <2>2 DEF Store!CanAdd, CanAdd
<1> QED  BY <1>1, <1>2, <1>3, <1>4, <1>5, <1>6

(* The writes of the abstract store are those of the session. *)
LEMMA SameWrites ==
    /\ \A f, draft : Store!AddSnapshot(f, draft) = AddSnapshot(f, draft)
    /\ \A f, id, name : Store!RenameSnapshot(f, id, name) = RenameSnapshot(f, id, name)
    /\ \A f, id : Store!DeleteSnapshot(f, id) = DeleteSnapshot(f, id)
    /\ \A f, nextId : Store!DiscardUnreadable(f, nextId) = DiscardUnreadable(f, nextId)
    /\ \A f, ids : Store!SetThumbnails(f, ids) = SetThumbnails(f, ids)
    /\ \A f, changes : Store!WriteMarks(f, changes) = WriteMarks(f, changes)
    /\ \A f, recipe, changes :
          Store!WriteActive(f, recipe, changes) = WriteActive(f, recipe, changes)
    /\ \A f, recipe, base, changes :
          Store!WriteActiveAndBase(f, recipe, base, changes) =
              WriteActiveAndBase(f, recipe, base, changes)
<1>1. \A f, nextId, entries : Store!Edited(f, nextId, entries) = Edited(f, nextId, entries)
  BY DEF Store!Edited, Edited
<1>2. \A f, draft : Store!AddSnapshot(f, draft) = AddSnapshot(f, draft)
  BY <1>1 DEF Store!AddSnapshot, AddSnapshot
<1>3. \A f, id, name : Store!RenameSnapshot(f, id, name) = RenameSnapshot(f, id, name)
  BY <1>1 DEF Store!RenameSnapshot, RenameSnapshot
<1>4. \A f, id : Store!DeleteSnapshot(f, id) = DeleteSnapshot(f, id)
  BY <1>1, SameWords DEF Store!DeleteSnapshot, DeleteSnapshot
<1>5. \A f, nextId : Store!DiscardUnreadable(f, nextId) = DiscardUnreadable(f, nextId)
  BY <1>1 DEF Store!DiscardUnreadable, DiscardUnreadable
<1>6. \A f, ids : Store!SetThumbnails(f, ids) = SetThumbnails(f, ids)
  BY SameWords DEF Store!SetThumbnails, SetThumbnails
<1>7. \A f, changes : Store!WriteMarks(f, changes) = WriteMarks(f, changes)
  BY DEF Store!WriteMarks, WriteMarks, Store!WithMarks, WithMarks
<1>8. \A f, recipe, changes :
         Store!WriteActive(f, recipe, changes) = WriteActive(f, recipe, changes)
  BY <1>7 DEF Store!WriteActive, WriteActive
<1>9. \A f, recipe, base, changes :
         Store!WriteActiveAndBase(f, recipe, base, changes) =
             WriteActiveAndBase(f, recipe, base, changes)
  BY <1>8 DEF Store!WriteActiveAndBase, WriteActiveAndBase
<1> QED  BY <1>2, <1>3, <1>4, <1>5, <1>6, <1>7, <1>8, <1>9

(* Every step is a write of the store, or leaves the file as it is. *)
LEMMA SessionStepIsStoreStep == Inv /\ [Next]_vars => [Store!Next]_(Store!vars)
<1> SUFFICES ASSUME Inv, [Next]_vars, file' # file
             PROVE  Store!Next
  BY DEF Store!vars
<1>0. /\ file \in Contents /\ session \in Sessions
      /\ session.marks \in MarkChanges /\ << >> \in MarkChanges
      /\ Settling(session) \in Recipe
      /\ session.now.base \in MaybeId /\ session.now.recipe \in Recipe
  BY FileParts, SessionParts, SettlingType, ChangedMarksType, NoMarksType
<1>1. CASE SaveLands
  <2>1. CASE WritesBase
    BY <1>0, <1>1, <2>1, SameWords, SameWrites
       DEF SaveLands, Store!Next, Store!SaveActiveAndBase
  <2>2. CASE ~WritesBase
    BY <1>0, <1>1, <2>2, SameWords, SameWrites
       DEF SaveLands, Store!Next, Store!SaveActive
  <2> QED  BY <2>1, <2>2
<1>2. CASE SetMarks
  BY <1>0, <1>2, SessionParts, ChangedMarksType, SameWords, SameWrites
     DEF SetMarks, Store!Next, Store!SaveMarks
<1>3. CASE CreateSnapshot
  <2>1. PICK name \in Names :
           LET draft == DraftOf(session, Settling(session), name)
           IN  MayEdit /\ CanAdd(file, draft) /\ file' = AddSnapshot(file, draft)
    BY <1>3 DEF CreateSnapshot
  <2>2. DraftOf(session, Settling(session), name) \in Snapshot
    BY <1>0 DEF DraftOf, Snapshot
  <2> QED  BY <2>1, <2>2, SameWords, SameWrites DEF Store!Next, Store!Add, Store!MayEdit, MayEdit
<1>4. CASE RenameSnapshotById
  BY <1>4, SameWords, SameWrites DEF RenameSnapshotById, Store!Next, Store!Rename, Store!MayEdit, MayEdit
<1>5. CASE DeleteSnapshotById
  BY <1>5, SameWords, SameWrites DEF DeleteSnapshotById, Store!Next, Store!Delete, Store!MayEdit, MayEdit
<1>6. CASE DiscardUnreadableEntries
  BY <1>6, SameWords, SameWrites DEF DiscardUnreadableEntries, Store!Next, Store!Discard, Store!MayEdit, MayEdit
<1>7. CASE ApplyThumbnail
  BY <1>7, SameWords, SameWrites DEF ApplyThumbnail, Store!Next, Store!StoreThumbnails
<1>8. CASE Others
  BY <1>0, <1>8, SameWords, SameWrites DEF Others, OthersAdd, OthersRename, OthersDelete, OthersDiscard,
     OthersStoreThumbnails, OthersSaveMarks, OthersSave, Foreign, MayEdit,
     Store!Next, Store!Add, Store!Rename, Store!Delete, Store!Discard,
     Store!StoreThumbnails, Store!SaveMarks, Store!SaveActiveAndBase, Store!MayEdit
<1>9. Edits \/ SaveReadsAgain \/ Conflicts \/ ReadsAgain \/ UNCHANGED vars => file' = file
  BY DEF Edits, Begin, Update, Commit, Cancel, SetState, SetBoth, GoTo, Undo, Redo,
         RestoreSnapshot, DiscardChanges, RefreshSnapshots, Local,
         SaveReadsAgain, Conflicts, ReadsAgain, vars
<1> QED  BY <1>1, <1>2, <1>3, <1>4, <1>5, <1>6, <1>7, <1>8, <1>9
         DEF Next, Writes, Save, SaveAgain

(* Seen through the file alone, a session with its rivals is the snapshot store       *)
(* (EditSession implements SnapshotStore): each call makes at most one of its writes. *)
THEOREM SessionKeepsTheStore == Spec => Store!Spec
<1>1. Init => Store!Init
  BY DEF Init, Store!Init
<1> QED  BY <1>1, SessionStepIsStoreStep, Invariance, PTL DEF Spec, Store!Spec

-----------------------------------------------------------------------------
(***************************************************************************)
(* The modes of a window (EditingModes).                                   *)
(***************************************************************************)

(* A look and its snapshot, in the modes; and a session over one of their photographs. *)
LookPoint == [recipe : LookRecipe, base : MaybeId]

ModeSessions ==
    [now        : LookPoint,
     baseline   : LookPoint \cup {NoEdit},
     history    : Seq(LookPoint),
     position   : Nat,
     saved      : LookRecipe,
     savedBase  : MaybeId,
     baseKnown  : BOOLEAN,
     marks      : {contents.marks : contents \in Photographs},
     held       : {contents.snapshots : contents \in Photographs},
     unreadable : {contents.unreadable : contents \in Photographs}]

Kept(s) ==
    /\ s \in ModeSessions
    /\ s.position \in 1 .. Len(s.history)
    /\ Modes!StepIsCurrent(s)

Windows ==
    [session : ModeSessions, decoded : BOOLEAN, preview : BOOLEAN, crop : Crops \cup {None},
     masking : BOOLEAN, gesture : {"none", "shape", "stroke"}, picking : BOOLEAN,
     panel : Panels \cup {None}]

(* The geometry that the steps of the crop mode lead back to. *)
FirstOf(crop) ==
    IF crop.undo # <<>> THEN crop.undo[1]
    ELSE IF crop.depth > 0 THEN crop.stepStart ELSE crop.geometry

(* The crop mode has the photograph's edit, and the session and the overlay agree. *)
CropFollows(w) ==
    /\ Modes!editing(w.session)
    /\ Modes!GeometryOf(w.session.now.recipe.state) = w.crop.geometry
    /\ Modes!GeometryOf(w.session.baseline.recipe.state) = FirstOf(w.crop)
    /\ w.crop.depth > 0 => w.crop.stepStart \in Modes!Geometries

(* At most one mode is on. *)
OneMode(w) ==
    /\ w.crop # None => ~w.masking /\ ~w.picking /\ ~w.preview
    /\ w.masking => ~w.picking /\ ~w.preview
    /\ w.picking => ~w.preview

Sane(w) ==
    /\ w \in Windows
    /\ Kept(w.session)
    /\ OneMode(w)
    /\ w.crop # None => CropFollows(w)
    /\ w.gesture # "none" => w.masking
    /\ w.panel # None /\ w.panel.row = "straighten" => w.panel.start \in MCLooks

(* The open edit has an owner, and a preview has none under it. *)
Owned(w) ==
    /\ Modes!editing(w.session) => w.crop # None \/ w.panel # None \/ w.gesture # "none"
    /\ w.preview => ~Modes!editing(w.session)

(* The steps that are open in the crop mode are those of a drag and of a slider.  A slider *)
(* that waits has opened its own; one that is held may have lost it to an undo, or have    *)
(* been held before the mode was entered.                                                  *)
Balanced(w) ==
    w.crop # None =>
        /\ w.panel = None => w.crop.depth = IF w.crop.drag THEN 1 ELSE 0
        /\ Modes!Held(w) => ~w.crop.drag /\ w.crop.depth \in {0, 1}
        /\ Modes!Pending(w) => w.crop.depth = IF w.crop.drag THEN 2 ELSE 1

-----------------------------------------------------------------------------
(* Sessions of the modes. *)

(* The parts of one. *)
LEMMA ModeParts ==
    ASSUME NEW s \in ModeSessions
    PROVE  /\ s.now \in LookPoint
           /\ s.now.recipe \in LookRecipe
           /\ s.now.recipe.state \in MCLooks
           /\ s.now.base \in MaybeId
           /\ s.now = [recipe |-> s.now.recipe, base |-> s.now.base]
           /\ Modes!editing(s) => /\ s.baseline \in LookPoint
                                  /\ s.baseline.recipe \in LookRecipe
           /\ ~Modes!editing(s) => s.baseline = NoEdit
           /\ s.history \in Seq(LookPoint)
           /\ Len(s.history) \in Nat
           /\ s.position \in Nat
           /\ s.saved \in LookRecipe
           /\ s.savedBase \in MaybeId
<1>1. s.history \in Seq(LookPoint)
  BY DEF ModeSessions
<1>2. Len(s.history) \in Nat
  BY <1>1, LenProperties
<1>3. /\ s.now \in LookPoint
      /\ Modes!editing(s) => s.baseline \in LookPoint
      /\ ~Modes!editing(s) => s.baseline = NoEdit
      /\ s.position \in Nat
      /\ s.saved \in LookRecipe
      /\ s.savedBase \in MaybeId
  BY DEF ModeSessions, Modes!editing
<1>4. \A point \in LookPoint :
         /\ point.recipe \in LookRecipe
         /\ point.recipe.state \in MCLooks
         /\ point.base \in MaybeId
         /\ point = [recipe |-> point.recipe, base |-> point.base]
  BY DEF LookPoint, LookRecipe
<1> QED  BY <1>1, <1>2, <1>3, <1>4

(* Recording the lens match leaves the state of a look. *)
LEMMA LensKeepsState ==
    ASSUME NEW before, NEW after \in LookRecipe
    PROVE  /\ Modes!withLensRecorded(before, after) \in LookRecipe
           /\ Modes!withLensRecorded(before, after).state = after.state
BY ModesAssumption DEF Modes!withLensRecorded, Modes!RecordLensMatch, LookRecipe

(* The look a commit leaves is the working one, with a lens matched into it. *)
LEMMA SettlingLook ==
    ASSUME NEW s \in ModeSessions
    PROVE  Modes!Settling(s) \in LookRecipe /\ Modes!Settling(s).state = s.now.recipe.state
BY ModeParts, LensKeepsState DEF Modes!Settling

(* Appending makes the working look the current and the last step. *)
LEMMA AppendKept ==
    ASSUME NEW s \in ModeSessions, s.position \in 1 .. Len(s.history), ~Modes!editing(s)
    PROVE  LET after == Modes!appendStep(s)
           IN  Kept(after) /\ ~Modes!editing(after) /\ after.now = s.now /\ after.held = s.held
<1> DEFINE kept == SubSeq(s.history, 1, s.position)
           steps == Append(kept, s.now)
           after == Modes!appendStep(s)
<1>1. /\ s.now \in LookPoint /\ s.history \in Seq(LookPoint)
      /\ s.position \in Nat /\ Len(s.history) \in Nat /\ s.position >= 1
      /\ s.baseline = NoEdit
  <2>1. /\ s.now \in LookPoint /\ s.history \in Seq(LookPoint)
        /\ s.position \in Nat /\ Len(s.history) \in Nat
        /\ s.baseline = NoEdit
    BY ModeParts
  <2> QED  BY <2>1
<1>2. \A i \in 1 .. s.position : s.history[i] \in LookPoint
  BY <1>1, ElementOfSeq
<1>3. kept \in Seq(LookPoint) /\ Len(kept) = s.position
  <2>1. /\ kept \in Seq(LookPoint)
        /\ Len(kept) = IF 1 <= s.position THEN s.position - 1 + 1 ELSE 0
    BY <1>1, <1>2, SubSeqProperties
  <2> QED  BY <2>1, <1>1
<1> HIDE DEF kept
<1>4. /\ steps \in Seq(LookPoint)
      /\ Len(steps) = s.position + 1
      /\ steps[s.position + 1] = s.now
  BY <1>1, <1>3, AppendProperties
<1> HIDE DEF steps
<1>5. after = [s EXCEPT !.history = steps, !.position = s.position + 1]
  BY DEF Modes!appendStep, steps, kept
<1>6. /\ after \in ModeSessions
      /\ after.history = steps
      /\ after.position = s.position + 1
      /\ after.now = s.now /\ after.held = s.held
      /\ after.baseline = NoEdit
  <2>1. s.position + 1 \in Nat
    BY <1>1
  <2> QED  BY <2>1, <1>1, <1>4, <1>5 DEF ModeSessions
<1> HIDE DEF after
<1>7. ~Modes!editing(after)
  BY <1>6 DEF Modes!editing
<1>8. Modes!StepIsCurrent(after) /\ after.position \in 1 .. Len(after.history)
  BY <1>1, <1>4, <1>6, <1>7 DEF Modes!StepIsCurrent
<1> QED  BY <1>6, <1>7, <1>8 DEF Kept, after

(* Ending the edit, with the look that the commit leaves. *)
LEMMA CommitKept ==
    ASSUME NEW s, Kept(s), Modes!editing(s)
    PROVE  LET after == Modes!commit(s)
           IN  /\ Kept(after) /\ ~Modes!editing(after)
               /\ after.now.recipe.state = s.now.recipe.state
               /\ after.held = s.held
<1> DEFINE next == Modes!Settling(s)
           now == [s.now EXCEPT !.recipe = next]
           ended == [s EXCEPT !.now = now, !.baseline = NoEdit]
<1>1. /\ s \in ModeSessions /\ s.now \in LookPoint /\ s.position \in 1 .. Len(s.history)
      /\ s.history[s.position] = s.baseline
  BY ModeParts DEF Kept, Modes!StepIsCurrent
<1>2. next \in LookRecipe /\ next.state = s.now.recipe.state
  BY <1>1, SettlingLook
<1> HIDE DEF next
<1>3. now \in LookPoint /\ now.recipe = next
  BY <1>1, <1>2 DEF LookPoint
<1> HIDE DEF now
<1>4. /\ ended \in ModeSessions
      /\ ended.now = now /\ ended.baseline = NoEdit
      /\ ended.history = s.history /\ ended.position = s.position /\ ended.held = s.held
  BY <1>1, <1>3 DEF ModeSessions
<1>5. Modes!commit(s) = IF s.baseline = ended.now THEN ended ELSE Modes!appendStep(ended)
  BY DEF Modes!commit, Modes!commitPhoto, next, now
<1> HIDE DEF ended
<1>6. ~Modes!editing(ended)
  BY <1>4 DEF Modes!editing
<1>7. CASE s.baseline = ended.now
  BY <1>1, <1>2, <1>3, <1>4, <1>5, <1>6, <1>7 DEF Kept, Modes!StepIsCurrent
<1>8. CASE s.baseline # ended.now
  BY <1>1, <1>2, <1>3, <1>4, <1>5, <1>6, <1>8, AppendKept
<1> QED  BY <1>7, <1>8

(* Ending whatever edit is open leaves the state as it was. *)
LEMMA SettledKept ==
    ASSUME NEW s, Kept(s)
    PROVE  LET after == Modes!Settled(s)
           IN  /\ Kept(after) /\ ~Modes!editing(after)
               /\ after.now.recipe.state = s.now.recipe.state
BY CommitKept DEF Modes!Settled

(* An edit begins at the look it finds. *)
LEMMA BeginKept ==
    ASSUME NEW s, Kept(s)
    PROVE  LET after == Modes!begin(s)
           IN  /\ Kept(after) /\ Modes!editing(after)
               /\ after.baseline = after.now
               /\ after.now.recipe.state = s.now.recipe.state
<1> DEFINE settled == Modes!Settled(s)
           after == [settled EXCEPT !.baseline = settled.now]
<1>1. /\ Kept(settled) /\ ~Modes!editing(settled)
      /\ settled.now.recipe.state = s.now.recipe.state
  BY SettledKept
<1>2. Modes!begin(s) = after
  BY DEF Modes!begin
<1> HIDE DEF settled
<1>3. settled \in ModeSessions /\ settled.now \in LookPoint
  BY <1>1, ModeParts DEF Kept
<1>4. /\ after \in ModeSessions
      /\ after.baseline = settled.now /\ after.now = settled.now
      /\ after.history = settled.history /\ after.position = settled.position
  BY <1>3 DEF ModeSessions
<1> HIDE DEF after
<1>5. Modes!editing(after)
  BY <1>3, <1>4, ModesAssumption DEF Modes!editing, LookPoint
<1> QED  BY <1>1, <1>2, <1>4, <1>5 DEF Kept, Modes!StepIsCurrent

(* An update is inside the open edit: its baseline stays. *)
LEMMA UpdateKept ==
    ASSUME NEW s, Kept(s), Modes!editing(s), NEW recipe \in LookRecipe
    PROVE  LET after == Modes!update(s, recipe)
           IN  /\ Kept(after) /\ Modes!editing(after)
               /\ after.baseline = s.baseline
               /\ after.now.recipe = recipe
<1> DEFINE now == [s.now EXCEPT !.recipe = recipe]
           after == [s EXCEPT !.now = now]
<1>1. s \in ModeSessions /\ s.now \in LookPoint
  BY ModeParts DEF Kept
<1>2. now \in LookPoint /\ now.recipe = recipe
  BY <1>1 DEF LookPoint
<1> HIDE DEF now
<1>3. /\ after \in ModeSessions
      /\ after.now = now /\ after.baseline = s.baseline
      /\ after.history = s.history /\ after.position = s.position
  BY <1>1, <1>2 DEF ModeSessions
<1>4. Modes!update(s, recipe) = after
  BY DEF Modes!update, now
<1> HIDE DEF after
<1>5. Modes!editing(after)
  BY <1>3 DEF Modes!editing
<1> QED  BY <1>2, <1>3, <1>4, <1>5 DEF Kept, Modes!StepIsCurrent

(* A cancel goes back to the baseline and closes the edit. *)
LEMMA CancelKept ==
    ASSUME NEW s, Kept(s), Modes!editing(s)
    PROVE  Kept(Modes!cancel(s)) /\ ~Modes!editing(Modes!cancel(s))
<1> DEFINE after == [s EXCEPT !.now = s.baseline, !.baseline = NoEdit]
<1>1. s \in ModeSessions /\ s.baseline \in LookPoint
  BY ModeParts DEF Kept
<1>2. /\ after \in ModeSessions
      /\ after.now = s.baseline /\ after.baseline = NoEdit
      /\ after.history = s.history /\ after.position = s.position
  BY <1>1 DEF ModeSessions
<1>3. Modes!cancel(s) = after
  BY DEF Modes!cancel
<1> HIDE DEF after
<1>4. ~Modes!editing(after)
  BY <1>2 DEF Modes!editing
<1> QED  BY <1>1, <1>2, <1>3, <1>4 DEF Kept, Modes!StepIsCurrent

(* A change that is an edit of its own leaves none open. *)
LEMMA SetStateKept ==
    ASSUME NEW s, Kept(s), NEW look \in MCLooks
    PROVE  Kept(Modes!setState(s, look)) /\ ~Modes!editing(Modes!setState(s, look))
<1> DEFINE begun == Modes!begin(s)
           recipe == [s.now.recipe EXCEPT !.state = look]
           updated == Modes!update(begun, recipe)
<1>1. Kept(begun) /\ Modes!editing(begun)
  BY BeginKept
<1>2. recipe \in LookRecipe
  BY ModeParts DEF Kept, LookRecipe
<1>3. Modes!setState(s, look) = Modes!commit(updated)
  BY DEF Modes!setState
<1> HIDE DEF begun, recipe
<1>4. Kept(updated) /\ Modes!editing(updated)
  BY <1>1, <1>2, UpdateKept
<1> HIDE DEF updated
<1> QED  BY <1>3, <1>4, CommitKept

(* Going to another point, as a step that is there or a new one. *)
LEMMA GoToKept ==
    ASSUME NEW s, Kept(s), NEW index
    PROVE  Kept(Modes!goTo(s, index)) /\ ~Modes!editing(Modes!goTo(s, index))
<1> DEFINE settled == Modes!Settled(s)
           after == [settled EXCEPT !.now = settled.history[index], !.position = index]
<1>1. Kept(settled) /\ ~Modes!editing(settled)
  BY SettledKept
<1>2. Modes!goTo(s, index) = IF index \in 1 .. Len(settled.history) THEN after ELSE settled
  BY DEF Modes!goTo
<1> HIDE DEF settled
<1>3. CASE index \in 1 .. Len(settled.history)
  <2>1. /\ settled \in ModeSessions /\ settled.history \in Seq(LookPoint)
        /\ settled.baseline = NoEdit /\ Len(settled.history) \in Nat
    BY <1>1, ModeParts DEF Kept
  <2>2. settled.history[index] \in LookPoint /\ index \in Nat
    BY <1>3, <2>1, ElementOfSeq
  <2>3. /\ after \in ModeSessions
        /\ after.now = settled.history[index] /\ after.baseline = NoEdit
        /\ after.history = settled.history /\ after.position = index
    BY <2>1, <2>2 DEF ModeSessions
  <2> HIDE DEF after
  <2>4. ~Modes!editing(after)
    BY <2>3 DEF Modes!editing
  <2> QED  BY <1>2, <1>3, <2>3, <2>4 DEF Kept, Modes!StepIsCurrent
<1> QED  BY <1>1, <1>2, <1>3

(* Restoring a snapshot ends the open edit before it goes there. *)
LEMMA RestoreKept ==
    ASSUME NEW s, Kept(s), NEW id \in MaybeId, NEW snapshot, snapshot.recipe \in LookRecipe
    PROVE  LET after == Modes!restoreSnapshot(s, id, snapshot)
           IN  Kept(after) /\ ~Modes!editing(after)
<1> DEFINE settled == Modes!Settled(s)
           target == [recipe |-> snapshot.recipe, base |-> id]
           moved == [settled EXCEPT !.now = target]
<1>1. Kept(settled) /\ ~Modes!editing(settled)
  BY SettledKept
<1>2. Modes!restoreSnapshot(s, id, snapshot) =
         IF settled.now = target THEN settled ELSE Modes!appendStep(moved)
  BY DEF Modes!restoreSnapshot
<1>3. target \in LookPoint
  BY DEF LookPoint
<1> HIDE DEF settled, target
<1>4. /\ moved \in ModeSessions /\ moved.position = settled.position
      /\ moved.history = settled.history /\ moved.baseline = settled.baseline
  BY <1>1, <1>3 DEF Kept, ModeSessions
<1> HIDE DEF moved
<1>5. ~Modes!editing(moved) /\ moved.position \in 1 .. Len(moved.history)
  BY <1>1, <1>4 DEF Kept, Modes!editing
<1>6. Kept(Modes!appendStep(moved)) /\ ~Modes!editing(Modes!appendStep(moved))
  BY <1>4, <1>5, AppendKept
<1> QED  BY <1>1, <1>2, <1>6

(* So does saving. *)
LEMMA SavedKept ==
    ASSUME NEW s, Kept(s)
    PROVE  Kept(Modes!Saved(s, TRUE)) /\ ~Modes!editing(Modes!Saved(s, TRUE))
<1> DEFINE settled == Modes!Settled(s)
           look == Modes!Settling(s)
           known == TRUE
           after == [settled EXCEPT !.saved = look, !.baseKnown = known, !.savedBase = s.now.base]
<1>1. Kept(settled) /\ ~Modes!editing(settled)
  BY SettledKept
<1>2. look \in LookRecipe /\ s.now.base \in MaybeId /\ known \in BOOLEAN
  BY SettlingLook, ModeParts DEF Kept
<1>3. Modes!Saved(s, TRUE) = after
  BY DEF Modes!Saved
<1> HIDE DEF settled, look, known
<1>4. /\ after \in ModeSessions
      /\ after.now = settled.now /\ after.baseline = settled.baseline
      /\ after.history = settled.history /\ after.position = settled.position
  BY <1>1, <1>2 DEF Kept, ModeSessions
<1> HIDE DEF after
<1> QED  BY <1>1, <1>3, <1>4 DEF Kept, Modes!StepIsCurrent, Modes!editing

(* A session just opened has no edit, and its history has one step. *)
LEMMA OpenedKept ==
    ASSUME NEW contents \in Photographs
    PROVE  Kept(Modes!OpenedOn(contents)) /\ ~Modes!editing(Modes!OpenedOn(contents))
<1> DEFINE point == [recipe |-> contents.recipe, base |-> contents.savedBase]
           known == TRUE
           bare == [now        |-> point,
                    baseline   |-> NoEdit,
                    history    |-> << >>,
                    position   |-> 1,
                    saved      |-> contents.recipe,
                    savedBase  |-> contents.savedBase,
                    baseKnown  |-> known,
                    marks      |-> contents.marks,
                    held       |-> contents.snapshots,
                    unreadable |-> contents.unreadable]
           after == [bare EXCEPT !.now = point, !.baseline = NoEdit,
                                 !.history = <<point>>, !.position = 1]
<1>1. contents.recipe \in LookRecipe /\ contents.savedBase \in MaybeId /\ known \in BOOLEAN
  BY ModesAssumption
<1>2. Modes!OpenedOn(contents) = Modes!FromStart(bare)
  BY Zenon DEF Modes!OpenedOn, Modes!OpenedWith
<1> HIDE DEF known
<1>3. point \in LookPoint
  BY <1>1 DEF LookPoint
<1>4. bare.saved = contents.recipe /\ bare.savedBase = contents.savedBase
  OBVIOUS
<1>5. bare \in ModeSessions
  <2>1. << >> \in Seq(LookPoint) /\ 1 \in Nat
    OBVIOUS
  <2> QED  BY <2>1, <1>1, <1>3 DEF ModeSessions
<1> HIDE DEF bare
<1>6. Modes!FromStart(bare) = after
  BY <1>4, Zenon DEF Modes!FromStart
<1> HIDE DEF point
<1>7. <<point>> \in Seq(LookPoint) /\ Len(<<point>>) = 1 /\ <<point>>[1] = point
  BY <1>3
<1>8. /\ after \in ModeSessions /\ after.now = point /\ after.baseline = NoEdit
      /\ after.history = <<point>> /\ after.position = 1
  BY <1>3, <1>5, <1>7 DEF ModeSessions
<1> HIDE DEF after
<1>9. ~Modes!editing(after)
  BY <1>8 DEF Modes!editing
<1> QED  BY <1>2, <1>6, <1>7, <1>8, <1>9 DEF Kept, Modes!StepIsCurrent

-----------------------------------------------------------------------------
(* The steps of the crop mode. *)
CropOK(crop) == crop \in Crops /\ (crop.depth > 0 => crop.stepStart \in Modes!Geometries)

(* What is in the state of the crop mode, field by field. *)
LEMMA CropParts ==
    ASSUME NEW crop \in Crops
    PROVE  /\ crop.geometry \in Modes!Geometries
           /\ crop.depth \in Nat
           /\ crop.undo \in Seq(Modes!Geometries) /\ Len(crop.undo) \in Nat
           /\ crop.redo \in Seq(Modes!Geometries) /\ Len(crop.redo) \in Nat
           /\ crop.drag \in BOOLEAN
           /\ crop.undo # <<>> => Len(crop.undo) >= 1 /\ crop.undo[1] \in Modes!Geometries
           /\ crop.redo # <<>> => Len(crop.redo) >= 1
<1>1. /\ crop.geometry \in Modes!Geometries /\ crop.depth \in Nat /\ crop.drag \in BOOLEAN
      /\ crop.undo \in Seq(Modes!Geometries) /\ crop.redo \in Seq(Modes!Geometries)
  BY DEF Crops, Modes!Geometries
<1>2. \A steps \in Seq(Modes!Geometries) :
         /\ Len(steps) \in Nat
         /\ steps # <<>> => Len(steps) >= 1
  <2> TAKE steps \in Seq(Modes!Geometries)
  <2>1. Len(steps) \in Nat
    BY LenProperties
  <2>2. Len(steps) = 0 => steps = <<>>
    BY EmptySeq
  <2> QED  BY <2>1, <2>2
<1>3. crop.undo # <<>> => crop.undo[1] \in Modes!Geometries
  BY <1>1, <1>2, ElementOfSeq
<1> QED  BY <1>1, <1>2, <1>3

(* A step that begins keeps the geometry as what undo will come back to. *)
LEMMA BeginStep ==
    ASSUME NEW crop, CropOK(crop)
    PROVE  LET after == Modes!beginStep(crop)
           IN  /\ CropOK(after)
               /\ after.depth = crop.depth + 1
               /\ after.geometry = crop.geometry /\ after.drag = crop.drag
               /\ FirstOf(after) = FirstOf(crop)
<1> DEFINE start == IF crop.depth = 0 THEN crop.geometry ELSE crop.stepStart
           after == [crop EXCEPT !.depth = crop.depth + 1, !.stepStart = start]
<1>1. crop \in Crops /\ crop.geometry \in Modes!Geometries /\ crop.depth \in Nat
  BY CropParts DEF CropOK
<1>2. start \in Modes!Geometries
  BY <1>1 DEF CropOK
<1>3. Modes!beginStep(crop) = after
  BY DEF Modes!beginStep
<1>4. crop.depth = 0 => start = crop.geometry
  OBVIOUS
<1>5. crop.depth > 0 => start = crop.stepStart
  BY <1>1
<1> HIDE DEF start
<1>6. /\ after \in Crops /\ after.depth = crop.depth + 1 /\ after.stepStart = start
      /\ after.geometry = crop.geometry /\ after.drag = crop.drag /\ after.undo = crop.undo
  <2>1. crop.depth + 1 \in Nat
    BY <1>1
  <2> QED  BY <1>1, <1>2, <2>1 DEF Crops, Modes!Geometries
<1> HIDE DEF after
<1> QED  BY <1>1, <1>2, <1>3, <1>4, <1>5, <1>6 DEF CropOK, FirstOf

(* A geometry set inside a step leaves what the steps lead back to. *)
LEMMA GeometryInStep ==
    ASSUME NEW crop, CropOK(crop), crop.depth > 0, NEW geometry \in Modes!Geometries
    PROVE  LET after == [crop EXCEPT !.geometry = geometry]
           IN  /\ CropOK(after)
               /\ after.depth = crop.depth
               /\ after.geometry = geometry /\ after.drag = crop.drag
               /\ FirstOf(after) = FirstOf(crop)
<1> DEFINE after == [crop EXCEPT !.geometry = geometry]
<1>1. /\ after \in Crops /\ after.depth = crop.depth /\ after.stepStart = crop.stepStart
      /\ after.geometry = geometry /\ after.drag = crop.drag /\ after.undo = crop.undo
  BY DEF CropOK, Crops, Modes!Geometries
<1> HIDE DEF after
<1>2. CropOK(after) /\ FirstOf(after) = FirstOf(crop)
  BY <1>1 DEF CropOK, FirstOf
<1> QED  BY <1>1, <1>2 DEF after

(* A step that ends with what it began with is not kept, nor one within another. *)
LEMMA EndStep ==
    ASSUME NEW crop, CropOK(crop)
    PROVE  LET after == Modes!endStep(crop)
           IN  /\ CropOK(after)
               /\ after.depth = IF crop.depth = 0 THEN 0 ELSE crop.depth - 1
               /\ after.geometry = crop.geometry /\ after.drag = crop.drag
               /\ FirstOf(after) = FirstOf(crop)
<1>1. /\ crop \in Crops /\ crop.geometry \in Modes!Geometries /\ crop.depth \in Nat
      /\ crop.undo \in Seq(Modes!Geometries)
  BY CropParts DEF CropOK
<1>2. CASE crop.depth # 1
  <2> DEFINE less == IF crop.depth = 0 THEN 0 ELSE crop.depth - 1
             after == [crop EXCEPT !.depth = less]
  <2>1. Modes!endStep(crop) = after
    BY <1>2 DEF Modes!endStep
  <2>2. less \in Nat /\ (less > 0 <=> crop.depth > 0)
    BY <1>1, <1>2
  <2>5. less = IF crop.depth = 0 THEN 0 ELSE crop.depth - 1
    OBVIOUS
  <2> HIDE DEF less
  <2>3. /\ after \in Crops /\ after.depth = less /\ after.stepStart = crop.stepStart
        /\ after.geometry = crop.geometry /\ after.drag = crop.drag /\ after.undo = crop.undo
    BY <1>1, <2>2 DEF Crops
  <2> HIDE DEF after
  <2>4. CropOK(after) /\ FirstOf(after) = FirstOf(crop)
    BY <2>2, <2>3 DEF CropOK, FirstOf
  <2> QED  BY <2>1, <2>3, <2>4, <2>5
<1>3. CASE crop.depth = 1
  <2> DEFINE closed == [crop EXCEPT !.depth = 0, !.stepStart = None]
             steps == Append(crop.undo, crop.stepStart)
             kept == [closed EXCEPT !.undo = steps, !.redo = <<>>]
  <2>1. Modes!endStep(crop) = IF crop.geometry = crop.stepStart THEN closed ELSE kept
    <3>1. /\ closed.undo = crop.undo
      BY <1>1 DEF Crops
    <3> QED  BY <1>3, <3>1 DEF Modes!endStep
  <2>2. crop.stepStart \in Modes!Geometries
    BY <1>3 DEF CropOK
  <2>3. /\ closed \in Crops /\ closed.depth = 0 /\ closed.undo = crop.undo
        /\ closed.geometry = crop.geometry /\ closed.drag = crop.drag
    BY <1>1 DEF Crops
  <2> HIDE DEF closed
  <2>4. CropOK(closed)
    BY <2>3 DEF CropOK
  <2>5. CASE crop.geometry = crop.stepStart
    <3>1. FirstOf(closed) = FirstOf(crop)
      BY <1>3, <2>3, <2>5 DEF FirstOf
    <3> QED  BY <1>3, <2>1, <2>3, <2>4, <2>5, <3>1
  <2>6. CASE crop.geometry # crop.stepStart
    <3>1. /\ steps \in Seq(Modes!Geometries)
          /\ Len(steps) = Len(crop.undo) + 1
          /\ \A i \in 1 .. Len(crop.undo) : steps[i] = crop.undo[i]
          /\ steps[Len(crop.undo) + 1] = crop.stepStart
      BY <1>1, <2>2, AppendProperties
    <3>2. steps # <<>>
      BY <1>1, <3>1, LenProperties
    <3>3. steps[1] = IF crop.undo # <<>> THEN crop.undo[1] ELSE crop.stepStart
      <4>1. CASE crop.undo # <<>>
        <5>1. Len(crop.undo) >= 1 /\ Len(crop.undo) \in Nat
          BY <1>1, <4>1, CropParts
        <5> QED  BY <3>1, <4>1, <5>1
      <4>2. CASE crop.undo = <<>>
        <5>1. Len(crop.undo) = 0
          BY <4>2
        <5> QED  BY <3>1, <4>2, <5>1
      <4> QED  BY <4>1, <4>2
    <3> HIDE DEF steps
    <3>4. /\ kept \in Crops /\ kept.depth = 0 /\ kept.undo = steps
          /\ kept.geometry = crop.geometry /\ kept.drag = crop.drag
      <4>1. << >> \in Seq(Modes!Geometries)
        OBVIOUS
      <4> QED  BY <2>3, <3>1, <4>1 DEF Crops, Modes!Geometries
    <3> HIDE DEF kept
    <3>5. CropOK(kept) /\ FirstOf(kept) = FirstOf(crop)
      BY <1>3, <3>2, <3>3, <3>4 DEF CropOK, FirstOf
    <3> QED  BY <1>3, <2>1, <2>6, <3>4, <3>5
  <2> QED  BY <2>5, <2>6
<1> QED  BY <1>2, <1>3

(* Undo closes the step that is open, and the last one leads to where the mode was entered. *)
LEMMA CropUndone ==
    ASSUME NEW crop, CropOK(crop)
    PROVE  LET after == Modes!cropUndo(crop)
           IN  /\ CropOK(after)
               /\ after.depth = 0
               /\ after.drag = crop.drag
               /\ FirstOf(after) = FirstOf(crop)
<1> DEFINE one == [crop EXCEPT !.depth = 1]
           closed == IF crop.depth > 0 THEN Modes!endStep(one) ELSE crop
           back == [closed EXCEPT !.redo = Append(closed.redo, closed.geometry),
                                  !.geometry = Modes!Last(closed.undo),
                                  !.undo = Modes!Front(closed.undo)]
<1>1. crop \in Crops /\ crop.depth \in Nat
  BY CropParts DEF CropOK
<1>2. Modes!cropUndo(crop) = IF closed.undo = <<>> THEN closed ELSE back
  BY DEF Modes!cropUndo
<1>3. CropOK(closed) /\ closed.depth = 0 /\ closed.drag = crop.drag /\ FirstOf(closed) = FirstOf(crop)
  <2>1. CASE crop.depth > 0
    <3>1. /\ one \in Crops /\ one.depth = 1 /\ one.stepStart = crop.stepStart
          /\ one.undo = crop.undo /\ one.geometry = crop.geometry /\ one.drag = crop.drag
      BY <1>1 DEF Crops
    <3> HIDE DEF one
    <3>2. CropOK(one) /\ FirstOf(one) = FirstOf(crop)
      BY <2>1, <3>1 DEF CropOK, FirstOf
    <3> QED  BY <2>1, <3>1, <3>2, EndStep
  <2>2. CASE ~(crop.depth > 0)
    BY <1>1, <2>2
  <2> QED  BY <2>1, <2>2
<1> HIDE DEF closed
<1>4. CASE closed.undo = <<>>
  BY <1>2, <1>3, <1>4
<1>5. CASE closed.undo # <<>>
  <2> DEFINE last == Modes!Last(closed.undo)
             front == Modes!Front(closed.undo)
             steps == Append(closed.redo, closed.geometry)
             n == Len(closed.undo)
  <2>1. /\ closed \in Crops /\ closed.geometry \in Modes!Geometries
        /\ closed.undo \in Seq(Modes!Geometries) /\ closed.redo \in Seq(Modes!Geometries)
        /\ n \in Nat /\ n >= 1
    BY <1>3, <1>5, CropParts DEF CropOK
  <2>2. \A i \in 1 .. n : closed.undo[i] \in Modes!Geometries
    BY <2>1, ElementOfSeq
  <2>3. last \in Modes!Geometries /\ last = closed.undo[n]
    BY <2>1, <2>2 DEF Modes!Last
  <2>4. /\ front \in Seq(Modes!Geometries)
        /\ Len(front) = n - 1
        /\ n > 1 => front[1] = closed.undo[1]
    <3>1. \A i \in 1 .. n - 1 : closed.undo[i] \in Modes!Geometries
      BY <2>1, <2>2
    <3>2. /\ front \in Seq(Modes!Geometries)
          /\ Len(front) = IF 1 <= n - 1 THEN (n - 1) - 1 + 1 ELSE 0
          /\ \A i \in 1 .. (n - 1) - 1 + 1 : front[i] = closed.undo[1 + i - 1]
      BY <2>1, <3>1, SubSeqProperties DEF Modes!Front
    <3> QED  BY <2>1, <3>2
  <2>5. steps \in Seq(Modes!Geometries)
    BY <2>1, AppendProperties
  <2>6. front # <<>> <=> n > 1
    <3>1. Len(front) = 0 => front = <<>>
      BY <2>4, EmptySeq
    <3>2. front = <<>> => Len(front) = 0
      OBVIOUS
    <3> QED  BY <2>1, <2>4, <3>1, <3>2
  <2>7. back = [closed EXCEPT !.redo = steps, !.geometry = last, !.undo = front]
    OBVIOUS
  <2> HIDE DEF last, front, steps
  <2>8. /\ back \in Crops /\ back.depth = closed.depth /\ back.drag = closed.drag
        /\ back.geometry = last /\ back.undo = front
    BY <2>1, <2>3, <2>4, <2>5, <2>7 DEF Crops, Modes!Geometries
  <2> HIDE DEF back
  <2>9. CropOK(back)
    BY <1>3, <2>8 DEF CropOK
  <2>10. FirstOf(back) = FirstOf(closed)
    <3>1. CASE n > 1
      BY <1>5, <2>4, <2>6, <2>8, <3>1 DEF FirstOf
    <3>2. CASE ~(n > 1)
      <4>1. n \in Nat /\ n >= 1
        BY <2>1
      <4> HIDE DEF n
      <4>2. n = 1
        BY <3>2, <4>1
      <4> USE DEF n
      <4> QED  BY <1>3, <1>5, <2>3, <2>6, <2>8, <4>2 DEF FirstOf
    <3> QED  BY <3>1, <3>2
  <2> QED  BY <1>2, <1>3, <1>5, <2>8, <2>9, <2>10
<1> QED  BY <1>4, <1>5

(* Redo goes forward among the steps of the stay. *)
LEMMA CropRedone ==
    ASSUME NEW crop, CropOK(crop)
    PROVE  LET after == Modes!cropRedo(crop)
           IN  /\ CropOK(after)
               /\ after.depth = crop.depth
               /\ after.drag = crop.drag
               /\ FirstOf(after) = FirstOf(crop)
<1>1. CASE ~Modes!cropCanRedo(crop)
  BY <1>1 DEF Modes!cropRedo
<1>2. CASE Modes!cropCanRedo(crop)
  <2> DEFINE last == Modes!Last(crop.redo)
             front == Modes!Front(crop.redo)
             steps == Append(crop.undo, crop.geometry)
             again == [crop EXCEPT !.undo = steps, !.geometry = last, !.redo = front]
             n == Len(crop.redo)
  <2>1. /\ crop \in Crops /\ crop.geometry \in Modes!Geometries /\ crop.depth = 0
        /\ crop.undo \in Seq(Modes!Geometries) /\ crop.redo \in Seq(Modes!Geometries)
        /\ n \in Nat /\ n >= 1
    BY <1>2, CropParts DEF CropOK, Modes!cropCanRedo
  <2>2. \A i \in 1 .. n : crop.redo[i] \in Modes!Geometries
    BY <2>1, ElementOfSeq
  <2>3. last \in Modes!Geometries
    BY <2>1, <2>2 DEF Modes!Last
  <2>4. front \in Seq(Modes!Geometries)
    <3>1. \A i \in 1 .. n - 1 : crop.redo[i] \in Modes!Geometries
      BY <2>1, <2>2
    <3> QED  BY <2>1, <3>1, SubSeqProperties DEF Modes!Front
  <2>5. /\ steps \in Seq(Modes!Geometries)
        /\ Len(steps) = Len(crop.undo) + 1
        /\ \A i \in 1 .. Len(crop.undo) : steps[i] = crop.undo[i]
        /\ steps[Len(crop.undo) + 1] = crop.geometry
    BY <2>1, AppendProperties
  <2>6. steps # <<>>
    BY <2>1, <2>5, LenProperties
  <2>7. steps[1] = FirstOf(crop)
    <3>1. CASE crop.undo # <<>>
      <4>1. Len(crop.undo) >= 1 /\ Len(crop.undo) \in Nat
        BY <2>1, <3>1, CropParts
      <4> QED  BY <2>5, <3>1, <4>1 DEF FirstOf
    <3>2. CASE crop.undo = <<>>
      <4>1. Len(crop.undo) = 0
        BY <3>2
      <4> QED  BY <2>1, <2>5, <3>2, <4>1 DEF FirstOf
    <3> QED  BY <3>1, <3>2
  <2>8. Modes!cropRedo(crop) = again
    BY <1>2 DEF Modes!cropRedo
  <2> HIDE DEF last, front, steps
  <2>9. /\ again \in Crops /\ again.depth = crop.depth /\ again.drag = crop.drag
        /\ again.undo = steps
    BY <2>1, <2>3, <2>4, <2>5 DEF Crops, Modes!Geometries
  <2> HIDE DEF again
  <2>10. CropOK(again) /\ FirstOf(again) = FirstOf(crop)
    BY <2>1, <2>6, <2>7, <2>9 DEF CropOK, FirstOf
  <2> QED  BY <2>8, <2>9, <2>10
<1> QED  BY <1>1, <1>2

(* The crop mode starts on the geometry it was entered with. *)
LEMMA CropBegun ==
    ASSUME NEW geometry \in Modes!Geometries
    PROVE  LET crop == Modes!CropOf(geometry)
           IN  /\ CropOK(crop) /\ crop.depth = 0 /\ crop.geometry = geometry
               /\ ~crop.drag /\ FirstOf(crop) = geometry
<1> DEFINE no == FALSE
           crop == [geometry |-> geometry, depth |-> 0, stepStart |-> None,
                    undo |-> <<>>, redo |-> <<>>, drag |-> no]
<1>1. Modes!CropOf(geometry) = crop
  BY Zenon DEF Modes!CropOf
<1>2. no \in BOOLEAN /\ ~no
  OBVIOUS
<1> HIDE DEF no
<1>3. << >> \in Seq(Modes!Geometries)
  OBVIOUS
<1>4. /\ crop \in Crops /\ crop.depth = 0 /\ crop.geometry = geometry
      /\ crop.drag = no /\ crop.undo = <<>>
  BY <1>2, <1>3 DEF Crops, Modes!Geometries
<1> HIDE DEF crop
<1> QED  BY <1>1, <1>2, <1>4 DEF CropOK, FirstOf

-----------------------------------------------------------------------------
(* The window's parts. *)
InForm(w) == Sane(w) /\ Owned(w) /\ Balanced(w)

(* What most handlers leave alone. *)
SameModes(w, after) ==
    /\ after.decoded = w.decoded
    /\ after.preview = w.preview
    /\ after.masking = w.masking
    /\ after.picking = w.picking

Rest(w, after) ==
    /\ SameModes(w, after)
    /\ after.gesture = w.gesture
    /\ after.panel = w.panel

(* A crop mode that goes on, with its drag and as many open steps. *)
SameSteps(w, after) ==
    /\ w.crop = None <=> after.crop = None
    /\ w.crop # None => after.crop.depth = w.crop.depth /\ after.crop.drag = w.crop.drag

(* What is in the state of a window, field by field. *)
LEMMA WindowParts ==
    ASSUME NEW w \in Windows
    PROVE  /\ w.session \in ModeSessions
           /\ w.decoded \in BOOLEAN /\ w.preview \in BOOLEAN
           /\ w.masking \in BOOLEAN /\ w.picking \in BOOLEAN
           /\ w.crop # None => w.crop \in Crops
           /\ w.panel # None => w.panel \in Panels
           /\ w.gesture \in {"none", "shape", "stroke"}
BY DEF Windows

(* A window that changes its session and nothing else. *)
LEMMA SetSession ==
    ASSUME NEW w \in Windows, NEW s \in ModeSessions
    PROVE  LET after == [w EXCEPT !.session = s]
           IN  /\ after \in Windows
               /\ after.session = s /\ after.crop = w.crop
               /\ Rest(w, after)
BY DEF Windows, Rest, SameModes

(* One that changes its crop mode. *)
LEMMA SetCrop ==
    ASSUME NEW w \in Windows, NEW crop \in Crops \cup {None}
    PROVE  LET after == [w EXCEPT !.crop = crop]
           IN  /\ after \in Windows
               /\ after.crop = crop /\ after.session = w.session
               /\ Rest(w, after)
BY DEF Windows, Rest, SameModes

(* One that changes its gesture on a mask. *)
LEMMA SetGesture ==
    ASSUME NEW w \in Windows, NEW gesture \in {"none", "shape", "stroke"}
    PROVE  LET after == [w EXCEPT !.gesture = gesture]
           IN  /\ after \in Windows
               /\ after.gesture = gesture /\ after.session = w.session
               /\ after.crop = w.crop /\ after.panel = w.panel
               /\ SameModes(w, after)
BY DEF Windows, SameModes

(* One that changes what the panel edits. *)
LEMMA SetPanel ==
    ASSUME NEW w \in Windows, NEW panel \in Panels \cup {None}
    PROVE  LET after == [w EXCEPT !.panel = panel]
           IN  /\ after \in Windows
               /\ after.panel = panel /\ after.session = w.session
               /\ after.crop = w.crop /\ after.gesture = w.gesture
               /\ SameModes(w, after)
BY DEF Windows, SameModes

(* A geometry put into a look is the one read from it. *)
LEMMA Geometry ==
    ASSUME NEW look \in MCLooks
    PROVE  /\ Modes!GeometryOf(look) \in Modes!Geometries
           /\ \A geometry \in Modes!Geometries :
                 /\ Modes!WithGeometry(look, geometry) \in MCLooks
                 /\ Modes!GeometryOf(Modes!WithGeometry(look, geometry)) = geometry
<1>1. Modes!GeometryOf(look) \in Modes!Geometries
  BY DEF Modes!GeometryOf, Modes!Geometries, MCLooks
<1>2. ASSUME NEW geometry \in Modes!Geometries
      PROVE  /\ Modes!WithGeometry(look, geometry) \in MCLooks
             /\ Modes!GeometryOf(Modes!WithGeometry(look, geometry)) = geometry
  <2> DEFINE after == [look EXCEPT !.frame = geometry.frame, !.angle = geometry.angle]
  <2>1. after \in MCLooks /\ after.frame = geometry.frame /\ after.angle = geometry.angle
    BY DEF Modes!Geometries, MCLooks
  <2>2. Modes!WithGeometry(look, geometry) = after
    BY DEF Modes!WithGeometry
  <2> HIDE DEF after
  <2>3. Modes!GeometryOf(after) = geometry
    BY <2>1 DEF Modes!GeometryOf, Modes!Geometries
  <2> QED  BY <2>1, <2>2, <2>3
<1> QED  BY <1>1, <1>2

(* A look for the recipe of the session. *)
LEMMA LookIn ==
    ASSUME NEW recipe \in LookRecipe, NEW look \in MCLooks
    PROVE  [recipe EXCEPT !.state = look] \in LookRecipe
           /\ [recipe EXCEPT !.state = look].state = look
BY DEF LookRecipe

(* A window in which only the session and the steps of the crop mode are others. *)
LEMMA SaneWith ==
    ASSUME NEW w, Sane(w), NEW after \in Windows, Rest(w, after), Kept(after.session),
           after.crop = None <=> w.crop = None,
           after.crop # None => CropFollows(after)
    PROVE  Sane(after)
BY DEF Sane, Rest, SameModes, OneMode

(* What a window in good order says of its session and its crop mode. *)
LEMMA SaneParts ==
    ASSUME NEW w, Sane(w)
    PROVE  /\ w \in Windows /\ Kept(w.session) /\ w.session \in ModeSessions
           /\ w.session.now.recipe \in LookRecipe
           /\ w.session.now.recipe.state \in MCLooks
           /\ Modes!Look(w) = w.session.now.recipe.state
           /\ w.crop # None => CropOK(w.crop) /\ CropFollows(w) /\ Modes!editing(w.session)
           /\ w.crop # None => w.gesture = "none" /\ ~w.masking /\ ~w.picking /\ ~w.preview
<1>1. w \in Windows /\ Kept(w.session) /\ w.session \in ModeSessions
  BY DEF Sane, Kept
<1>2. w.session.now.recipe \in LookRecipe /\ w.session.now.recipe.state \in MCLooks
  BY <1>1, ModeParts
<1>3. w.crop # None => CropOK(w.crop) /\ CropFollows(w) /\ Modes!editing(w.session)
  BY <1>1, WindowParts DEF Sane, CropFollows, CropOK
<1>4. w.crop # None => w.gesture = "none" /\ ~w.masking /\ ~w.picking /\ ~w.preview
  BY DEF Sane, OneMode
<1> QED  BY <1>1, <1>2, <1>3, <1>4 DEF Modes!Look

-----------------------------------------------------------------------------
(* The crop overlay's steps in the window. *)

(* The session's open edit follows the overlay. *)
LEMMA ChangedFollows ==
    ASSUME NEW w \in Windows, Kept(w.session), Modes!editing(w.session), w.crop # None
    PROVE  LET after == Modes!changed(w)
           IN  /\ after \in Windows /\ Rest(w, after) /\ after.crop = w.crop
               /\ Kept(after.session) /\ Modes!editing(after.session)
               /\ after.session.baseline = w.session.baseline
               /\ Modes!GeometryOf(after.session.now.recipe.state) = w.crop.geometry
<1> DEFINE look == Modes!WithGeometry(w.session.now.recipe.state, w.crop.geometry)
           recipe == [w.session.now.recipe EXCEPT !.state = look]
           s == Modes!update(w.session, recipe)
           after == [w EXCEPT !.session = s]
<1>1. w.crop.geometry \in Modes!Geometries
  BY WindowParts, CropParts
<1>2. w.session.now.recipe \in LookRecipe /\ w.session.now.recipe.state \in MCLooks
  BY ModeParts DEF Kept
<1>3. look \in MCLooks /\ Modes!GeometryOf(look) = w.crop.geometry
  BY <1>1, <1>2, Geometry
<1>4. Modes!changed(w) = after
  BY DEF Modes!changed, Modes!Look
<1> HIDE DEF look
<1>5. recipe \in LookRecipe /\ recipe.state = look
  BY <1>2, <1>3, LookIn
<1> HIDE DEF recipe
<1>6. /\ Kept(s) /\ Modes!editing(s) /\ s.baseline = w.session.baseline
      /\ s.now.recipe = recipe
  BY <1>5, UpdateKept
<1> HIDE DEF s
<1>7. s \in ModeSessions
  BY <1>6 DEF Kept
<1>8. /\ after \in Windows /\ after.session = s /\ after.crop = w.crop /\ Rest(w, after)
  BY <1>7, SetSession
<1> HIDE DEF after
<1> QED  BY <1>3, <1>4, <1>5, <1>6, <1>8

(* A command of the overlay is a step, or part of the one that is open. *)
LEMMA EditCropSane ==
    ASSUME NEW w, Sane(w), w.crop # None, NEW geometry \in Modes!Geometries
    PROVE  LET after == Modes!editCrop(w, geometry)
           IN  /\ Sane(after) /\ Rest(w, after) /\ SameSteps(w, after)
               /\ after.crop # None /\ after.crop.geometry = geometry
               /\ after.session.baseline = w.session.baseline
<1> DEFINE begun == Modes!beginStep(w.crop)
           moved == [begun EXCEPT !.geometry = geometry]
           before == [w EXCEPT !.crop = moved]
           during == Modes!changed(before)
           ended == Modes!endStep(during.crop)
           after == [during EXCEPT !.crop = ended]
<1>1. /\ w \in Windows /\ Kept(w.session) /\ Modes!editing(w.session)
      /\ CropOK(w.crop) /\ CropFollows(w)
  BY SaneParts
<1>2. Modes!editCrop(w, geometry) = after
  BY DEF Modes!editCrop
<1>3. /\ CropOK(begun) /\ begun.depth = w.crop.depth + 1 /\ begun.drag = w.crop.drag
      /\ FirstOf(begun) = FirstOf(w.crop)
  BY <1>1, BeginStep
<1>4. w.crop.depth \in Nat
  BY <1>1, CropParts DEF CropOK
<1> HIDE DEF begun
<1>5. begun.depth > 0
  BY <1>3, <1>4
<1>6. /\ CropOK(moved) /\ moved.depth = begun.depth /\ moved.geometry = geometry
      /\ moved.drag = begun.drag /\ FirstOf(moved) = FirstOf(begun)
  BY <1>3, <1>5, GeometryInStep
<1> HIDE DEF moved
<1>7. moved \in Crops /\ moved # None
  BY <1>6, ModesAssumption DEF CropOK
<1>8. /\ before \in Windows /\ before.crop = moved /\ before.session = w.session
      /\ Rest(w, before)
  BY <1>1, <1>7, SetCrop
<1> HIDE DEF before
<1>9. /\ during \in Windows /\ Rest(before, during) /\ during.crop = moved
      /\ Kept(during.session) /\ Modes!editing(during.session)
      /\ during.session.baseline = w.session.baseline
      /\ Modes!GeometryOf(during.session.now.recipe.state) = geometry
  BY <1>1, <1>6, <1>7, <1>8, ChangedFollows
<1> HIDE DEF during
<1>10. /\ CropOK(ended) /\ ended.depth = (IF moved.depth = 0 THEN 0 ELSE moved.depth - 1)
       /\ ended.geometry = geometry /\ ended.drag = moved.drag
       /\ FirstOf(ended) = FirstOf(moved)
  BY <1>6, <1>9, EndStep
<1> HIDE DEF ended
<1>11. ended \in Crops /\ ended # None
  BY <1>10, ModesAssumption DEF CropOK
<1>12. /\ after \in Windows /\ after.crop = ended /\ after.session = during.session
       /\ Rest(during, after)
  BY <1>9, <1>11, SetCrop
<1> HIDE DEF after
<1>13. ended.depth = w.crop.depth /\ ended.drag = w.crop.drag /\ FirstOf(ended) = FirstOf(w.crop)
  BY <1>3, <1>4, <1>6, <1>10
<1>14. Rest(w, after)
  BY <1>8, <1>9, <1>12 DEF Rest, SameModes
<1>15. CropFollows(after)
  BY <1>1, <1>9, <1>10, <1>11, <1>12, <1>13 DEF CropFollows, CropOK
<1>16. Sane(after)
  BY <1>9, <1>11, <1>12, <1>14, <1>15, SaneWith
<1> QED  BY <1>2, <1>9, <1>10, <1>11, <1>12, <1>13, <1>14, <1>16 DEF SameSteps

(* Other steps of the overlay: the geometry and where the steps lead back to stay. *)
LEMMA StepsSane ==
    ASSUME NEW w, Sane(w), w.crop # None, NEW crop, CropOK(crop),
           crop.geometry = w.crop.geometry, FirstOf(crop) = FirstOf(w.crop)
    PROVE  LET after == [w EXCEPT !.crop = crop]
           IN  /\ Sane(after) /\ Rest(w, after) /\ after.crop = crop /\ after.crop # None
               /\ after.session = w.session
<1> DEFINE after == [w EXCEPT !.crop = crop]
<1>1. /\ w \in Windows /\ Kept(w.session) /\ Modes!editing(w.session)
      /\ CropFollows(w)
  BY SaneParts
<1>2. crop \in Crops /\ crop # None
  BY ModesAssumption DEF CropOK
<1>3. /\ after \in Windows /\ after.crop = crop /\ after.session = w.session
      /\ Rest(w, after)
  BY <1>1, <1>2, SetCrop
<1> HIDE DEF after
<1>4. CropFollows(after)
  BY <1>1, <1>3 DEF CropFollows, CropOK
<1>5. Sane(after)
  BY <1>1, <1>2, <1>3, <1>4, SaneWith
<1> QED  BY <1>2, <1>3, <1>5 DEF after

-----------------------------------------------------------------------------
(* The edit of the panel or of a gesture. *)

LEMMA AbandonSane ==
    ASSUME NEW w, Sane(w)
    PROVE  LET after == Modes!abandonDrag(w)
           IN  /\ Sane(after) /\ SameModes(w, after)
               /\ after.session = w.session /\ after.crop = w.crop /\ after.panel = w.panel
               /\ after.gesture = "none"
<1> DEFINE after == [w EXCEPT !.gesture = "none"]
<1>1. w \in Windows
  BY SaneParts
<1>2. /\ after \in Windows /\ SameModes(w, after)
      /\ after.session = w.session /\ after.crop = w.crop /\ after.panel = w.panel
      /\ after.gesture = "none"
  BY <1>1, SetGesture
<1>3. Modes!abandonDrag(w) = after
  BY DEF Modes!abandonDrag
<1> HIDE DEF after
<1>4. Sane(after)
  BY <1>2 DEF Sane, SameModes, OneMode, CropFollows
<1> QED  BY <1>2, <1>3, <1>4

(* Outside the crop mode any session in good order may follow. *)
LEMMA SessionSane ==
    ASSUME NEW w, Sane(w), w.crop = None, NEW s, Kept(s)
    PROVE  LET after == [w EXCEPT !.session = s]
           IN  /\ Sane(after) /\ Rest(w, after) /\ after.session = s /\ after.crop = None
<1> DEFINE after == [w EXCEPT !.session = s]
<1>1. w \in Windows /\ s \in ModeSessions
  BY SaneParts DEF Kept
<1>2. after \in Windows /\ after.session = s /\ after.crop = w.crop /\ Rest(w, after)
  BY <1>1, SetSession
<1> HIDE DEF after
<1>3. Sane(after)
  BY <1>2, SaneWith
<1> QED  BY <1>2, <1>3 DEF after

(* An edit begins: in the crop mode as one more step, else as one of the session. *)
LEMMA BeginEditSane ==
    ASSUME NEW w, Sane(w)
    PROVE  LET after == Modes!beginEdit(w)
           IN  /\ Sane(after) /\ Rest(w, after) /\ Modes!editing(after.session)
               /\ after.crop = None <=> w.crop = None
               /\ w.crop # None => /\ after.crop.depth = w.crop.depth + 1
                                   /\ after.crop.drag = w.crop.drag
               /\ after.session.now.recipe.state = w.session.now.recipe.state
<1>1. CASE w.crop # None
  <2> DEFINE crop == Modes!beginStep(w.crop)
             after == [w EXCEPT !.crop = crop]
  <2>1. CropOK(w.crop) /\ Modes!editing(w.session)
    BY <1>1, SaneParts
  <2>2. /\ CropOK(crop) /\ crop.depth = w.crop.depth + 1
        /\ crop.geometry = w.crop.geometry /\ crop.drag = w.crop.drag
        /\ FirstOf(crop) = FirstOf(w.crop)
    BY <2>1, BeginStep
  <2>3. Modes!beginEdit(w) = after
    BY <1>1 DEF Modes!beginEdit
  <2> HIDE DEF crop
  <2>4. /\ Sane(after) /\ Rest(w, after) /\ after.crop = crop /\ after.crop # None
        /\ after.session = w.session
    BY <1>1, <2>2, StepsSane
  <2> QED  BY <1>1, <2>1, <2>2, <2>3, <2>4
<1>2. CASE w.crop = None
  <2> DEFINE s == Modes!begin(w.session)
             after == [w EXCEPT !.session = s]
  <2>1. Kept(s) /\ Modes!editing(s) /\ s.now.recipe.state = w.session.now.recipe.state
    BY SaneParts, BeginKept
  <2>2. Modes!beginEdit(w) = after
    BY <1>2 DEF Modes!beginEdit
  <2> HIDE DEF s
  <2>3. Sane(after) /\ Rest(w, after) /\ after.session = s /\ after.crop = None
    BY <1>2, <2>1, SessionSane
  <2> QED  BY <1>2, <2>1, <2>2, <2>3
<1> QED  BY <1>1, <1>2

(* What a handler of the panel or of a gesture leaves of the window around the edit: a stroke *)
(* that lost its edit is given up.                                                            *)
Around(w, after) ==
    /\ SameModes(w, after)
    /\ after.panel = w.panel
    /\ after.gesture \in {w.gesture, "none"}
    /\ Modes!editing(w.session) => after.gesture = w.gesture

(* A drag that finds no edit open is abandoned, and nothing else is touched. *)
LEMMA WithoutEdit ==
    ASSUME NEW w, Sane(w), ~Modes!editing(w.session), NEW then
    PROVE  LET after == Modes!WhileEditing(w, then)
           IN  /\ Sane(after) /\ Around(w, after)
               /\ after.session = w.session /\ after.crop = w.crop
<1>1. CASE w.gesture = "stroke"
  <2>1. Modes!WhileEditing(w, then) = Modes!abandonDrag(w)
    BY <1>1 DEF Modes!WhileEditing
  <2> QED  BY <2>1, AbandonSane DEF Around
<1>2. CASE w.gesture # "stroke"
  <2>1. Modes!WhileEditing(w, then) = w
    BY <1>2 DEF Modes!WhileEditing
  <2> QED  BY <2>1 DEF Around, SameModes
<1> QED  BY <1>1, <1>2

(* A look set in the open edit: the overlay follows its geometry. *)
LEMMA UpdateEditSane ==
    ASSUME NEW w, Sane(w), NEW look \in MCLooks
    PROVE  LET after == Modes!updateEdit(w, look)
           IN  /\ Sane(after) /\ Around(w, after) /\ SameSteps(w, after)
               /\ Modes!editing(after.session) <=> Modes!editing(w.session)
<1> DEFINE adopts == w.crop # None /\ Modes!GeometryOf(look) # Modes!GeometryOf(Modes!Look(w))
           adopted == IF adopts THEN Modes!editCrop(w, Modes!GeometryOf(look)) ELSE w
           then == [adopted EXCEPT !.session =
                        Modes!update(@, [@.now.recipe EXCEPT !.state = look])]
<1>1. Modes!updateEdit(w, look) = Modes!WhileEditing(w, then)
  BY DEF Modes!updateEdit
<1>2. CASE ~Modes!editing(w.session)
  <2> HIDE DEF then
  <2>1. LET after == Modes!WhileEditing(w, then)
        IN  /\ Sane(after) /\ Around(w, after)
            /\ after.session = w.session /\ after.crop = w.crop
    BY <1>2, WithoutEdit
  <2> QED  BY <1>1, <1>2, <2>1 DEF SameSteps
<1>3. CASE Modes!editing(w.session)
  <2>1. Modes!WhileEditing(w, then) = then
    BY <1>3 DEF Modes!WhileEditing
  <2>2. Modes!GeometryOf(look) \in Modes!Geometries
    BY Geometry
  <2>3. /\ Sane(adopted) /\ Rest(w, adopted) /\ SameSteps(w, adopted)
        /\ Modes!editing(adopted.session)
        /\ adopted.crop # None => adopted.crop.geometry = Modes!GeometryOf(look)
    <3>1. CASE adopts
      <4>1. /\ Sane(adopted) /\ Rest(w, adopted) /\ SameSteps(w, adopted)
            /\ adopted.crop # None /\ adopted.crop.geometry = Modes!GeometryOf(look)
        BY <2>2, <3>1, EditCropSane
      <4> HIDE DEF adopted, adopts
      <4>2. Modes!editing(adopted.session)
        BY <4>1, SaneParts
      <4> QED  BY <4>1, <4>2
    <3>2. CASE ~adopts
      <4>1. adopted = w
        BY <3>2
      <4>2. w.crop # None => w.crop.geometry = Modes!GeometryOf(look)
        BY <3>2, SaneParts DEF CropFollows
      <4> HIDE DEF adopted, adopts
      <4> QED  BY <1>3, <4>1, <4>2 DEF Rest, SameModes, SameSteps
    <3> QED  BY <3>1, <3>2
  <2> HIDE DEF adopted, adopts
  <2> DEFINE recipe == [adopted.session.now.recipe EXCEPT !.state = look]
             s == Modes!update(adopted.session, recipe)
             after == [adopted EXCEPT !.session = s]
  <2>4. then = after
    OBVIOUS
  <2> HIDE DEF then
  <2>5. recipe \in LookRecipe /\ recipe.state = look
    BY <2>3, SaneParts, LookIn
  <2> HIDE DEF recipe
  <2>6. /\ Kept(s) /\ Modes!editing(s) /\ s.baseline = adopted.session.baseline
        /\ s.now.recipe = recipe
    BY <2>3, <2>5, SaneParts, UpdateKept
  <2> HIDE DEF s
  <2>7. /\ after \in Windows /\ after.session = s /\ after.crop = adopted.crop
        /\ Rest(adopted, after)
    BY <2>3, <2>6, SaneParts, SetSession DEF Kept
  <2> HIDE DEF after
  <2>8. after.crop # None => CropFollows(after)
    BY <2>3, <2>5, <2>6, <2>7, SaneParts DEF CropFollows
  <2>9. Sane(after)
    BY <2>3, <2>6, <2>7, <2>8, SaneWith
  <2> QED  BY <1>1, <1>3, <2>1, <2>3, <2>4, <2>6, <2>7, <2>9 DEF Around, Rest, SameModes, SameSteps
<1> QED  BY <1>2, <1>3

(* An edit ends: in the crop mode its step, else the edit of the session. *)
LEMMA FinishEditSane ==
    ASSUME NEW w, Sane(w)
    PROVE  LET after == Modes!finishEdit(w)
           IN  /\ Sane(after) /\ Around(w, after)
               /\ after.crop = None <=> w.crop = None
               /\ after.session.held = w.session.held
               /\ w.crop = None => ~Modes!editing(after.session)
               /\ w.crop # None =>
                     /\ after.session = w.session
                     /\ after.crop.depth = IF w.crop.depth = 0 THEN 0 ELSE w.crop.depth - 1
                     /\ after.crop.drag = w.crop.drag
<1>1. CASE w.crop # None
  <2> DEFINE crop == Modes!endStep(w.crop)
             after == [w EXCEPT !.crop = crop]
  <2>1. CropOK(w.crop)
    BY <1>1, SaneParts
  <2>2. /\ CropOK(crop) /\ crop.depth = (IF w.crop.depth = 0 THEN 0 ELSE w.crop.depth - 1)
        /\ crop.geometry = w.crop.geometry /\ crop.drag = w.crop.drag
        /\ FirstOf(crop) = FirstOf(w.crop)
    BY <2>1, EndStep
  <2>3. Modes!finishEdit(w) = after
    BY <1>1 DEF Modes!finishEdit
  <2> HIDE DEF crop
  <2>4. /\ Sane(after) /\ Rest(w, after) /\ after.crop = crop /\ after.crop # None
        /\ after.session = w.session
    BY <1>1, <2>2, StepsSane
  <2> HIDE DEF after
  <2>5. Around(w, after)
    BY <2>4 DEF Around, Rest
  <2> QED  BY <1>1, <2>2, <2>3, <2>4, <2>5
<1>2. CASE w.crop = None
  <2> DEFINE s == Modes!commit(w.session)
             then == [w EXCEPT !.session = s]
  <2>1. Modes!finishEdit(w) = Modes!WhileEditing(w, then)
    BY <1>2 DEF Modes!finishEdit
  <2>2. CASE ~Modes!editing(w.session)
    <3> HIDE DEF then
    <3>1. LET after == Modes!WhileEditing(w, then)
          IN  /\ Sane(after) /\ Around(w, after)
              /\ after.session = w.session /\ after.crop = w.crop
      BY <2>2, WithoutEdit
    <3> QED  BY <1>2, <2>1, <2>2, <3>1
  <2>3. CASE Modes!editing(w.session)
    <3>1. Modes!WhileEditing(w, then) = then
      BY <2>3 DEF Modes!WhileEditing
    <3>2. Kept(s) /\ ~Modes!editing(s) /\ s.held = w.session.held
      BY <2>3, SaneParts, CommitKept
    <3> HIDE DEF s
    <3>3. Sane(then) /\ Rest(w, then) /\ then.session = s /\ then.crop = None
      BY <1>2, <3>2, SessionSane
    <3> HIDE DEF then
    <3>4. Around(w, then)
      BY <3>3 DEF Around, Rest
    <3> QED  BY <1>2, <2>1, <3>1, <3>2, <3>3, <3>4
  <2> QED  BY <2>2, <2>3
<1> QED  BY <1>1, <1>2

-----------------------------------------------------------------------------
(* The slider that is held, or waits. *)

LEMMA PanelKinds ==
    ASSUME NEW w, Sane(w), w.panel # None
    PROVE  /\ Modes!Held(w) \/ Modes!Pending(w)
           /\ ~(Modes!Held(w) /\ Modes!Pending(w))
           /\ w.panel.row \in {"tone", "straighten"}
<1>1. w.panel \in Panels
  BY WindowParts DEF Sane
<1>2. w.panel.how \in {"held", "pending"} /\ w.panel.row \in {"tone", "straighten"}
  BY <1>1 DEF Panels
<1> QED  BY <1>2 DEF Modes!Held, Modes!Pending

(* The panel lets go of what it edits. *)
LEMMA WithoutPanel ==
    ASSUME NEW w, Sane(w)
    PROVE  LET after == [w EXCEPT !.panel = None]
           IN  /\ Sane(after) /\ SameModes(w, after)
               /\ after.panel = None /\ after.session = w.session
               /\ after.crop = w.crop /\ after.gesture = w.gesture
<1> DEFINE after == [w EXCEPT !.panel = None]
<1>1. w \in Windows
  BY SaneParts
<1>2. /\ after \in Windows /\ SameModes(w, after)
      /\ after.panel = None /\ after.session = w.session
      /\ after.crop = w.crop /\ after.gesture = w.gesture
  BY <1>1, SetPanel
<1> HIDE DEF after
<1>3. Sane(after)
  BY <1>2 DEF Sane, SameModes, OneMode, CropFollows
<1> QED  BY <1>2, <1>3 DEF after

(* The edit of a slider ends: no edit is open then, but the crop mode's. *)
LEMMA PanelEnds ==
    ASSUME NEW w, InForm(w), w.panel # None
    PROVE  LET after == Modes!finishEdit([w EXCEPT !.panel = None])
           IN  /\ InForm(after) /\ SameModes(w, after)
               /\ after.session.held = w.session.held
               /\ after.panel = None /\ after.gesture \in {w.gesture, "none"}
               /\ after.crop = None <=> w.crop = None
               /\ w.crop # None => after.crop.drag = w.crop.drag
<1> DEFINE before == [w EXCEPT !.panel = None]
           after == Modes!finishEdit(before)
<1>1. Sane(w) /\ Balanced(w)
  BY DEF InForm
<1>2. /\ Sane(before) /\ SameModes(w, before)
      /\ before.panel = None /\ before.session = w.session
      /\ before.crop = w.crop /\ before.gesture = w.gesture
  BY <1>1, WithoutPanel
<1> HIDE DEF before
<1>3. /\ Sane(after) /\ Around(before, after)
      /\ after.crop = None <=> before.crop = None
      /\ after.session.held = before.session.held
      /\ before.crop = None => ~Modes!editing(after.session)
      /\ before.crop # None =>
            /\ after.session = before.session
            /\ after.crop.depth = IF before.crop.depth = 0 THEN 0 ELSE before.crop.depth - 1
            /\ after.crop.drag = before.crop.drag
  BY <1>2, FinishEditSane
<1> HIDE DEF after
<1>4. after.panel = None /\ SameModes(w, after) /\ after.gesture \in {w.gesture, "none"}
  BY <1>2, <1>3 DEF Around, SameModes
<1>5. after.preview => after.crop = None
  BY <1>3 DEF Sane, OneMode
<1>6. Owned(after)
  BY <1>2, <1>3, <1>5 DEF Owned
<1>7. Balanced(after)
  <2> SUFFICES ASSUME after.crop # None
               PROVE  /\ after.panel = None => after.crop.depth = IF after.crop.drag THEN 1 ELSE 0
                      /\ ~Modes!Held(after) /\ ~Modes!Pending(after)
    BY DEF Balanced
  <2>1. /\ w.crop # None
        /\ after.crop.depth = IF w.crop.depth = 0 THEN 0 ELSE w.crop.depth - 1
        /\ after.crop.drag = w.crop.drag
    BY <1>2, <1>3
  <2>2. ~Modes!Held(after) /\ ~Modes!Pending(after)
    BY <1>4 DEF Modes!Held, Modes!Pending
  <2>3. CASE Modes!Held(w)
    <3>1. ~w.crop.drag /\ w.crop.depth \in {0, 1}
      BY <1>1, <2>1, <2>3 DEF Balanced
    <3> QED  BY <2>1, <2>2, <3>1
  <2>4. CASE Modes!Pending(w)
    <3>1. w.crop.depth = IF w.crop.drag THEN 2 ELSE 1
      BY <1>1, <2>1, <2>4 DEF Balanced
    <3> QED  BY <2>1, <2>2, <3>1
  <2> QED  BY <1>1, <2>3, <2>4, PanelKinds
<1> QED  BY <1>2, <1>3, <1>4, <1>6, <1>7 DEF InForm, after, before

(* The edit of a nudge that waits for its pause is ended before anything else begins. *)
LEMMA PendingEnds ==
    ASSUME NEW w, InForm(w)
    PROVE  LET after == Modes!finishPendingEdit(w)
           IN  /\ InForm(after) /\ SameModes(w, after)
               /\ after.session.held = w.session.held
               /\ ~Modes!Pending(after) /\ after.panel \in {w.panel, None}
               /\ after.gesture \in {w.gesture, "none"}
               /\ after.crop = None <=> w.crop = None
               /\ w.crop # None => after.crop.drag = w.crop.drag
<1>1. CASE Modes!Pending(w)
  <2> DEFINE after == Modes!finishEdit([w EXCEPT !.panel = None])
  <2>1. w.panel # None
    BY <1>1 DEF Modes!Pending
  <2>2. Modes!finishPendingEdit(w) = after
    BY <1>1 DEF Modes!finishPendingEdit
  <2>3. /\ InForm(after) /\ SameModes(w, after)
        /\ after.session.held = w.session.held
        /\ after.panel = None /\ after.gesture \in {w.gesture, "none"}
        /\ after.crop = None <=> w.crop = None
        /\ w.crop # None => after.crop.drag = w.crop.drag
    BY <2>1, PanelEnds
  <2> HIDE DEF after
  <2>4. ~Modes!Pending(after)
    BY <2>3 DEF Modes!Pending
  <2> QED  BY <2>2, <2>3, <2>4
<1>2. CASE ~Modes!Pending(w)
  <2>1. Modes!finishPendingEdit(w) = w
    BY <1>2 DEF Modes!finishPendingEdit
  <2> QED  BY <1>2, <2>1 DEF SameModes
<1> QED  BY <1>1, <1>2

(* A slider that is disabled while held ends its edit. *)
LEMMA LetGoForm ==
    ASSUME NEW w, InForm(w), NEW rows
    PROVE  InForm(Modes!letGo(w, rows))
<1>1. CASE Modes!Held(w) /\ w.panel.row \in rows
  <2>1. w.panel # None
    BY <1>1 DEF Modes!Held
  <2>2. Modes!letGo(w, rows) = Modes!finishEdit([w EXCEPT !.panel = None])
    BY <1>1 DEF Modes!letGo
  <2> QED  BY <2>1, <2>2, PanelEnds
<1>2. CASE ~(Modes!Held(w) /\ w.panel.row \in rows)
  <2>1. Modes!letGo(w, rows) = w
    BY <1>2 DEF Modes!letGo
  <2> QED  BY <2>1
<1> QED  BY <1>1, <1>2

(* Refreshing what may be edited keeps the form. *)
LEMMA ActionsForm ==
    ASSUME NEW w, InForm(w)
    PROVE  InForm(Modes!updateEditingActions(w))
BY LetGoForm DEF Modes!updateEditingActions

(* So does a look set in the open edit. *)
LEMMA UpdateEditForm ==
    ASSUME NEW w, InForm(w), NEW look \in MCLooks
    PROVE  InForm(Modes!updateEdit(w, look))
<1> DEFINE after == Modes!updateEdit(w, look)
<1>1. /\ Sane(after) /\ Around(w, after) /\ SameSteps(w, after)
      /\ Modes!editing(after.session) <=> Modes!editing(w.session)
  BY UpdateEditSane DEF InForm
<1> HIDE DEF after
<1>2. Owned(after)
  BY <1>1 DEF InForm, Owned, Around, SameModes, SameSteps
<1>3. Balanced(after)
  BY <1>1 DEF InForm, Balanced, Around, SameSteps, Modes!Held, Modes!Pending
<1> QED  BY <1>1, <1>2, <1>3 DEF InForm, after

(* The owner of an edit outside the crop mode may go when the edit is over. *)
LEMMA EndedForm ==
    ASSUME NEW w, Sane(w), w.crop = None, ~Modes!editing(w.session)
    PROVE  InForm(w)
BY DEF InForm, Owned, Balanced

(* What makes a step of its own, outside the crop mode. *)
LEMMA OwnForm ==
    ASSUME NEW w, Sane(w), w.crop = None, NEW s, Kept(s), ~Modes!editing(s)
    PROVE  LET after == [w EXCEPT !.session = s]
           IN  InForm(after) /\ Rest(w, after) /\ after.crop = None /\ after.session = s
<1> DEFINE after == [w EXCEPT !.session = s]
<1>1. Sane(after) /\ Rest(w, after) /\ after.session = s /\ after.crop = None
  BY SessionSane
<1> HIDE DEF after
<1>2. InForm(after)
  BY <1>1, EndedForm
<1> QED  BY <1>1, <1>2 DEF after

(* And a change that is a step of its own. *)
LEMMA OwnStepForm ==
    ASSUME NEW w, Sane(w), w.crop = None, NEW look \in MCLooks
    PROVE  InForm(Modes!ownStep(w, look))
<1> DEFINE s == Modes!setState(w.session, look)
<1>1. Kept(s) /\ ~Modes!editing(s)
  BY SaneParts, SetStateKept
<1>2. Modes!ownStep(w, look) = [w EXCEPT !.session = s]
  BY DEF Modes!ownStep
<1> HIDE DEF s
<1> QED  BY <1>1, <1>2, OwnForm

-----------------------------------------------------------------------------
(* Modes. *)

LEMMA SetPreview ==
    ASSUME NEW w \in Windows, NEW preview \in BOOLEAN
    PROVE  LET after == [w EXCEPT !.preview = preview]
           IN  /\ after \in Windows /\ after.preview = preview
               /\ after.session = w.session /\ after.crop = w.crop /\ after.panel = w.panel
               /\ after.gesture = w.gesture /\ after.decoded = w.decoded
               /\ after.masking = w.masking /\ after.picking = w.picking
BY DEF Windows

(* A window that turns its mask mode on or off. *)
LEMMA SetMasking ==
    ASSUME NEW w \in Windows, NEW masking \in BOOLEAN
    PROVE  LET after == [w EXCEPT !.masking = masking]
           IN  /\ after \in Windows /\ after.masking = masking
               /\ after.session = w.session /\ after.crop = w.crop /\ after.panel = w.panel
               /\ after.gesture = w.gesture /\ after.decoded = w.decoded
               /\ after.preview = w.preview /\ after.picking = w.picking
BY DEF Windows

(* One that turns its neutral picker on or off. *)
LEMMA SetPicking ==
    ASSUME NEW w \in Windows, NEW picking \in BOOLEAN
    PROVE  LET after == [w EXCEPT !.picking = picking]
           IN  /\ after \in Windows /\ after.picking = picking
               /\ after.session = w.session /\ after.crop = w.crop /\ after.panel = w.panel
               /\ after.gesture = w.gesture /\ after.decoded = w.decoded
               /\ after.preview = w.preview /\ after.masking = w.masking
BY DEF Windows

(* A window with other modes, as long as one is on at most. *)
LEMMA ModesForm ==
    ASSUME NEW w, InForm(w), NEW after \in Windows,
           after.session = w.session, after.crop = w.crop, after.panel = w.panel,
           after.gesture = w.gesture, OneMode(after),
           after.gesture # "none" => after.masking,
           after.preview => ~Modes!editing(w.session)
    PROVE  InForm(after)
<1>1. Sane(after)
  BY DEF InForm, Sane, CropFollows
<1>2. Owned(after) /\ Balanced(after)
  BY DEF InForm, Owned, Balanced, Modes!Held, Modes!Pending
<1> QED  BY <1>1, <1>2 DEF InForm

(* A gesture that is lost takes its open edit back. *)
LEMMA CancelGestureForm ==
    ASSUME NEW w, InForm(w)
    PROVE  LET after == Modes!cancelGesture(w)
           IN  /\ InForm(after) /\ SameModes(w, after) /\ after.gesture = "none"
               /\ after.panel = w.panel /\ after.crop = w.crop
<1>1. CASE w.gesture = "none"
  <2>1. Modes!cancelGesture(w) = w
    BY <1>1 DEF Modes!cancelGesture
  <2> QED  BY <1>1, <2>1 DEF SameModes
<1>2. CASE w.gesture # "none"
  <2> DEFINE left == Modes!abandonDrag(w)
  <2>1. Sane(w) /\ w.crop = None
    BY <1>2, SaneParts DEF InForm
  <2>2. /\ Sane(left) /\ SameModes(w, left) /\ left.gesture = "none"
        /\ left.session = w.session /\ left.crop = w.crop /\ left.panel = w.panel
    BY <2>1, AbandonSane
  <2>3. Modes!cancelGesture(w) = Modes!cancelEdit(left)
    BY <1>2 DEF Modes!cancelGesture
  <2> HIDE DEF left
  <2>4. CASE Modes!editing(left.session)
    <3> DEFINE s == Modes!cancel(left.session)
               after == [left EXCEPT !.session = s]
    <3>1. Kept(s) /\ ~Modes!editing(s)
      BY <2>2, <2>4, SaneParts, CancelKept
    <3>2. Modes!cancelEdit(left) = after
      BY <2>4 DEF Modes!cancelEdit
    <3> HIDE DEF s
    <3>3. InForm(after) /\ Rest(left, after) /\ after.crop = None /\ after.session = s
      BY <2>1, <2>2, <3>1, OwnForm
    <3> HIDE DEF after
    <3> QED  BY <2>1, <2>2, <2>3, <3>2, <3>3 DEF Rest, SameModes
  <2>5. CASE ~Modes!editing(left.session)
    <3>1. Modes!cancelEdit(left) = left
      BY <2>5 DEF Modes!cancelEdit
    <3>2. InForm(left)
      BY <2>1, <2>2, <2>5, EndedForm
    <3> QED  BY <2>2, <2>3, <3>1, <3>2
  <2> QED  BY <2>4, <2>5
<1> QED  BY <1>1, <1>2

(* Leaving the mask mode cancels the gesture under way. *)
LEMMA LeaveMaskModeForm ==
    ASSUME NEW w, InForm(w)
    PROVE  LET after == Modes!leaveMaskMode(w)
           IN  /\ InForm(after) /\ ~after.masking /\ after.gesture = "none"
               /\ after.decoded = w.decoded /\ after.preview = w.preview
               /\ after.picking = w.picking
               /\ after.panel = w.panel /\ after.crop = w.crop
<1>1. CASE ~w.masking
  <2>1. Modes!leaveMaskMode(w) = w
    BY <1>1 DEF Modes!leaveMaskMode
  <2> QED  BY <1>1, <2>1 DEF InForm, Sane
<1>2. CASE w.masking
  <2> DEFINE off == FALSE
             left == Modes!cancelGesture(w)
             after == [left EXCEPT !.masking = off]
  <2>1. /\ InForm(left) /\ SameModes(w, left) /\ left.gesture = "none"
        /\ left.panel = w.panel /\ left.crop = w.crop
    BY CancelGestureForm
  <2>2. Modes!leaveMaskMode(w) = after
    BY <1>2, Zenon DEF Modes!leaveMaskMode
  <2>3. off \in BOOLEAN /\ ~off
    OBVIOUS
  <2> HIDE DEF left, off
  <2>4. left \in Windows /\ OneMode(left)
    BY <2>1 DEF InForm, Sane
  <2>5. /\ after \in Windows /\ after.masking = off
        /\ after.session = left.session /\ after.crop = left.crop /\ after.panel = left.panel
        /\ after.gesture = left.gesture /\ after.decoded = left.decoded
        /\ after.preview = left.preview /\ after.picking = left.picking
    BY <2>3, <2>4, SetMasking
  <2> HIDE DEF after
  <2>6. OneMode(after)
    BY <2>3, <2>4, <2>5 DEF OneMode
  <2>7. after.preview => ~Modes!editing(left.session)
    BY <2>1, <2>5 DEF InForm, Owned
  <2>8. InForm(after)
    BY <2>1, <2>5, <2>6, <2>7, ModesForm
  <2> QED  BY <2>1, <2>2, <2>3, <2>5, <2>8 DEF SameModes
<1> QED  BY <1>1, <1>2

(* The picker goes off by itself. *)
LEMMA PickingOffForm ==
    ASSUME NEW w, InForm(w)
    PROVE  LET after == Modes!setPicking(w, FALSE)
           IN  /\ InForm(after) /\ ~after.picking
               /\ after.decoded = w.decoded /\ after.preview = w.preview
               /\ after.masking = w.masking /\ after.gesture = w.gesture
               /\ after.panel = w.panel /\ after.crop = w.crop
<1> DEFINE off == FALSE
           after == [w EXCEPT !.picking = off]
<1>1. Modes!setPicking(w, FALSE) = after
  BY Zenon DEF Modes!setPicking
<1>2. off \in BOOLEAN /\ ~off
  OBVIOUS
<1> HIDE DEF off
<1>3. w \in Windows /\ OneMode(w)
  BY DEF InForm, Sane
<1>4. /\ after \in Windows /\ after.picking = off
      /\ after.session = w.session /\ after.crop = w.crop /\ after.panel = w.panel
      /\ after.gesture = w.gesture /\ after.decoded = w.decoded
      /\ after.preview = w.preview /\ after.masking = w.masking
  BY <1>2, <1>3, SetPicking
<1> HIDE DEF after
<1>5. OneMode(after)
  BY <1>2, <1>3, <1>4 DEF OneMode
<1>6. after.gesture # "none" => after.masking
  BY <1>4 DEF InForm, Sane
<1>7. after.preview => ~Modes!editing(w.session)
  BY <1>4 DEF InForm, Owned
<1>8. InForm(after)
  BY <1>4, <1>5, <1>6, <1>7, ModesForm
<1> QED  BY <1>1, <1>2, <1>4, <1>8

(* The picker comes on in no other mode. *)
LEMMA SetPickingForm ==
    ASSUME NEW w, InForm(w), NEW picking \in BOOLEAN
    PROVE  InForm(Modes!setPicking(w, picking))
<1>1. CASE picking /\ Modes!editable(w) /\ w.crop = None
  <2> DEFINE on == TRUE
             left == Modes!leaveMaskMode(w)
             after == [left EXCEPT !.picking = on]
  <2>1. Modes!setPicking(w, picking) = after
    BY <1>1, Zenon DEF Modes!setPicking
  <2>2. on \in BOOLEAN /\ on
    OBVIOUS
  <2>3. /\ InForm(left) /\ ~left.masking /\ left.gesture = "none"
        /\ left.preview = w.preview /\ left.crop = w.crop
    BY LeaveMaskModeForm
  <2> HIDE DEF on, left
  <2>4. left \in Windows
    BY <2>3 DEF InForm, Sane
  <2>5. /\ after \in Windows /\ after.picking = on
        /\ after.session = left.session /\ after.crop = left.crop /\ after.panel = left.panel
        /\ after.gesture = left.gesture /\ after.decoded = left.decoded
        /\ after.preview = left.preview /\ after.masking = left.masking
    BY <2>2, <2>4, SetPicking
  <2> HIDE DEF after
  <2>6. ~after.preview
    BY <1>1, <2>3, <2>5 DEF Modes!editable
  <2>7. OneMode(after)
    BY <1>1, <2>3, <2>5, <2>6 DEF OneMode
  <2> QED  BY <2>1, <2>3, <2>5, <2>6, <2>7, ModesForm
<1>2. CASE ~(picking /\ Modes!editable(w) /\ w.crop = None)
  <2>1. Modes!setPicking(w, picking) = Modes!setPicking(w, FALSE)
    BY <1>2, Zenon DEF Modes!setPicking
  <2> QED  BY <2>1, PickingOffForm
<1> QED  BY <1>1, <1>2

(* Leaving the crop mode ends its edit, kept or taken back. *)
LEMMA LeaveCropModeForm ==
    ASSUME NEW w, InForm(w), NEW accept \in BOOLEAN
    PROVE  LET after == Modes!leaveCropMode(w, accept)
           IN  /\ InForm(after) /\ Rest(w, after) /\ after.crop = None
<1> DEFINE closed == [w EXCEPT !.crop = None]
<1>1. w \in Windows /\ Sane(w) /\ Kept(w.session)
  BY SaneParts DEF InForm
<1>2. closed \in Windows /\ closed.crop = None /\ closed.session = w.session /\ Rest(w, closed)
  BY <1>1, SetCrop
<1>3. Modes!leaveCropMode(w, accept) =
         IF w.crop = None \/ ~Modes!editing(w.session) THEN closed
         ELSE [closed EXCEPT !.session =
                  IF accept THEN Modes!commit(w.session) ELSE Modes!cancel(w.session)]
  BY <1>2, Zenon DEF Modes!leaveCropMode
<1> HIDE DEF closed
<1>4. Sane(closed)
  BY <1>1, <1>2 DEF Sane, OneMode, Rest, SameModes
<1>5. CASE w.crop = None
  <2>1. closed.panel = w.panel /\ closed.gesture = w.gesture /\ SameModes(w, closed)
    BY <1>2 DEF Rest
  <2>2. Owned(closed) /\ Balanced(closed)
    BY <1>2, <1>5, <2>1 DEF InForm, Owned, Balanced, SameModes
  <2> QED  BY <1>2, <1>3, <1>4, <1>5, <2>2 DEF InForm
<1>6. CASE w.crop # None
  <2> DEFINE s == IF accept THEN Modes!commit(w.session) ELSE Modes!cancel(w.session)
             after == [closed EXCEPT !.session = s]
  <2>1. Modes!editing(w.session)
    BY <1>1, <1>6, SaneParts
  <2>2. Kept(s) /\ ~Modes!editing(s)
    BY <1>1, <2>1, CommitKept, CancelKept
  <2>3. Modes!leaveCropMode(w, accept) = after
    BY <1>3, <1>6, <2>1
  <2> HIDE DEF s
  <2>4. InForm(after) /\ Rest(closed, after) /\ after.crop = None
    BY <1>2, <1>4, <2>2, OwnForm
  <2> HIDE DEF after
  <2> QED  BY <1>2, <2>3, <2>4 DEF Rest, SameModes
<1> QED  BY <1>5, <1>6

(* Other modes leave it keeping the edit. *)
LEMMA CropLeft ==
    ASSUME NEW w, InForm(w)
    PROVE  LET after == Modes!leaveCropMode(w, TRUE)
           IN  InForm(after) /\ Rest(w, after) /\ after.crop = None
<1> DEFINE accept == TRUE
<1>1. accept \in BOOLEAN
  OBVIOUS
<1> HIDE DEF accept
<1>2. LET after == Modes!leaveCropMode(w, accept)
      IN  InForm(after) /\ Rest(w, after) /\ after.crop = None
  BY <1>1, LeaveCropModeForm
<1> QED  BY <1>2, Zenon DEF accept

(* The mask mode comes on in no other mode. *)
LEMMA SetMaskModeForm ==
    ASSUME NEW w, InForm(w), NEW masking \in BOOLEAN
    PROVE  InForm(Modes!setMaskMode(w, masking))
<1>1. CASE ~masking
  <2>1. Modes!setMaskMode(w, masking) = Modes!leaveMaskMode(w)
    BY <1>1, Zenon DEF Modes!setMaskMode
  <2> QED  BY <2>1, LeaveMaskModeForm
<1>2. CASE masking /\ (~Modes!editable(w) \/ w.masking)
  <2>1. Modes!setMaskMode(w, masking) = w
    BY <1>2, Zenon DEF Modes!setMaskMode
  <2> QED  BY <2>1
<1>3. CASE masking /\ ~(~Modes!editable(w) \/ w.masking)
  <2> DEFINE on == TRUE
             left == Modes!leaveCropMode(w, TRUE)
             rested == Modes!finishPendingEdit(left)
             ready == Modes!setPicking(rested, FALSE)
             after == [ready EXCEPT !.masking = on]
  <2>1. Modes!setMaskMode(w, masking) = after
    BY <1>3, Zenon DEF Modes!setMaskMode
  <2>2. on \in BOOLEAN /\ on
    OBVIOUS
  <2>3. InForm(left) /\ Rest(w, left) /\ left.crop = None
    BY CropLeft
  <2> HIDE DEF on, left
  <2>4. InForm(rested) /\ SameModes(left, rested) /\ rested.crop = None
    BY <2>3, PendingEnds
  <2> HIDE DEF rested
  <2>5. /\ InForm(ready) /\ ~ready.picking /\ ready.preview = rested.preview
        /\ ready.crop = rested.crop
    BY <2>4, PickingOffForm
  <2> HIDE DEF ready
  <2>6. ready \in Windows
    BY <2>5 DEF InForm, Sane
  <2>7. /\ after \in Windows /\ after.masking = on
        /\ after.session = ready.session /\ after.crop = ready.crop /\ after.panel = ready.panel
        /\ after.gesture = ready.gesture /\ after.decoded = ready.decoded
        /\ after.preview = ready.preview /\ after.picking = ready.picking
    BY <2>2, <2>6, SetMasking
  <2> HIDE DEF after
  <2>8. ~after.preview
    BY <1>3, <2>3, <2>4, <2>5, <2>7 DEF Modes!editable, Rest, SameModes
  <2>9. OneMode(after)
    BY <2>4, <2>5, <2>7, <2>8 DEF OneMode
  <2> QED  BY <2>1, <2>2, <2>5, <2>7, <2>8, <2>9, ModesForm
<1> QED  BY <1>1, <1>2, <1>3

(* Entering the crop mode opens its edit. *)
LEMMA SetCropModeForm ==
    ASSUME NEW w, InForm(w), NEW cropping \in BOOLEAN
    PROVE  InForm(Modes!setCropMode(w, cropping))
<1>1. CASE ~cropping
  <2>1. Modes!setCropMode(w, cropping) = Modes!leaveCropMode(w, TRUE)
    BY <1>1, Zenon DEF Modes!setCropMode
  <2> QED  BY <2>1, CropLeft
<1>2. CASE cropping /\ (~Modes!editable(w) \/ w.crop # None)
  <2>1. Modes!setCropMode(w, cropping) = w
    BY <1>2, Zenon DEF Modes!setCropMode
  <2> QED  BY <2>1
<1>3. CASE cropping /\ ~(~Modes!editable(w) \/ w.crop # None)
  <2> DEFINE left == Modes!leaveMaskMode(w)
             rested == Modes!finishPendingEdit(left)
             ready == Modes!setPicking(rested, FALSE)
             s == Modes!begin(ready.session)
             crop == Modes!CropOf(Modes!GeometryOf(Modes!Look(ready)))
             begun == [ready EXCEPT !.session = s, !.crop = crop]
  <2>1. Modes!setCropMode(w, cropping) = Modes!letGo(begun, {"tone"})
    BY <1>3, Zenon DEF Modes!setCropMode
  <2>2. /\ InForm(left) /\ ~left.masking /\ left.gesture = "none"
        /\ left.preview = w.preview /\ left.crop = w.crop
    BY LeaveMaskModeForm
  <2> HIDE DEF left
  <2>3. /\ InForm(rested) /\ SameModes(left, rested) /\ ~Modes!Pending(rested)
        /\ rested.gesture = "none" /\ rested.crop = None
    BY <1>3, <2>2, PendingEnds
  <2> HIDE DEF rested
  <2>4. /\ InForm(ready) /\ ~ready.picking /\ ready.preview = rested.preview
        /\ ready.masking = rested.masking /\ ready.gesture = rested.gesture
        /\ ready.panel = rested.panel /\ ready.crop = rested.crop
    BY <2>3, PickingOffForm
  <2> HIDE DEF ready
  <2>5. /\ ready \in Windows /\ Kept(ready.session)
        /\ Modes!Look(ready) \in MCLooks
        /\ Modes!Look(ready) = ready.session.now.recipe.state
    BY <2>4, SaneParts DEF InForm
  <2>6. /\ Kept(s) /\ Modes!editing(s) /\ s.baseline = s.now
        /\ s.now.recipe.state = Modes!Look(ready)
    BY <2>5, BeginKept
  <2>7. Modes!GeometryOf(Modes!Look(ready)) \in Modes!Geometries
    BY <2>5, Geometry
  <2>8. /\ CropOK(crop) /\ crop.depth = 0 /\ ~crop.drag
        /\ crop.geometry = Modes!GeometryOf(Modes!Look(ready))
        /\ FirstOf(crop) = Modes!GeometryOf(Modes!Look(ready))
    BY <2>7, CropBegun
  <2> HIDE DEF s, crop
  <2>9. s \in ModeSessions /\ crop \in Crops /\ crop # None
    BY <2>6, <2>8, ModesAssumption DEF Kept, CropOK
  <2>10. /\ begun \in Windows /\ begun.session = s /\ begun.crop = crop
         /\ Rest(ready, begun)
    BY <2>5, <2>9 DEF Windows, Rest, SameModes
  <2> HIDE DEF begun
  <2>11. CropFollows(begun)
    BY <2>6, <2>8, <2>10 DEF CropFollows
  <2>12. ~begun.masking /\ ~begun.picking /\ ~begun.preview
    BY <1>3, <2>2, <2>3, <2>4, <2>10 DEF Modes!editable, Rest, SameModes
  <2>13. Sane(begun)
    <3>1. begun.panel = ready.panel /\ begun.gesture = "none"
      BY <2>3, <2>4, <2>10 DEF Rest
    <3>2. begun.panel # None /\ begun.panel.row = "straighten" => begun.panel.start \in MCLooks
      BY <2>4, <3>1 DEF InForm, Sane
    <3>3. OneMode(begun)
      BY <2>12 DEF OneMode
    <3> QED  BY <2>6, <2>10, <2>11, <3>1, <3>2, <3>3 DEF Sane
  <2>14. Owned(begun)
    BY <2>9, <2>10, <2>12 DEF Owned
  <2>15. Balanced(begun)
    <3>1. ~Modes!Pending(begun)
      BY <2>3, <2>4, <2>10 DEF Modes!Pending, Rest
    <3> QED  BY <2>8, <2>10, <3>1 DEF Balanced
  <2>16. InForm(begun)
    BY <2>13, <2>14, <2>15 DEF InForm
  <2> QED  BY <2>1, <2>16, LetGoForm
<1> QED  BY <1>1, <1>2, <1>3

(* The preview of a snapshot is closed, and nothing else changes. *)
LEMMA ClosePreviewForm ==
    ASSUME NEW w, InForm(w)
    PROVE  LET after == Modes!closePreview(w)
           IN  /\ InForm(after) /\ after.crop = w.crop
               /\ after.session = w.session /\ after.panel = w.panel
<1> DEFINE off == FALSE
           after == [w EXCEPT !.preview = off]
<1>1. Modes!closePreview(w) = after
  BY Zenon DEF Modes!closePreview
<1>2. off \in BOOLEAN /\ ~off
  OBVIOUS
<1> HIDE DEF off
<1>3. w \in Windows /\ OneMode(w)
  BY DEF InForm, Sane
<1>4. /\ after \in Windows /\ after.preview = off
      /\ after.session = w.session /\ after.crop = w.crop /\ after.panel = w.panel
      /\ after.gesture = w.gesture /\ after.decoded = w.decoded
      /\ after.masking = w.masking /\ after.picking = w.picking
  BY <1>2, <1>3, SetPreview
<1> HIDE DEF after
<1>5. OneMode(after)
  BY <1>2, <1>3, <1>4 DEF OneMode
<1>6. after.gesture # "none" => after.masking
  BY <1>4 DEF InForm, Sane
<1>7. InForm(after)
  BY <1>2, <1>4, <1>5, <1>6, ModesForm
<1> QED  BY <1>1, <1>4, <1>7

(* It is shown over no open edit and in no other mode. *)
LEMMA StartPreviewForm ==
    ASSUME NEW w, InForm(w), w.crop = None, ~w.masking
    PROVE  InForm(Modes!startPreview(w))
<1> DEFINE on == TRUE
           idle == Modes!setPicking(w, FALSE)
           ready == Modes!finishPendingEdit(idle)
           after == [ready EXCEPT !.preview = on]
<1>1. Modes!startPreview(w) = IF Modes!editing(ready.session) THEN Modes!closePreview(ready)
                              ELSE Modes!updateEditingActions(after)
  BY Zenon DEF Modes!startPreview
<1>2. /\ InForm(idle) /\ ~idle.picking /\ idle.masking = w.masking /\ idle.crop = w.crop
  BY PickingOffForm
<1>3. on \in BOOLEAN /\ on
  OBVIOUS
<1> HIDE DEF on, idle
<1>4. InForm(ready) /\ SameModes(idle, ready) /\ ready.crop = None
  BY <1>2, PendingEnds
<1> HIDE DEF ready
<1>5. CASE Modes!editing(ready.session)
  BY <1>1, <1>4, <1>5, ClosePreviewForm
<1>6. CASE ~Modes!editing(ready.session)
  <2>1. ready \in Windows
    BY <1>4 DEF InForm, Sane
  <2>2. /\ after \in Windows /\ after.preview = on
        /\ after.session = ready.session /\ after.crop = ready.crop /\ after.panel = ready.panel
        /\ after.gesture = ready.gesture /\ after.decoded = ready.decoded
        /\ after.masking = ready.masking /\ after.picking = ready.picking
    BY <1>3, <2>1, SetPreview
  <2> HIDE DEF after
  <2>3. OneMode(after)
    BY <1>2, <1>4, <2>2 DEF OneMode, SameModes
  <2>4. after.gesture # "none" => after.masking
    BY <1>4, <2>2 DEF InForm, Sane
  <2>5. InForm(after)
    BY <1>4, <1>6, <2>2, <2>3, <2>4, ModesForm
  <2> QED  BY <1>1, <1>6, <2>5, ActionsForm
<1> QED  BY <1>5, <1>6

(* What the commands that make a step of their own do first. *)
LEMMA InterruptedSane ==
    ASSUME NEW w, InForm(w), w.crop = None
    PROVE  LET after == Modes!Interrupted(w)
           IN  /\ Sane(after) /\ after.crop = None /\ SameModes(w, after)
               /\ after.gesture = "none" /\ after.session.held = w.session.held
<1> DEFINE ready == Modes!finishPendingEdit(w)
<1>1. InForm(ready) /\ ready.crop = None /\ SameModes(w, ready)
      /\ ready.session.held = w.session.held
  BY PendingEnds
<1>2. Modes!Interrupted(w) = Modes!abandonDrag(ready)
  BY DEF Modes!Interrupted
<1> HIDE DEF ready
<1> QED  BY <1>1, <1>2, AbandonSane DEF InForm, SameModes

(* A ratio or an orientation chosen: a step of the crop mode's, or an edit of its own. *)
LEMMA EditGeometryForm ==
    ASSUME NEW w, InForm(w), NEW frame \in Frames
    PROVE  InForm(Modes!editGeometry(w, frame))
<1>1. CASE w.crop # None
  <2> DEFINE geometry == [w.crop.geometry EXCEPT !.frame = frame]
             after == Modes!editCrop(w, geometry)
  <2>1. Sane(w) /\ w.crop \in Crops /\ w.crop.geometry \in Modes!Geometries
    BY <1>1, WindowParts, CropParts DEF InForm, Sane
  <2>2. geometry \in Modes!Geometries
    BY <2>1 DEF Modes!Geometries
  <2>3. Modes!editGeometry(w, frame) = after
    BY <1>1 DEF Modes!editGeometry
  <2> HIDE DEF geometry
  <2>4. Sane(after) /\ Rest(w, after) /\ SameSteps(w, after) /\ after.crop # None
    BY <1>1, <2>1, <2>2, EditCropSane
  <2> HIDE DEF after
  <2>5. Balanced(after)
    BY <2>4 DEF InForm, Balanced, Rest, SameSteps, Modes!Held, Modes!Pending
  <2>6. Owned(after)
    BY <2>4, SaneParts DEF Owned
  <2> QED  BY <2>3, <2>4, <2>5, <2>6 DEF InForm
<1>2. CASE w.crop = None
  <2> DEFINE ready == Modes!Interrupted(w)
             look == [Modes!Look(ready) EXCEPT !.frame = frame]
  <2>1. Modes!editGeometry(w, frame) = Modes!ownStep(ready, look)
    BY <1>2 DEF Modes!editGeometry
  <2>2. Sane(ready) /\ ready.crop = None
    BY <1>2, InterruptedSane
  <2> HIDE DEF ready
  <2>3. Modes!Look(ready) \in MCLooks
    BY <2>2, SaneParts
  <2>4. look \in MCLooks
    BY <2>3 DEF MCLooks
  <2> HIDE DEF look
  <2> QED  BY <2>1, <2>2, <2>4, OwnStepForm
<1> QED  BY <1>1, <1>2

(* A row of the history clicked on ends the open edits first. *)
LEMMA HistoryRowForm ==
    ASSUME NEW w, InForm(w), w.crop = None, NEW step
    PROVE  InForm(Modes!goToHistoryRow(w, step))
<1> DEFINE ready == Modes!finishPendingEdit(w)
           left == Modes!abandonDrag(ready)
           s == Modes!goTo(left.session, step)
           stale == \/ Len(ready.session.history) # Len(w.session.history)
                    \/ step = ready.session.position
<1>1. InForm(ready) /\ ready.crop = None
  BY PendingEnds
<1>2. Modes!goToHistoryRow(w, step) = IF stale THEN ready ELSE [left EXCEPT !.session = s]
  BY DEF Modes!goToHistoryRow
<1> HIDE DEF stale
<1>3. CASE stale
  BY <1>1, <1>2, <1>3
<1>4. CASE ~stale
  <2> HIDE DEF ready
  <2>1. Sane(left) /\ left.crop = None
    BY <1>1, AbandonSane DEF InForm
  <2> HIDE DEF left
  <2>2. Kept(s) /\ ~Modes!editing(s)
    BY <2>1, SaneParts, GoToKept
  <2> HIDE DEF s
  <2>3. InForm([left EXCEPT !.session = s])
    BY <2>1, <2>2, OwnForm
  <2> QED  BY <1>2, <1>4, <2>3
<1> QED  BY <1>3, <1>4

(* What asks before the photograph is left or read again does first. *)
LEMMA EndedOf ==
    ASSUME NEW w, InForm(w)
    PROVE  LET after == Modes!Ended(w)
           IN  InForm(after) /\ after.crop = None /\ after.gesture = "none"
<1> DEFINE left == Modes!leaveCropMode(w, TRUE)
           free == Modes!cancelGesture(left)
           after == Modes!finishPendingEdit(free)
<1>1. InForm(left) /\ left.crop = None
  BY CropLeft
<1>2. Modes!Ended(w) = after
  BY Zenon DEF Modes!Ended
<1> HIDE DEF left
<1>3. InForm(free) /\ free.crop = None /\ free.gesture = "none"
  BY <1>1, CancelGestureForm
<1> HIDE DEF free
<1>4. InForm(after) /\ after.crop = None /\ after.gesture = "none"
  BY <1>3, PendingEnds
<1> QED  BY <1>2, <1>4

(* A window over a photograph just opened, with the slider that is held when it opens. *)
LEMMA OpenForm ==
    ASSUME NEW contents \in Photographs, NEW decoded \in BOOLEAN
    PROVE  LET after == Modes!OpenPhoto(contents, decoded)
           IN  /\ InForm(after) /\ after.crop = None /\ after.gesture = "none"
               /\ after.panel = None /\ ~Modes!editing(after.session)
<1> DEFINE off == FALSE
           s == Modes!OpenedOn(contents)
           after == [session |-> s, decoded |-> decoded, preview |-> off, crop |-> None,
                     masking |-> off, gesture |-> "none", picking |-> off, panel |-> None]
<1>1. Modes!OpenPhoto(contents, decoded) = after
  BY Zenon DEF Modes!OpenPhoto
<1>2. off \in BOOLEAN /\ ~off
  OBVIOUS
<1>3. Kept(s) /\ ~Modes!editing(s)
  BY OpenedKept
<1> HIDE DEF off, s
<1>4. /\ after \in Windows /\ after.session = s /\ after.crop = None /\ after.panel = None
      /\ after.gesture = "none" /\ after.preview = off /\ after.masking = off
      /\ after.picking = off
  BY <1>2, <1>3 DEF Kept, Windows
<1> HIDE DEF after
<1>5. Sane(after)
  BY <1>2, <1>3, <1>4 DEF Sane, OneMode
<1>6. InForm(after)
  BY <1>3, <1>4, <1>5, EndedForm
<1> QED  BY <1>1, <1>3, <1>4, <1>6

(* Another photograph starts with no mode and no edit. *)
LEMMA ShowPhotoForm ==
    ASSUME NEW w, InForm(w), w.gesture = "none", NEW contents \in Photographs
    PROVE  InForm(Modes!showPhoto(w, contents))
<1> DEFINE no == FALSE
           closed == [w EXCEPT !.crop = None]
           unmasked == Modes!leaveMaskMode(closed)
           left == Modes!setPicking(unmasked, FALSE)
           fresh == Modes!OpenPhoto(contents, FALSE)
           after == [fresh EXCEPT !.panel = left.panel]
<1>1. Modes!showPhoto(w, contents) = Modes!updateEditingActions(after)
  BY Zenon DEF Modes!showPhoto
<1>2. left.panel = w.panel
  <2>1. /\ closed \in Windows /\ closed.panel = w.panel /\ closed.gesture = "none"
    BY SetCrop DEF InForm, Sane, Rest
  <2> HIDE DEF closed
  <2>2. unmasked \in Windows /\ unmasked.panel = closed.panel
    <3>1. CASE ~closed.masking
      BY <2>1, <3>1 DEF Modes!leaveMaskMode
    <3>2. CASE closed.masking
      <4>1. Modes!cancelGesture(closed) = closed
        BY <2>1 DEF Modes!cancelGesture
      <4>2. unmasked = [closed EXCEPT !.masking = no]
        BY <3>2, <4>1, Zenon DEF Modes!leaveMaskMode
      <4>3. no \in BOOLEAN
        OBVIOUS
      <4> HIDE DEF no
      <4> QED  BY <2>1, <4>2, <4>3, SetMasking
    <3> QED  BY <3>1, <3>2
  <2> HIDE DEF unmasked
  <2>3. left = [unmasked EXCEPT !.picking = no]
    BY Zenon DEF Modes!setPicking
  <2>4. no \in BOOLEAN
    OBVIOUS
  <2> HIDE DEF no, left
  <2> QED  BY <2>1, <2>2, <2>3, <2>4, SetPicking
<1> HIDE DEF left
<1>3. /\ InForm(fresh) /\ fresh.crop = None /\ fresh.gesture = "none"
      /\ ~Modes!editing(fresh.session)
  <2>1. no \in BOOLEAN /\ fresh = Modes!OpenPhoto(contents, no)
    BY Zenon
  <2> HIDE DEF no, fresh
  <2> QED  BY <2>1, OpenForm
<1> HIDE DEF fresh
<1>4. fresh \in Windows /\ w.panel \in Panels \cup {None}
  BY <1>3, WindowParts DEF InForm, Sane
<1>5. /\ after \in Windows /\ after.panel = w.panel /\ after.session = fresh.session
      /\ after.crop = None /\ after.gesture = "none" /\ SameModes(fresh, after)
  BY <1>2, <1>3, <1>4, SetPanel
<1> HIDE DEF after
<1>6. Sane(after)
  <2>1. w.panel # None /\ w.panel.row = "straighten" => w.panel.start \in MCLooks
    BY DEF InForm, Sane
  <2>2. Kept(fresh.session) /\ OneMode(fresh)
    BY <1>3 DEF InForm, Sane
  <2> QED  BY <1>5, <2>1, <2>2 DEF Sane, OneMode, SameModes
<1>7. InForm(after)
  BY <1>3, <1>5, <1>6, EndedForm
<1> QED  BY <1>1, <1>7, ActionsForm

(* A file read again starts the session over, without an edit. *)
LEMMA SidecarChangedForm ==
    ASSUME NEW w, InForm(w), NEW contents \in Photographs
    PROVE  InForm(Modes!sidecarChangedOnDisk(w, contents))
<1> DEFINE off == FALSE
           ended == Modes!Ended(w)
           s == Modes!OpenedOn(contents)
           after == [ended EXCEPT !.session = s, !.preview = off]
<1>1. Modes!sidecarChangedOnDisk(w, contents) =
         IF Modes!hasUnsavedChanges(ended.session) THEN ended
         ELSE Modes!updateEditingActions(after)
  BY Zenon DEF Modes!sidecarChangedOnDisk
<1>2. InForm(ended) /\ ended.crop = None /\ ended.gesture = "none"
  BY EndedOf
<1>3. Kept(s) /\ ~Modes!editing(s) /\ off \in BOOLEAN /\ ~off
  BY OpenedKept
<1> HIDE DEF off, ended, s
<1>4. ended \in Windows /\ s \in ModeSessions
  BY <1>2, <1>3 DEF InForm, Sane, Kept
<1>5. /\ after \in Windows /\ after.session = s /\ after.preview = off
      /\ after.crop = ended.crop /\ after.panel = ended.panel /\ after.gesture = ended.gesture
      /\ after.masking = ended.masking /\ after.picking = ended.picking
  BY <1>3, <1>4 DEF Windows
<1> HIDE DEF after
<1>6. Sane(after)
  BY <1>2, <1>3, <1>5 DEF InForm, Sane, OneMode
<1>7. InForm(after)
  BY <1>2, <1>3, <1>5, <1>6, EndedForm
<1>8. InForm(Modes!updateEditingActions(after))
  BY <1>7, ActionsForm
<1> QED  BY <1>1, <1>2, <1>8

-----------------------------------------------------------------------------
(* Undo and redo of the crop mode's steps, and of the photograph's. *)
LEMMA CropBackForm ==
    ASSUME NEW w, InForm(w), w.crop # None, NEW crop, CropOK(crop),
           \/ crop.depth = w.crop.depth
           \/ crop.depth = 0 /\ ~w.crop.drag /\ ~Modes!Pending(w),
           crop.drag = w.crop.drag, FirstOf(crop) = FirstOf(w.crop)
    PROVE  InForm(Modes!changed([w EXCEPT !.crop = crop]))
<1> DEFINE before == [w EXCEPT !.crop = crop]
           after == Modes!changed(before)
<1>1. /\ w \in Windows /\ Sane(w) /\ Kept(w.session) /\ Modes!editing(w.session)
      /\ CropFollows(w)
  BY SaneParts DEF InForm
<1>2. crop \in Crops /\ crop # None
  BY ModesAssumption DEF CropOK
<1>3. /\ before \in Windows /\ before.crop = crop /\ before.session = w.session
      /\ Rest(w, before)
  BY <1>1, <1>2, SetCrop
<1> HIDE DEF before
<1>4. /\ after \in Windows /\ Rest(before, after) /\ after.crop = crop
      /\ Kept(after.session) /\ Modes!editing(after.session)
      /\ after.session.baseline = w.session.baseline
      /\ Modes!GeometryOf(after.session.now.recipe.state) = crop.geometry
  BY <1>1, <1>2, <1>3, ChangedFollows
<1> HIDE DEF after
<1>5. Rest(w, after)
  BY <1>3, <1>4 DEF Rest, SameModes
<1>6. CropFollows(after)
  BY <1>1, <1>4 DEF CropFollows, CropOK
<1>7. Sane(after)
  BY <1>1, <1>2, <1>4, <1>5, <1>6, SaneWith
<1>8. Owned(after)
  BY <1>2, <1>4, <1>7, SaneParts DEF Owned
<1>9. Balanced(after)
  BY <1>4, <1>5 DEF InForm, Balanced, Rest, Modes!Held, Modes!Pending
<1> QED  BY <1>7, <1>8, <1>9 DEF InForm, after, before

(* Undo and redo: among the steps of the crop mode there, else in the history. *)
LEMMA UndoneForm ==
    ASSUME NEW w, InForm(w)
    PROVE  InForm(Modes!Undone(w)) /\ InForm(Modes!Redone(w))
<1> DEFINE ready == Modes!finishPendingEdit(w)
           left == Modes!abandonDrag(ready)
<1>1. /\ InForm(ready) /\ ~Modes!Pending(ready)
      /\ ready.crop = None <=> w.crop = None
      /\ w.crop # None => ready.crop.drag = w.crop.drag
  BY PendingEnds
<1>2. CASE w.crop = None
  <2> DEFINE back == Modes!undo(left.session)
             forth == Modes!redo(left.session)
  <2>1. /\ Modes!Undone(w) = [left EXCEPT !.session = back]
        /\ Modes!Redone(w) = [left EXCEPT !.session = forth]
    BY <1>2 DEF Modes!Undone, Modes!Redone
  <2> HIDE DEF ready
  <2>2. Sane(left) /\ left.crop = None
    BY <1>1, <1>2, AbandonSane DEF InForm
  <2> HIDE DEF left
  <2>3. Kept(back) /\ ~Modes!editing(back) /\ Kept(forth) /\ ~Modes!editing(forth)
    BY <2>2, SaneParts, GoToKept DEF Modes!undo, Modes!redo
  <2> HIDE DEF back, forth
  <2> QED  BY <2>1, <2>2, <2>3, OwnForm
<1>3. CASE w.crop # None /\ w.crop.drag
  BY <1>1, <1>3 DEF Modes!Undone, Modes!Redone
<1>4. CASE w.crop # None /\ ~w.crop.drag
  <2> DEFINE back == Modes!cropUndo(ready.crop)
             forth == Modes!cropRedo(ready.crop)
  <2>1. /\ Modes!Undone(w) = Modes!changed([ready EXCEPT !.crop = back])
        /\ Modes!Redone(w) = Modes!changed([ready EXCEPT !.crop = forth])
    BY <1>4 DEF Modes!Undone, Modes!Redone
  <2> HIDE DEF ready
  <2>2. CropOK(ready.crop) /\ ready.crop # None /\ ~ready.crop.drag
    BY <1>1, <1>4, SaneParts DEF InForm
  <2>3. CropOK(back) /\ back.depth = 0 /\ back.drag = ready.crop.drag
        /\ FirstOf(back) = FirstOf(ready.crop)
    BY <2>2, CropUndone
  <2>4. CropOK(forth) /\ forth.depth = ready.crop.depth /\ forth.drag = ready.crop.drag
        /\ FirstOf(forth) = FirstOf(ready.crop)
    BY <2>2, CropRedone
  <2> HIDE DEF back, forth
  <2>5. InForm(Modes!changed([ready EXCEPT !.crop = back]))
    BY <1>1, <2>2, <2>3, CropBackForm
  <2>6. InForm(Modes!changed([ready EXCEPT !.crop = forth]))
    BY <1>1, <2>2, <2>4, CropBackForm
  <2> QED  BY <2>1, <2>5, <2>6
<1> QED  BY <1>2, <1>3, <1>4

-----------------------------------------------------------------------------
(* A slider begins its edit. *)

LEMMA Editable ==
    ASSUME NEW row \in Modes!Rows
    PROVE  Modes!editable(window) /\ row \in {"tone", "straighten"}
BY DEF Modes!Rows

(* A slider or a nudge begins its edit when no drag is under way. *)
LEMMA BeginsForm ==
    ASSUME InForm(window), NEW row \in Modes!Rows, NEW how \in {"held", "pending"},
           Modes!MouseIsFree
    PROVE  LET after == Modes!BeginsIn(window, row, how)
           IN  InForm(after) /\ after.panel # None
<1> DEFINE ready == Modes!finishPendingEdit(window)
           start == IF row = "tone" THEN None ELSE Modes!Look(ready)
           panel == [row |-> row, how |-> how, start |-> start]
           before == [ready EXCEPT !.panel = panel]
           after == Modes!beginEdit(before)
<1>1. /\ InForm(ready) /\ SameModes(window, ready)
      /\ ~Modes!Pending(ready) /\ ready.panel \in {window.panel, None}
      /\ ready.crop = None <=> window.crop = None
      /\ window.crop # None => ready.crop.drag = window.crop.drag
  BY PendingEnds
<1>2. Modes!BeginsIn(window, row, how) = after
  BY DEF Modes!BeginsIn
<1>3. /\ ~Modes!Held(window)
      /\ window.crop # None => ~window.crop.drag
  BY DEF Modes!MouseIsFree, Modes!Dragging, Modes!Cropping
<1>4. ~window.preview /\ row \in {"tone", "straighten"}
  BY Editable DEF Modes!editable
<1> HIDE DEF ready
<1>5. Sane(ready) /\ Balanced(ready) /\ Modes!Look(ready) \in MCLooks
  BY <1>1, SaneParts DEF InForm
<1>6. ready.panel = None
  <2>1. CASE ready.panel # None
    <3>1. Modes!Held(ready)
      BY <1>1, <1>5, <2>1, PanelKinds
    <3> QED  BY <1>1, <1>3, <2>1, <3>1 DEF Modes!Held
  <2> QED  BY <2>1
<1>7. ready.crop # None => ready.crop.depth = 0 /\ ~ready.crop.drag
  BY <1>1, <1>3, <1>5, <1>6 DEF Balanced
<1>8. start \in MCLooks \cup {None} /\ (row = "straighten" => start \in MCLooks)
  BY <1>4, <1>5
<1> HIDE DEF start
<1>9. /\ panel \in Panels /\ panel # None /\ panel.row = row /\ panel.how = how
      /\ panel.start = start
  <2>1. panel \in Panels /\ panel.row = row /\ panel.how = how /\ panel.start = start
    BY <1>4, <1>8 DEF Panels
  <2> QED  BY <2>1, ModesAssumption
<1> HIDE DEF panel
<1>10. /\ before \in Windows /\ before.panel = panel /\ before.session = ready.session
       /\ before.crop = ready.crop /\ before.gesture = ready.gesture
       /\ SameModes(ready, before)
  BY <1>5, <1>9, SetPanel DEF Sane
<1> HIDE DEF before
<1>11. Sane(before)
  BY <1>5, <1>8, <1>9, <1>10 DEF Sane, SameModes, OneMode, CropFollows
<1>12. /\ Sane(after) /\ Rest(before, after) /\ Modes!editing(after.session)
       /\ after.crop = None <=> before.crop = None
       /\ before.crop # None => /\ after.crop.depth = before.crop.depth + 1
                                /\ after.crop.drag = before.crop.drag
  BY <1>11, BeginEditSane
<1> HIDE DEF after
<1>13. after.panel = panel /\ ~after.preview
  BY <1>1, <1>4, <1>10, <1>12 DEF Rest, SameModes
<1>14. Owned(after)
  BY <1>9, <1>13 DEF Owned
<1>15. Balanced(after)
  <2> SUFFICES ASSUME after.crop # None
               PROVE  after.crop.depth = 1 /\ ~after.crop.drag
    BY <1>9, <1>13 DEF Balanced, Modes!Held, Modes!Pending
  <2> QED  BY <1>7, <1>10, <1>12
<1> QED  BY <1>2, <1>9, <1>12, <1>13, <1>14, <1>15 DEF InForm

(* What a slider asks for is a look. *)
LEMMA AskedLooks ==
    ASSUME NEW w, Sane(w), w.panel # None, NEW look \in Modes!AskedBy(w)
    PROVE  look \in MCLooks
<1>1. Modes!Look(w) \in MCLooks
  BY SaneParts
<1>2. CASE w.panel.row = "tone"
  BY <1>1, <1>2 DEF Modes!AskedBy, MCLooks
<1>3. CASE w.panel.row # "tone"
  <2>1. w.panel.start \in MCLooks
    BY <1>3, PanelKinds DEF Sane
  <2> QED  BY <1>3, <2>1 DEF Modes!AskedBy, MCLooks
<1> QED  BY <1>2, <1>3

(* Every step of the sliders keeps the form. *)
LEMMA SliderActions ==
    ASSUME InForm(window),
           \/ Modes!PressSlider \/ Modes!MoveSlider \/ Modes!ReleaseSlider
           \/ Modes!Nudge \/ Modes!NudgesPause
    PROVE  InForm(window')
<1>1. CASE Modes!PressSlider
  <2>1. PICK row \in Modes!Rows :
           Modes!MouseIsFree /\ window' = Modes!BeginsIn(window, row, "held")
    BY <1>1 DEF Modes!PressSlider, Modes!Becomes
  <2>2. "held" \in {"held", "pending"}
    OBVIOUS
  <2> QED  BY <2>1, <2>2, BeginsForm
<1>2. CASE Modes!MoveSlider
  <2>1. PICK look \in Modes!AskedBy(window) : window' = Modes!updateEdit(window, look)
    BY <1>2 DEF Modes!MoveSlider, Modes!Becomes
  <2>2. window.panel # None
    BY <1>2 DEF Modes!MoveSlider, Modes!Held
  <2>3. look \in MCLooks
    BY <2>2, AskedLooks DEF InForm
  <2> QED  BY <2>1, <2>3, UpdateEditForm
<1>3. CASE Modes!ReleaseSlider
  <2>1. window.panel # None /\ window' = Modes!finishEdit([window EXCEPT !.panel = None])
    BY <1>3 DEF Modes!ReleaseSlider, Modes!Becomes, Modes!Held
  <2> QED  BY <2>1, PanelEnds
<1>4. CASE Modes!Nudge
  <2>1. PICK row \in Modes!Rows :
           LET goesOn == Modes!Pending(window) /\ window.panel.row = row
               begun == IF goesOn THEN window ELSE Modes!BeginsIn(window, row, "pending")
           IN  /\ Modes!MouseIsFree
               /\ \E look \in Modes!AskedBy(begun) : window' = Modes!updateEdit(begun, look)
    BY <1>4 DEF Modes!Nudge, Modes!Becomes
  <2> DEFINE goesOn == Modes!Pending(window) /\ window.panel.row = row
             begun == IF goesOn THEN window ELSE Modes!BeginsIn(window, row, "pending")
  <2>2. Modes!MouseIsFree /\ \E look \in Modes!AskedBy(begun) : window' = Modes!updateEdit(begun, look)
    BY <2>1
  <2>3. InForm(begun) /\ begun.panel # None
    <3>1. CASE goesOn
      BY <3>1 DEF Modes!Pending
    <3>2. CASE ~goesOn
      <4>1. "pending" \in {"held", "pending"}
        OBVIOUS
      <4>2. begun = Modes!BeginsIn(window, row, "pending")
        BY <3>2
      <4> HIDE DEF begun
      <4> QED  BY <2>2, <4>1, <4>2, BeginsForm
    <3> QED  BY <3>1, <3>2
  <2> HIDE DEF begun
  <2>4. PICK look \in Modes!AskedBy(begun) : window' = Modes!updateEdit(begun, look)
    BY <2>2
  <2>5. look \in MCLooks
    BY <2>3, AskedLooks DEF InForm
  <2> QED  BY <2>3, <2>4, <2>5, UpdateEditForm
<1>5. CASE Modes!NudgesPause
  BY <1>5, PendingEnds DEF Modes!NudgesPause, Modes!Becomes
<1> QED  BY <1>1, <1>2, <1>3, <1>4, <1>5

-----------------------------------------------------------------------------
(* Gestures on a mask, and the picker. *)

(* A gesture begins its edit. *)
LEMMA GestureBegins ==
    ASSUME InForm(window), window.masking, NEW gesture \in {"shape", "stroke"}
    PROVE  InForm(Modes!beginEdit([window EXCEPT !.gesture = gesture]))
<1> DEFINE before == [window EXCEPT !.gesture = gesture]
           after == Modes!beginEdit(before)
<1>1. Sane(window) /\ window.crop = None /\ ~window.preview
  BY DEF InForm, Sane, OneMode
<1>2. gesture \in {"none", "shape", "stroke"} /\ gesture # "none"
  OBVIOUS
<1>3. /\ before \in Windows /\ before.gesture = gesture /\ before.session = window.session
      /\ before.crop = window.crop /\ before.panel = window.panel
      /\ SameModes(window, before)
  BY <1>1, <1>2, SetGesture DEF Sane
<1> HIDE DEF before
<1>4. Sane(before)
  BY <1>1, <1>3 DEF Sane, SameModes, OneMode
<1>5. /\ Sane(after) /\ Rest(before, after)
      /\ after.crop = None <=> before.crop = None
  BY <1>4, BeginEditSane
<1> HIDE DEF after
<1>6. Owned(after) /\ Balanced(after)
  BY <1>1, <1>2, <1>3, <1>5 DEF Owned, Balanced, Rest, SameModes
<1> QED  BY <1>5, <1>6 DEF InForm, after, before

(* A look with another tone is a look. *)
LEMMA OtherTone ==
    ASSUME NEW w, Sane(w), NEW tone \in Tones
    PROVE  [Modes!Look(w) EXCEPT !.tone = tone] \in MCLooks
BY SaneParts DEF MCLooks

(* So does every step on a mask, and the picking of a neutral. *)
LEMMA MaskActions ==
    ASSUME InForm(window),
           \/ Modes!PressOnMask \/ Modes!DragOnMask \/ Modes!ReleaseOnMask
           \/ Modes!LoseGesture \/ Modes!DeleteMask \/ Modes!PickNeutral
    PROVE  InForm(window')
<1> USE DEF Modes!Becomes
<1>1. CASE Modes!PressOnMask
  <2> DEFINE shaped == Modes!beginEdit([window EXCEPT !.gesture = "shape"])
             begun == Modes!beginEdit([window EXCEPT !.gesture = "stroke"])
  <2>1. /\ window.masking
        /\ \/ window' = shaped
           \/ \E tone \in Tones :
                 window' = Modes!updateEdit(begun, [Modes!Look(begun) EXCEPT !.tone = tone])
    BY <1>1 DEF Modes!PressOnMask
  <2>2. "shape" \in {"shape", "stroke"} /\ "stroke" \in {"shape", "stroke"}
    OBVIOUS
  <2>3. InForm(shaped) /\ InForm(begun)
    BY <2>1, <2>2, GestureBegins
  <2> HIDE DEF shaped, begun
  <2>4. ASSUME NEW tone \in Tones
        PROVE  InForm(Modes!updateEdit(begun, [Modes!Look(begun) EXCEPT !.tone = tone]))
    <3> DEFINE look == [Modes!Look(begun) EXCEPT !.tone = tone]
    <3>1. look \in MCLooks
      BY <2>3, OtherTone DEF InForm
    <3> HIDE DEF look
    <3>2. InForm(Modes!updateEdit(begun, look))
      BY <2>3, <3>1, UpdateEditForm
    <3> QED  BY <3>2 DEF look
  <2> QED  BY <2>1, <2>3, <2>4
<1>2. CASE Modes!DragOnMask
  <2>1. PICK tone \in Tones :
           window' = Modes!updateEdit(window, [Modes!Look(window) EXCEPT !.tone = tone])
    BY <1>2 DEF Modes!DragOnMask
  <2> DEFINE look == [Modes!Look(window) EXCEPT !.tone = tone]
  <2>2. look \in MCLooks
    BY OtherTone DEF InForm
  <2>3. window' = Modes!updateEdit(window, look)
    BY <2>1
  <2> HIDE DEF look
  <2> QED  BY <2>2, <2>3, UpdateEditForm
<1>3. CASE Modes!ReleaseOnMask
  <2> DEFINE left == Modes!abandonDrag(window)
             after == Modes!finishEdit(left)
  <2>1. window.gesture # "none" /\ window' = after
    BY <1>3 DEF Modes!ReleaseOnMask
  <2>2. Sane(left) /\ left.crop = None
    BY <2>1, SaneParts, AbandonSane DEF InForm
  <2> HIDE DEF left
  <2>3. Sane(after) /\ after.crop = None /\ ~Modes!editing(after.session)
    BY <2>2, FinishEditSane
  <2> HIDE DEF after
  <2> QED  BY <2>1, <2>3, EndedForm
<1>4. CASE Modes!LoseGesture
  <2>1. window' = Modes!cancelGesture(window)
    BY <1>4 DEF Modes!LoseGesture
  <2> QED  BY <2>1, CancelGestureForm
<1>5. CASE Modes!DeleteMask
  <2> DEFINE begun == Modes!beginEdit(window)
  <2>1. window.masking /\ \E tone \in Tones :
           window' = Modes!finishEdit(
                         Modes!updateEdit(begun, [Modes!Look(begun) EXCEPT !.tone = tone]))
    BY <1>5 DEF Modes!DeleteMask
  <2>2. Sane(begun) /\ begun.crop = None
    BY <2>1, SaneParts, BeginEditSane DEF InForm
  <2> HIDE DEF begun
  <2>3. PICK tone \in Tones :
           window' = Modes!finishEdit(
                         Modes!updateEdit(begun, [Modes!Look(begun) EXCEPT !.tone = tone]))
    BY <2>1
  <2> DEFINE look == [Modes!Look(begun) EXCEPT !.tone = tone]
             during == Modes!updateEdit(begun, look)
             after == Modes!finishEdit(during)
  <2>4. look \in MCLooks
    BY <2>2, OtherTone
  <2>5. window' = after
    BY <2>3
  <2> HIDE DEF look
  <2>6. Sane(during) /\ during.crop = None
    BY <2>2, <2>4, UpdateEditSane DEF SameSteps
  <2> HIDE DEF during
  <2>7. Sane(after) /\ after.crop = None /\ ~Modes!editing(after.session)
    BY <2>6, FinishEditSane
  <2> HIDE DEF after
  <2> QED  BY <2>5, <2>7, EndedForm
<1>6. CASE Modes!PickNeutral
  <2> DEFINE idle == Modes!setPicking(window, FALSE)
             ready == Modes!finishPendingEdit(idle)
  <2>1. /\ window.picking
        /\ \E tone \in Tones :
              window' = Modes!ownStep(ready, [Modes!Look(ready) EXCEPT !.tone = tone])
    BY <1>6, Zenon DEF Modes!PickNeutral
  <2>2. InForm(idle) /\ idle.crop = None
    <3>1. window.crop = None
      BY <2>1, SaneParts DEF InForm
    <3>2. InForm(idle) /\ idle.crop = window.crop
      BY PickingOffForm
    <3> QED  BY <3>1, <3>2
  <2> HIDE DEF idle
  <2>3. Sane(ready) /\ ready.crop = None
    BY <2>2, PendingEnds DEF InForm
  <2> HIDE DEF ready
  <2>4. PICK tone \in Tones :
           window' = Modes!ownStep(ready, [Modes!Look(ready) EXCEPT !.tone = tone])
    BY <2>1
  <2> DEFINE look == [Modes!Look(ready) EXCEPT !.tone = tone]
  <2>5. look \in MCLooks
    BY <2>3, OtherTone
  <2>6. window' = Modes!ownStep(ready, look)
    BY <2>4
  <2> HIDE DEF look
  <2> QED  BY <2>3, <2>5, <2>6, OwnStepForm
<1> QED  BY <1>1, <1>2, <1>3, <1>4, <1>5, <1>6

-----------------------------------------------------------------------------
(* The crop overlay. *)

LEMMA SetDrag ==
    ASSUME NEW crop, CropOK(crop), NEW drag \in BOOLEAN
    PROVE  LET after == [crop EXCEPT !.drag = drag]
           IN  /\ CropOK(after) /\ after.drag = drag /\ after.depth = crop.depth
               /\ after.geometry = crop.geometry /\ FirstOf(after) = FirstOf(crop)
<1> DEFINE after == [crop EXCEPT !.drag = drag]
<1>1. /\ after \in Crops /\ after.drag = drag /\ after.depth = crop.depth
      /\ after.geometry = crop.geometry /\ after.undo = crop.undo
      /\ after.stepStart = crop.stepStart
  BY DEF CropOK, Crops
<1> HIDE DEF after
<1>2. CropOK(after) /\ FirstOf(after) = FirstOf(crop)
  BY <1>1 DEF CropOK, FirstOf
<1> QED  BY <1>1, <1>2 DEF after

(* Steps of the overlay that keep their number right. *)
LEMMA StepsForm ==
    ASSUME InForm(window), window.crop # None, NEW crop, CropOK(crop),
           crop.geometry = window.crop.geometry, FirstOf(crop) = FirstOf(window.crop),
           window.panel = None => crop.depth = IF crop.drag THEN 1 ELSE 0,
           Modes!Held(window) => ~crop.drag /\ crop.depth \in {0, 1},
           Modes!Pending(window) => crop.depth = IF crop.drag THEN 2 ELSE 1
    PROVE  InForm([window EXCEPT !.crop = crop])
<1> DEFINE after == [window EXCEPT !.crop = crop]
<1>1. Sane(window)
  BY DEF InForm
<1>2. Sane(after) /\ Rest(window, after) /\ after.crop = crop /\ after.crop # None
  BY <1>1, StepsSane
<1> HIDE DEF after
<1>3. Owned(after)
  BY <1>2, SaneParts DEF Owned
<1>4. Balanced(after)
  BY <1>2 DEF Balanced, Rest, Modes!Held, Modes!Pending
<1> QED  BY <1>2, <1>3, <1>4 DEF InForm, after

(* So does every step on the crop overlay. *)
LEMMA CropActions ==
    ASSUME InForm(window),
           \/ Modes!PressOnCrop \/ Modes!DragOnCrop \/ Modes!ReleaseOnCrop
           \/ Modes!EditGeometry
    PROVE  InForm(window')
<1> USE DEF Modes!Becomes
<1>1. window.crop # None => CropOK(window.crop) /\ Sane(window) /\ window.crop.depth \in Nat
  BY SaneParts, CropParts DEF InForm, CropOK
<1>2. window.panel # None => Modes!Held(window) \/ Modes!Pending(window)
  BY PanelKinds DEF InForm
<1>3. CASE Modes!PressOnCrop
  <2> DEFINE on == TRUE
             begun == Modes!beginStep(window.crop)
             crop == [begun EXCEPT !.drag = on]
  <2>1. window.crop # None /\ window' = [window EXCEPT !.crop = crop]
    BY <1>3, Zenon DEF Modes!PressOnCrop, Modes!Cropping
  <2>2. ~Modes!Held(window) /\ ~window.crop.drag
    BY <1>3 DEF Modes!PressOnCrop, Modes!MouseIsFree, Modes!Dragging, Modes!Cropping
  <2>3. on \in BOOLEAN /\ on
    OBVIOUS
  <2> HIDE DEF on
  <2>4. /\ CropOK(begun) /\ begun.depth = window.crop.depth + 1
        /\ begun.geometry = window.crop.geometry /\ FirstOf(begun) = FirstOf(window.crop)
    BY <1>1, <2>1, BeginStep
  <2> HIDE DEF begun
  <2>5. /\ CropOK(crop) /\ crop.drag = on /\ crop.depth = begun.depth
        /\ crop.geometry = begun.geometry /\ FirstOf(crop) = FirstOf(begun)
    BY <2>3, <2>4, SetDrag
  <2> HIDE DEF crop
  <2>6. /\ window.panel = None => crop.depth = 1
        /\ Modes!Pending(window) => crop.depth = 2
    BY <1>1, <2>1, <2>2, <2>4, <2>5 DEF InForm, Balanced
  <2>7. InForm([window EXCEPT !.crop = crop])
    BY <1>1, <2>1, <2>2, <2>3, <2>4, <2>5, <2>6, StepsForm
  <2> QED  BY <2>1, <2>7
<1>4. CASE Modes!DragOnCrop
  <2>1. window.crop # None /\ window.crop.drag
    BY <1>4 DEF Modes!DragOnCrop, Modes!Dragging, Modes!Cropping
  <2>2. PICK geometry \in Modes!Geometries :
           window' = Modes!changed([window EXCEPT !.crop.geometry = geometry])
    BY <1>4 DEF Modes!DragOnCrop
  <2> DEFINE crop == [window.crop EXCEPT !.geometry = geometry]
  <2>3. window' = Modes!changed([window EXCEPT !.crop = crop])
    BY <2>2
  <2>4. window.crop.depth > 0
    BY <1>1, <1>2, <2>1 DEF InForm, Balanced
  <2>5. /\ CropOK(crop) /\ crop.depth = window.crop.depth /\ crop.drag = window.crop.drag
        /\ FirstOf(crop) = FirstOf(window.crop)
    BY <1>1, <2>1, <2>4, GeometryInStep
  <2> HIDE DEF crop
  <2> QED  BY <2>1, <2>3, <2>5, CropBackForm
<1>5. CASE Modes!ReleaseOnCrop
  <2> DEFINE off == FALSE
             ended == Modes!endStep(window.crop)
             crop == [ended EXCEPT !.drag = off]
  <2>1. window.crop # None /\ window.crop.drag
    BY <1>5 DEF Modes!ReleaseOnCrop, Modes!Dragging, Modes!Cropping
  <2>2. window' = [window EXCEPT !.crop = crop]
    BY <1>5, Zenon DEF Modes!ReleaseOnCrop
  <2>3. off \in BOOLEAN /\ ~off
    OBVIOUS
  <2> HIDE DEF off
  <2>4. /\ CropOK(ended)
        /\ ended.depth = (IF window.crop.depth = 0 THEN 0 ELSE window.crop.depth - 1)
        /\ ended.geometry = window.crop.geometry /\ FirstOf(ended) = FirstOf(window.crop)
    BY <1>1, <2>1, EndStep
  <2> HIDE DEF ended
  <2>5. /\ CropOK(crop) /\ crop.drag = off /\ crop.depth = ended.depth
        /\ crop.geometry = ended.geometry /\ FirstOf(crop) = FirstOf(ended)
    BY <2>3, <2>4, SetDrag
  <2> HIDE DEF crop
  <2>6. /\ ~Modes!Held(window)
        /\ window.panel = None => crop.depth = 0
        /\ Modes!Pending(window) => crop.depth = 1
    BY <1>1, <2>1, <2>4, <2>5 DEF InForm, Balanced
  <2>7. InForm([window EXCEPT !.crop = crop])
    BY <1>1, <2>1, <2>3, <2>4, <2>5, <2>6, StepsForm
  <2> QED  BY <2>2, <2>7
<1>6. CASE Modes!EditGeometry
  BY <1>6, EditGeometryForm DEF Modes!EditGeometry
<1> QED  BY <1>3, <1>4, <1>5, <1>6

-----------------------------------------------------------------------------
(* Keys and menus, and what happens to the window. *)

LEMMA ModeActions ==
    ASSUME InForm(window),
           \/ Modes!SetMaskMode \/ Modes!SetPicking \/ Modes!SetCropMode \/ Modes!FinishCrop
           \/ Modes!Undo \/ Modes!Redo \/ Modes!GoToHistoryRow \/ Modes!PasteSettings
           \/ Modes!StartPreview \/ Modes!ClosePreview
    PROVE  InForm(window')
<1> USE DEF Modes!Becomes
<1>1. CASE Modes!SetMaskMode
  BY <1>1, SetMaskModeForm DEF Modes!SetMaskMode
<1>2. CASE Modes!SetPicking
  BY <1>2, SetPickingForm DEF Modes!SetPicking
<1>3. CASE Modes!SetCropMode
  BY <1>3, SetCropModeForm DEF Modes!SetCropMode
<1>4. CASE Modes!FinishCrop
  BY <1>4, LeaveCropModeForm DEF Modes!FinishCrop
<1>5. CASE Modes!Undo
  BY <1>5, UndoneForm DEF Modes!Undo
<1>6. CASE Modes!Redo
  BY <1>6, UndoneForm DEF Modes!Redo
<1>7. CASE Modes!GoToHistoryRow
  BY <1>7, HistoryRowForm DEF Modes!GoToHistoryRow, Modes!Cropping
<1>8. CASE Modes!PasteSettings
  <2>1. PICK look \in MCLooks : window' = Modes!ownStep(Modes!Interrupted(window), look)
    BY <1>8 DEF Modes!PasteSettings, Modes!Looks, MCLooks
  <2>2. window.crop = None
    BY <1>8 DEF Modes!PasteSettings, Modes!Cropping
  <2>3. Sane(Modes!Interrupted(window)) /\ Modes!Interrupted(window).crop = None
    BY <2>2, InterruptedSane
  <2> QED  BY <2>1, <2>3, OwnStepForm
<1>9. CASE Modes!StartPreview
  BY <1>9, StartPreviewForm DEF Modes!StartPreview, Modes!Cropping
<1>10. CASE Modes!ClosePreview
  BY <1>10, ClosePreviewForm DEF Modes!ClosePreview
<1> QED  BY <1>1, <1>2, <1>3, <1>4, <1>5, <1>6, <1>7, <1>8, <1>9, <1>10

(* The snapshots listed hold looks. *)
LEMMA HeldLooks ==
    ASSUME NEW w, Sane(w), NEW id \in Modes!Ids(w.session.held)
    PROVE  id \in MaybeId /\ w.session.held.entries[id].recipe \in LookRecipe
<1>1. PICK contents \in Photographs : w.session.held = contents.snapshots
  BY SaneParts DEF ModeSessions
<1>2. id \in Ids(contents.snapshots)
  BY <1>1 DEF Modes!Ids, Ids, Modes!SnapshotId, SnapshotId
<1>3. contents.snapshots.entries[id].recipe \in LookRecipe
  BY <1>2, ModesAssumption
<1>4. id \in MaybeId
  BY DEF Modes!Ids, Modes!SnapshotId, MaybeId, SnapshotId
<1> QED  BY <1>1, <1>3, <1>4

(* And what happens to the session: restored, saved, changed on disk, left. *)
LEMMA SessionActions ==
    ASSUME InForm(window),
           \/ Modes!RestoreSnapshot \/ Modes!Save \/ Modes!SidecarChanges
           \/ Modes!Leave \/ Modes!PixelsLand
    PROVE  InForm(window')
<1> USE DEF Modes!Becomes
<1>1. CASE Modes!RestoreSnapshot
  <2> DEFINE closed == Modes!closePreview(window)
             ready == Modes!Interrupted(closed)
  <2>1. PICK id \in Modes!Ids(window.session.held) :
           window' = [ready EXCEPT !.session = Modes!restoreSnapshot(@, id, @.held.entries[id])]
    BY <1>1 DEF Modes!RestoreSnapshot
  <2>2. window.crop = None
    BY <1>1 DEF Modes!RestoreSnapshot, Modes!Cropping
  <2>3. InForm(closed) /\ closed.crop = None /\ closed.session = window.session
    BY <2>2, ClosePreviewForm
  <2> HIDE DEF closed
  <2>4. Sane(ready) /\ ready.crop = None /\ ready.session.held = window.session.held
    BY <2>3, InterruptedSane
  <2> HIDE DEF ready
  <2> DEFINE snapshot == ready.session.held.entries[id]
             s == Modes!restoreSnapshot(ready.session, id, snapshot)
  <2>5. window' = [ready EXCEPT !.session = s]
    BY <2>1
  <2>6. id \in MaybeId /\ snapshot.recipe \in LookRecipe
    BY <2>4, HeldLooks DEF InForm
  <2> HIDE DEF snapshot
  <2>7. Kept(s) /\ ~Modes!editing(s)
    BY <2>4, <2>6, SaneParts, RestoreKept
  <2> HIDE DEF s
  <2> QED  BY <2>4, <2>5, <2>7, OwnForm
<1>2. CASE Modes!Save
  <2> DEFINE left == Modes!leaveCropMode(window, TRUE)
             ready == Modes!finishPendingEdit(left)
             s == Modes!Saved(ready.session, TRUE)
  <2>1. window' = [ready EXCEPT !.session = s]
    BY <1>2, Zenon DEF Modes!Save
  <2>2. InForm(left) /\ left.crop = None
    BY CropLeft
  <2> HIDE DEF left
  <2>3. Sane(ready) /\ ready.crop = None
    BY <2>2, PendingEnds DEF InForm
  <2> HIDE DEF ready
  <2>4. Kept(s) /\ ~Modes!editing(s)
    BY <2>3, SaneParts, SavedKept
  <2> HIDE DEF s
  <2> QED  BY <2>1, <2>3, <2>4, OwnForm
<1>3. CASE Modes!SidecarChanges
  BY <1>3, SidecarChangedForm DEF Modes!SidecarChanges
<1>4. CASE Modes!Leave
  BY <1>4, EndedOf, ShowPhotoForm DEF Modes!Leave
<1>5. CASE Modes!PixelsLand
  <2> DEFINE on == TRUE
             after == [window EXCEPT !.decoded = on]
  <2>1. window' = after
    BY <1>5, Zenon DEF Modes!PixelsLand
  <2>2. on \in BOOLEAN
    OBVIOUS
  <2> HIDE DEF on
  <2>3. window \in Windows /\ OneMode(window)
    BY DEF InForm, Sane
  <2>4. /\ after \in Windows
        /\ after.session = window.session /\ after.crop = window.crop
        /\ after.panel = window.panel /\ after.gesture = window.gesture
        /\ after.preview = window.preview
        /\ after.masking = window.masking /\ after.picking = window.picking
    BY <2>2, <2>3 DEF Windows
  <2> HIDE DEF after
  <2>5. OneMode(after)
    BY <2>3, <2>4 DEF OneMode
  <2>6. /\ after.gesture # "none" => after.masking
        /\ after.preview => ~Modes!editing(window.session)
    BY <2>4 DEF InForm, Sane, Owned
  <2>7. InForm(after)
    BY <2>4, <2>5, <2>6, ModesForm
  <2> QED  BY <2>1, <2>7
<1> QED  BY <1>1, <1>2, <1>3, <1>4, <1>5

(* The invariant of the modes, over the window in the state. *)
ModesInv == InForm(window)

(* The form every state of a window has. *)
LEMMA ModesAlways == Modes!Spec => []ModesInv
<1>1. Modes!Init => ModesInv
  <2> SUFFICES ASSUME Modes!Init
               PROVE  ModesInv
    OBVIOUS
  <2> DEFINE on == TRUE
  <2>1. PICK contents \in Photographs : window = Modes!OpenPhoto(contents, on)
    BY Zenon DEF Modes!Init
  <2>2. on \in BOOLEAN
    OBVIOUS
  <2> HIDE DEF on
  <2> QED  BY <2>1, <2>2, OpenForm DEF ModesInv
<1>2. ModesInv /\ [Modes!Next]_window => ModesInv'
  <2> SUFFICES ASSUME ModesInv, [Modes!Next]_window
               PROVE  ModesInv'
    OBVIOUS
  <2> USE DEF ModesInv
  <2>1. CASE Modes!Next
    BY <2>1, SliderActions, MaskActions, CropActions, ModeActions, SessionActions
    DEF Modes!Next
  <2>2. CASE UNCHANGED window
    BY <2>2
  <2> QED  BY <2>1, <2>2
<1> QED  BY <1>1, <1>2, PTL DEF Modes!Spec

(* Of four flags of which no two are on, two that are on are the same one. *)
LEMMA OneOfFour ==
    ASSUME NEW a \in BOOLEAN, NEW b \in BOOLEAN, NEW c \in BOOLEAN, NEW d \in BOOLEAN,
           a => ~b /\ ~c /\ ~d, b => ~c /\ ~d, c => ~d,
           NEW i \in 1 .. 4, NEW j \in 1 .. 4,
           <<a, b, c, d>>[i], <<a, b, c, d>>[j]
    PROVE  i = j
<1> DEFINE modes == <<a, b, c, d>>
<1>1. /\ modes[1] = a /\ modes[2] = b /\ modes[3] = c /\ modes[4] = d
  OBVIOUS
<1>2. /\ i \in {1, 2, 3, 4} /\ j \in {1, 2, 3, 4}
  OBVIOUS
<1>3. modes[i] /\ modes[j]
  OBVIOUS
<1> HIDE DEF modes
<1>4. modes[1] => ~modes[2] /\ ~modes[3] /\ ~modes[4]
  BY <1>1, Zenon
<1>5. modes[2] => ~modes[3] /\ ~modes[4]
  BY <1>1, Zenon
<1>6. modes[3] => ~modes[4]
  BY <1>1, Zenon
<1>7. i = 1 \/ i = 2 \/ i = 3 \/ i = 4
  BY <1>2
<1>8. j = 1 \/ j = 2 \/ j = 3 \/ j = 4
  BY <1>2
<1>9. CASE i = 1
  <2>1. modes[1]
    BY <1>3, <1>9
  <2>2. ~modes[2] /\ ~modes[3] /\ ~modes[4]
    BY <2>1, <1>4
  <2> QED  BY <2>2, <1>3, <1>8, <1>9
<1>10. CASE i = 2
  <2>1. modes[2]
    BY <1>3, <1>10
  <2>2. ~modes[1] /\ ~modes[3] /\ ~modes[4]
    BY <2>1, <1>4, <1>5
  <2> QED  BY <2>2, <1>3, <1>8, <1>10
<1>11. CASE i = 3
  <2>1. modes[3]
    BY <1>3, <1>11
  <2>2. ~modes[1] /\ ~modes[2] /\ ~modes[4]
    BY <2>1, <1>4, <1>5, <1>6
  <2> QED  BY <2>2, <1>3, <1>8, <1>11
<1>12. CASE i = 4
  <2>1. modes[4]
    BY <1>3, <1>12
  <2>2. ~modes[1] /\ ~modes[2] /\ ~modes[3]
    BY <2>1, <1>4, <1>5, <1>6
  <2> QED  BY <2>2, <1>3, <1>8, <1>12
<1> QED  BY <1>7, <1>9, <1>10, <1>11, <1>12

(***************************************************************************)
(* In any order of keys, drags and what happens to the window, the edit    *)
(* that is open has an owner, and no two modes are on (setCropMode,        *)
(* leaveMaskMode, startPreview).                                           *)
(***************************************************************************)
THEOREM NoEditIsLeftOpen == Modes!Spec => []EditsHaveOwners
<1>1. ModesInv => EditsHaveOwners
  <2> SUFFICES ASSUME InForm(window)
               PROVE  EditsHaveOwners
    BY DEF ModesInv
  <2>1. Owned(window) /\ Kept(window.session) /\ OneMode(window)
        /\ (window.gesture # "none" => window.masking)
    BY DEF InForm, Sane
  <2> DEFINE modes == <<Modes!Cropping, window.masking, window.picking, window.preview>>
             On(i, j) == modes[i] /\ modes[j]
  <2>2. \A i, j \in 1 .. 4 : On(i, j) => i = j
    <3> SUFFICES ASSUME NEW i \in 1 .. 4, NEW j \in 1 .. 4, modes[i], modes[j]
                 PROVE  i = j
      OBVIOUS
    <3>1. /\ Modes!Cropping \in BOOLEAN /\ window.masking \in BOOLEAN
          /\ window.picking \in BOOLEAN /\ window.preview \in BOOLEAN
      BY DEF ModesInv, InForm, Sane, Windows, Modes!Cropping
    <3>2. /\ Modes!Cropping => ~window.masking /\ ~window.picking /\ ~window.preview
          /\ window.masking => ~window.picking /\ ~window.preview
          /\ window.picking => ~window.preview
      BY <2>1 DEF OneMode, Modes!Cropping
    <3> QED  BY <3>1, <3>2, OneOfFour
  <2>3. /\ Modes!editing(window.session) =>
              Modes!Cropping \/ window.panel # None \/ window.gesture # "none"
        /\ window.preview => ~Modes!editing(window.session)
        /\ window.gesture # "none" => window.masking
        /\ Modes!StepIsCurrent(window.session)
    BY <2>1 DEF Owned, Kept, Modes!Cropping
  <2> QED  BY <2>2, <2>3 DEF EditsHaveOwners, Modes!EditsHaveOwners
<1> QED  BY <1>1, ModesAlways, PTL

(***************************************************************************)
(* The whole stay in the crop mode is one edit, and its steps lead back to *)
(* the geometry the mode was entered with and not past it, whatever is     *)
(* dragged, nudged, undone and interrupted (beginStep, endStep, undo).     *)
(***************************************************************************)
THEOREM CropModeIsOneEdit == Modes!Spec => []CropIsOneEdit
<1>1. ModesInv => CropIsOneEdit
  <2> SUFFICES ASSUME InForm(window), Modes!Cropping
               PROVE  /\ Modes!editing(window.session)
                      /\ Modes!GeometryOf(Modes!Look(window)) = window.crop.geometry
                      /\ Modes!GeometryOf(window.session.baseline.recipe.state) =
                            FirstOf(window.crop)
                      /\ window.crop.depth > 0 => window.crop.drag \/ window.panel # None
    BY DEF ModesInv, CropIsOneEdit, Modes!CropIsOneEdit, FirstOf
  <2>1. CropFollows(window) /\ Balanced(window) /\ window.crop # None
    BY DEF InForm, Sane, Modes!Cropping
  <2> QED  BY <2>1 DEF CropFollows, Balanced, Modes!Look
<1> QED  BY <1>1, ModesAlways, PTL
=============================================================================
