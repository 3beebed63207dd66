------------------------ MODULE SnapshotStore_proofs ------------------------
(***************************************************************************)
(* The promises of the store, for every limit, every id space and every    *)
(* sequence of writes.                                                     *)
(***************************************************************************)
EXTENDS SnapshotStore, Snapshots_proofs

(* The shape of the contents and their soundness are inductive together: the *)
(* counter needs the ids under it, and the ids the shape.                    *)
Inv == TypeOK /\ FileSound

(* The files the store may start from are sound. *)
LEMMA InitInv == Init => Inv
BY StoreAssumption DEF Init, Inv, TypeOK, FileSound

(* Every write keeps the contents well formed and sound, and leaves a list that *)
(* follows upon the one it found.                                               *)
LEMMA StepKeeps ==
    Inv /\ [Next]_vars => Inv' /\ Later(file.snapshots, file'.snapshots)
<1> SUFFICES ASSUME Inv, [Next]_vars
             PROVE  file' \in Contents /\ Sound(file') /\ Later(file.snapshots, file'.snapshots)
  BY DEF Inv, TypeOK, FileSound
<1>0. file \in Contents /\ Sound(file) /\ file.snapshots \in Collection
  BY DEF Inv, TypeOK, FileSound, Contents
<1>1. CASE Add
  BY <1>0, <1>1, AddSound, AddLater DEF Add
<1>2. CASE Rename
  BY <1>0, <1>2, RenameSound, RenameLater DEF Rename
<1>3. CASE Delete
  BY <1>0, <1>3, DeleteSound, DeleteLater DEF Delete
<1>4. CASE Discard
  BY <1>0, <1>4, DiscardSound, DiscardLater DEF Discard
<1>5. CASE StoreThumbnails
  BY <1>0, <1>5, ThumbnailSound, ThumbnailLater DEF StoreThumbnails
<1>6. CASE SaveActive \/ SaveActiveAndBase \/ SaveMarks
  <2>1. file' \in Contents /\ Sound(file')
    BY <1>0, <1>6, ActiveSound, ActiveAndBaseSound, MarksSound
       DEF SaveActive, SaveActiveAndBase, SaveMarks
  <2>2. file'.snapshots = file.snapshots
    BY <1>0, <1>6, ActiveEffect, ActiveAndBaseEffect, MarksEffect
       DEF SaveActive, SaveActiveAndBase, SaveMarks
  <2> QED  BY <1>0, <2>1, <2>2, SameIsLater
<1>7. CASE UNCHANGED vars
  <2>1. file' = file
    BY <1>7 DEF vars
  <2> QED  BY <1>0, <2>1, SameIsLater
<1> QED  BY <1>1, <1>2, <1>3, <1>4, <1>5, <1>6, <1>7 DEF Next

(* The invariant holds in every state. *)
LEMMA Invariance == Spec => []Inv
<1> QED  BY InitInv, StepKeeps, PTL DEF Spec

(* The contents keep the reader's shape. *)
THEOREM TypeCorrect == Spec => []TypeOK
<1>1. Inv => TypeOK
  BY DEF Inv
<1> QED  BY <1>1, Invariance, PTL

(* Whatever is written, in whatever order, the list stays a forest under its *)
(* limit and its counter, and the saved base stays listed.                   *)
THEOREM AlwaysSound == Spec => []FileSound
<1>1. Inv => FileSound
  BY DEF Inv
<1> QED  BY <1>1, Invariance, PTL

-----------------------------------------------------------------------------
(* An id is never given twice, however snapshots are added, deleted and discarded. *)
THEOREM IdsGivenOnce == Spec => IdsNeverReused
<1>1. Inv /\ [Next]_vars =>
         [/\ file'.snapshots.nextId >= file.snapshots.nextId
          /\ \A id \in Ids(file'.snapshots) \ Ids(file.snapshots) :
                id >= file.snapshots.nextId]_vars
  BY StepKeeps DEF Later
<1> QED  BY <1>1, Invariance, PTL DEF Spec, IdsNeverReused

(* A revision names one list of snapshots, and an id one look. *)
THEOREM RevisionsTell == Spec => RevisionTellsChange
<1>1. Inv /\ [Next]_vars =>
         [/\ file'.snapshots.revision >= file.snapshots.revision
          /\ file'.snapshots.revision = file.snapshots.revision
                => SameSnapshots(file.snapshots, file'.snapshots)
          /\ \A id \in Ids(file.snapshots) \cap Ids(file'.snapshots) :
                file'.snapshots.entries[id].recipe = file.snapshots.entries[id].recipe]_vars
  BY StepKeeps DEF Later
<1> QED  BY <1>1, Invariance, PTL DEF Spec, RevisionTellsChange
=============================================================================
