-------------------------- MODULE Snapshots_proofs --------------------------
(***************************************************************************)
(* What each write does to contents that are well formed, and what the     *)
(* walk to a surviving ancestor may return: the lemmas the proofs about    *)
(* the state machines rest on; and what every call of a session keeps of a *)
(* session in good order, which the proofs of EditSession and of           *)
(* SnapshotWorkflow share.                                                 *)
(***************************************************************************)
EXTENDS EditHistory, FiniteSetTheorems, SequenceTheorems, WellFoundedInduction, TLAPS

(* The listed ids are finitely many, and each holds a snapshot. *)
LEMMA IdsType ==
    ASSUME NEW c \in Collection
    PROVE  /\ Ids(c) \subseteq SnapshotId
           /\ IsFiniteSet(Ids(c))
           /\ \A id \in Ids(c) : c.entries[id] \in Snapshot
<1>1. Ids(c) \subseteq SnapshotId
  BY DEF Ids
<1>2. IsFiniteSet(SnapshotId)
  <2>1. 1 \in Int /\ MaximumId - 1 \in Int
    BY SnapshotsAssumption
  <2> QED  BY <2>1, FS_Interval DEF SnapshotId
<1>3. IsFiniteSet(Ids(c))
  BY <1>1, <1>2, FS_Subset
<1>4. \A id \in Ids(c) : c.entries[id] \in Snapshot
  BY DEF Collection, Ids
<1> QED  BY <1>1, <1>3, <1>4

(* An id taken from the counter is a free one. *)
LEMMA FreshId ==
    ASSUME NEW c \in Collection, BelowCounter(c), c.nextId # MaximumId
    PROVE  /\ c.nextId \in SnapshotId
           /\ c.nextId \notin Ids(c)
           /\ c.nextId + 1 \in SnapshotId \cup {MaximumId}
<1>1. c.nextId \in SnapshotId
  BY DEF Collection
<1>2. c.nextId \notin Ids(c)
  BY <1>1 DEF BelowCounter, SnapshotId
<1>3. c.nextId + 1 \in SnapshotId \cup {MaximumId}
  BY <1>1, SnapshotsAssumption DEF SnapshotId
<1> QED  BY <1>1, <1>2, <1>3

(* A snapshot is no placeholder for one. *)
LEMMA SnapshotIsListed ==
    ASSUME NEW s \in Snapshot
    PROVE  s # NoSnapshot
<1>1. s \in [parent : 0 .. MaximumId,
             recipe : [state : States, correct : Corrections, lens : Lenses \cup {NoLens}],
             name : Names, thumbnail : BOOLEAN]
  BY SnapshotsAssumption DEF Snapshot, MaybeId, SnapshotId, NoId, Recipe
<1> QED  BY <1>1, SnapshotsAssumption

(* Adding lists one more snapshot, under the counter's id, and nothing else changes. *)
LEMMA AddEffect ==
    ASSUME NEW f \in Contents, NEW draft \in Snapshot,
           BelowCounter(f.snapshots), f.snapshots.nextId # MaximumId
    PROVE  LET old == f.snapshots
               new == AddSnapshot(f, draft).snapshots
           IN  /\ AddSnapshot(f, draft) \in Contents
               /\ AddSnapshot(f, draft).savedBase = f.savedBase
               /\ new.revision = old.revision + 1
               /\ new.nextId = old.nextId + 1
               /\ Ids(new) = Ids(old) \cup {old.nextId}
               /\ new.entries[old.nextId] = draft
               /\ \A id \in Ids(old) : new.entries[id] = old.entries[id]
<1> DEFINE old == f.snapshots
           entries == [old.entries EXCEPT ![old.nextId] = draft]
           new == [revision |-> old.revision + 1, nextId |-> old.nextId + 1,
                   entries |-> entries]
<1>1. old \in Collection
  BY DEF Contents
<1>2. /\ old.nextId \in SnapshotId
      /\ old.nextId \notin Ids(old)
      /\ old.nextId + 1 \in SnapshotId \cup {MaximumId}
  BY <1>1, FreshId
<1>3. entries \in [SnapshotId -> Snapshot \cup {NoSnapshot}]
  BY <1>1, <1>2 DEF Collection
<1>4. new \in Collection
  BY <1>1, <1>2, <1>3 DEF Collection
<1>5. AddSnapshot(f, draft) = [f EXCEPT !.snapshots = new]
  BY DEF AddSnapshot, Edited
<1>6. Ids(new) = Ids(old) \cup {old.nextId}
  <2>1. \A id \in SnapshotId :
           entries[id] = IF id = old.nextId THEN draft ELSE old.entries[id]
    BY <1>1, <1>2 DEF Collection
  <2>2. draft # NoSnapshot
    BY SnapshotIsListed
  <2> QED  BY <2>1, <2>2, <1>2 DEF Ids
<1>7. /\ entries[old.nextId] = draft
      /\ \A id \in Ids(old) : entries[id] = old.entries[id]
  BY <1>1, <1>2 DEF Collection, Ids
<1>8. /\ new.revision = old.revision + 1
      /\ new.nextId = old.nextId + 1
      /\ new.entries = entries
  OBVIOUS
<1> HIDE DEF new, entries
<1>9. /\ AddSnapshot(f, draft) \in Contents
      /\ AddSnapshot(f, draft).snapshots = new
      /\ AddSnapshot(f, draft).savedBase = f.savedBase
  BY <1>4, <1>5 DEF Contents
<1> QED  BY <1>6, <1>7, <1>8, <1>9

(* A new snapshot whose parent is listed closes no cycle. *)
LEMMA AddKeepsValid ==
    ASSUME NEW f \in Contents, NEW draft \in Snapshot,
           Valid(f.snapshots), CanAdd(f, draft)
    PROVE  Valid(AddSnapshot(f, draft).snapshots)
<1> DEFINE old == f.snapshots
           new == AddSnapshot(f, draft).snapshots
           n == old.nextId
<1> HIDE DEF new
<1>1. old \in Collection /\ BelowCounter(old) /\ n # MaximumId
  BY DEF Contents, Valid, CanAdd
<1>2. /\ new.nextId = n + 1
      /\ Ids(new) = Ids(old) \cup {n}
      /\ new.entries[n] = draft
      /\ \A id \in Ids(old) : new.entries[id] = old.entries[id]
  BY <1>1, AddEffect DEF new
<1>3. n \in SnapshotId /\ n \notin Ids(old)
  BY <1>1, FreshId
<1>4. Ids(old) \subseteq SnapshotId /\ IsFiniteSet(Ids(old))
  BY <1>1, IdsType
<1>5. Cardinality(Ids(new)) <= MaximumSnapshots
  <2> HIDE DEF n
  <2>1. Cardinality(Ids(new)) = Cardinality(Ids(old)) + 1
    BY <1>2, <1>3, <1>4, FS_AddElement
  <2>2. Cardinality(Ids(old)) \in Nat
    BY <1>4, FS_CardinalityType
  <2> QED  BY <2>1, <2>2, SnapshotsAssumption DEF CanAdd, HasRoom, Contents
<1>6. BelowCounter(new)
  <2>1. \A id \in Ids(old) : id < n /\ id \in Int
    BY <1>1, <1>4 DEF BelowCounter, SnapshotId
  <2> QED  BY <2>1, <1>2, <1>3 DEF BelowCounter, SnapshotId
<1>7. draft.parent \in Ids(old) \cup {NoId} /\ n # NoId
  BY <1>3 DEF CanAdd, NoId, SnapshotId
<1>8. ParentsListed(new)
  BY <1>2, <1>3, <1>7 DEF Valid, ParentsListed
<1>9. Acyclic(new)
  <2> SUFFICES ASSUME NEW S \in SUBSET Ids(new), S # {}
               PROVE  \E id \in S : new.entries[id].parent \notin S
    BY DEF Acyclic
  <2> DEFINE R == S \ {n}
  <2>1. CASE R = {}
    BY <2>1, <1>2, <1>3, <1>7
  <2>2. CASE R # {}
    <3>1. R \in SUBSET Ids(old)
      BY <1>2
    <3>2. PICK id \in R : old.entries[id].parent \notin R
      BY <2>2, <3>1 DEF Valid, Acyclic
    <3>3. new.entries[id].parent = old.entries[id].parent
      BY <3>1, <1>2
    <3>4. old.entries[id].parent # n
      BY <3>1, <1>3, <1>7 DEF Valid, ParentsListed
    <3> QED  BY <3>2, <3>3, <3>4
  <2> QED  BY <2>1, <2>2
<1> QED  BY <1>5, <1>6, <1>8, <1>9 DEF Valid, new

-----------------------------------------------------------------------------
(* Entries that keep their ids and parents are as valid as before. *)
LEMMA SameTreeIsValid ==
    ASSUME NEW old \in Collection, NEW new \in Collection, Valid(old),
           Ids(new) = Ids(old), new.nextId >= old.nextId,
           \A id \in Ids(old) : new.entries[id].parent = old.entries[id].parent
    PROVE  Valid(new)
<1>1. BelowCounter(new)
  <2>1. /\ old.nextId \in Int /\ new.nextId \in Int
        /\ \A id \in Ids(old) : id \in Int
    BY IdsType, SnapshotsAssumption DEF Collection, SnapshotId
  <2> QED  BY <2>1 DEF Valid, BelowCounter
<1>2. ParentsListed(new) /\ Acyclic(new)
  BY DEF Valid, ParentsListed, Acyclic
<1> QED  BY <1>1, <1>2 DEF Valid

(* Renaming touches one name. *)
LEMMA RenameEffect ==
    ASSUME NEW f \in Contents, NEW id \in Ids(f.snapshots), NEW name \in Names
    PROVE  LET old == f.snapshots
               new == RenameSnapshot(f, id, name).snapshots
           IN  /\ RenameSnapshot(f, id, name) \in Contents
               /\ RenameSnapshot(f, id, name).savedBase = f.savedBase
               /\ new.revision = old.revision + 1
               /\ new.nextId = old.nextId
               /\ Ids(new) = Ids(old)
               /\ \A i \in Ids(old) : /\ new.entries[i].parent = old.entries[i].parent
                                      /\ new.entries[i].recipe = old.entries[i].recipe
<1> DEFINE old == f.snapshots
           entries == [old.entries EXCEPT ![id].name = name]
           new == [revision |-> old.revision + 1, nextId |-> old.nextId,
                   entries |-> entries]
<1>1. old \in Collection /\ id \in SnapshotId /\ old.entries[id] \in Snapshot
  BY IdsType DEF Contents
<1>2. [old.entries[id] EXCEPT !.name = name] \in Snapshot
  BY <1>1 DEF Snapshot
<1>3. entries = [old.entries EXCEPT ![id] = [old.entries[id] EXCEPT !.name = name]]
  BY <1>1 DEF Collection
<1>4. entries \in [SnapshotId -> Snapshot \cup {NoSnapshot}]
  BY <1>1, <1>2, <1>3 DEF Collection
<1>5. new \in Collection
  BY <1>1, <1>4 DEF Collection
<1>6. RenameSnapshot(f, id, name) = [f EXCEPT !.snapshots = new]
  BY DEF RenameSnapshot, Edited
<1>7. /\ new.revision = old.revision + 1
      /\ new.nextId = old.nextId
      /\ new.entries = entries
  OBVIOUS
<1>8. [old.entries[id] EXCEPT !.name = name] # NoSnapshot
  BY <1>2, SnapshotIsListed
<1>9. \A i \in SnapshotId :
         entries[i] = IF i = id THEN [old.entries[id] EXCEPT !.name = name]
                      ELSE old.entries[i]
  BY <1>1, <1>3 DEF Collection
<1>10. \A i \in Ids(old) : /\ entries[i].parent = old.entries[i].parent
                           /\ entries[i].recipe = old.entries[i].recipe
  BY <1>1, <1>9 DEF Ids, Snapshot
<1> HIDE DEF new, entries
<1>11. Ids(new) = Ids(old)
  BY <1>7, <1>8, <1>9 DEF Ids
<1>12. /\ RenameSnapshot(f, id, name) \in Contents
       /\ RenameSnapshot(f, id, name).snapshots = new
       /\ RenameSnapshot(f, id, name).savedBase = f.savedBase
  BY <1>5, <1>6 DEF Contents
<1> QED  BY <1>7, <1>10, <1>11, <1>12

(* Deleting unlists the one id; its children and its saved base move to its parent. *)
LEMMA DeleteEffect ==
    ASSUME NEW f \in Contents, Valid(f.snapshots), CanBase(f, f.savedBase),
           NEW id \in Ids(f.snapshots)
    PROVE  LET old == f.snapshots
               new == DeleteSnapshot(f, id).snapshots
               heir == old.entries[id].parent
           IN  /\ DeleteSnapshot(f, id) \in Contents
               /\ DeleteSnapshot(f, id).savedBase =
                      IF f.savedBase = id THEN heir ELSE f.savedBase
               /\ new.revision = old.revision + 1
               /\ new.nextId = old.nextId
               /\ Ids(new) = Ids(old) \ {id}
               /\ \A i \in Ids(new) :
                     /\ new.entries[i].recipe = old.entries[i].recipe
                     /\ new.entries[i].parent =
                           IF old.entries[i].parent = id THEN heir
                           ELSE old.entries[i].parent
<1> DEFINE old == f.snapshots
           heir == old.entries[id].parent
           moved(i) == [old.entries[i] EXCEPT
                           !.parent = IF @ = id THEN heir ELSE @]
           entries == [i \in SnapshotId |->
                          IF i \in Ids(old) \ {id} THEN moved(i) ELSE NoSnapshot]
           base == IF f.savedBase = id THEN heir ELSE f.savedBase
           new == [revision |-> old.revision + 1, nextId |-> old.nextId,
                   entries |-> entries]
<1>1. old \in Collection /\ id \in SnapshotId
  BY IdsType DEF Contents
<1>2. \A i \in Ids(old) : old.entries[i] \in Snapshot /\ i \in SnapshotId
  BY <1>1, IdsType
<1>3. heir \in MaybeId
  BY <1>2 DEF Snapshot
<1>4. \A i \in Ids(old) : moved(i) \in Snapshot
  BY <1>2, <1>3 DEF Snapshot
<1>5. entries \in [SnapshotId -> Snapshot \cup {NoSnapshot}]
  BY <1>4
<1>6. new \in Collection
  BY <1>1, <1>5 DEF Collection
<1>7. DeleteSnapshot(f, id) = [f EXCEPT !.savedBase = base, !.snapshots = new]
  BY DEF DeleteSnapshot, Edited, Contents
<1>8. base \in MaybeId
  BY <1>3 DEF Contents
<1>9. \A i \in Ids(old) : moved(i) # NoSnapshot
  BY <1>4, SnapshotIsListed
<1>10. \A i \in Ids(old) \ {id} :
          /\ moved(i).recipe = old.entries[i].recipe
          /\ moved(i).parent = IF old.entries[i].parent = id THEN heir
                               ELSE old.entries[i].parent
  BY <1>2 DEF Snapshot
<1>11. \A i \in Ids(old) \ {id} : entries[i] = moved(i)
  BY <1>2
<1>12. Ids(new) = Ids(old) \ {id}
  BY <1>2, <1>9 DEF Ids
<1>13. /\ new.revision = old.revision + 1
       /\ new.nextId = old.nextId
       /\ new.entries = entries
  OBVIOUS
<1> HIDE DEF new, entries, base, moved
<1>14. /\ DeleteSnapshot(f, id) \in Contents
       /\ DeleteSnapshot(f, id).snapshots = new
       /\ DeleteSnapshot(f, id).savedBase = base
  BY <1>6, <1>7, <1>8 DEF Contents
<1> QED  BY <1>10, <1>11, <1>12, <1>13, <1>14 DEF base

(* Moving the children of a deleted snapshot to its parent closes no cycle. *)
LEMMA DeleteKeepsSound ==
    ASSUME NEW f \in Contents, Valid(f.snapshots), CanBase(f, f.savedBase),
           NEW id \in Ids(f.snapshots)
    PROVE  /\ Valid(DeleteSnapshot(f, id).snapshots)
           /\ CanBase(DeleteSnapshot(f, id), DeleteSnapshot(f, id).savedBase)
<1> DEFINE old == f.snapshots
           heir == old.entries[id].parent
           new == DeleteSnapshot(f, id).snapshots
<1>1. old \in Collection /\ new \in Collection
  BY DeleteEffect DEF Contents
<1>2. /\ new.nextId = old.nextId
      /\ Ids(new) = Ids(old) \ {id}
      /\ \A i \in Ids(new) :
            new.entries[i].parent = IF old.entries[i].parent = id THEN heir
                                    ELSE old.entries[i].parent
      /\ DeleteSnapshot(f, id).savedBase = IF f.savedBase = id THEN heir ELSE f.savedBase
  BY DeleteEffect
<1> HIDE DEF new
<1>3. Cardinality(Ids(new)) <= MaximumSnapshots
  <2>1. IsFiniteSet(Ids(old))
    BY <1>1, IdsType
  <2>2. /\ Cardinality(Ids(new)) <= Cardinality(Ids(old))
        /\ Cardinality(Ids(new)) \in Nat /\ Cardinality(Ids(old)) \in Nat
    BY <2>1, <1>2, FS_Subset, FS_CardinalityType
  <2> QED  BY <2>2, SnapshotsAssumption DEF Valid
<1>4. BelowCounter(new)
  BY <1>2 DEF Valid, BelowCounter
<1>5. heir # id
  <2>1. \E i \in {id} : old.entries[i].parent \notin {id}
    BY DEF Valid, Acyclic
  <2> QED  BY <2>1
<1>6. heir \in Ids(new) \cup {NoId}
  BY <1>2, <1>5 DEF Valid, ParentsListed
<1>7. ParentsListed(new)
  BY <1>2, <1>6 DEF Valid, ParentsListed
<1>8. Acyclic(new)
  <2> SUFFICES ASSUME NEW S \in SUBSET Ids(new), S # {}
               PROVE  \E i \in S : new.entries[i].parent \notin S
    BY DEF Acyclic
  <2>1. S \in SUBSET Ids(old) /\ S \cup {id} \in SUBSET Ids(old) /\ id \notin S
    BY <1>2
  <2>2. PICK i \in S : old.entries[i].parent \notin S
    BY <2>1 DEF Valid, Acyclic
  <2>3. PICK j \in S \cup {id} : old.entries[j].parent \notin S \cup {id}
    BY <2>1 DEF Valid, Acyclic
  <2>4. CASE j = id
    BY <2>1, <2>2, <2>3, <2>4, <1>2
  <2>5. CASE j # id
    BY <2>1, <2>3, <2>5, <1>2
  <2> QED  BY <2>4, <2>5
<1>9. CanBase(DeleteSnapshot(f, id), DeleteSnapshot(f, id).savedBase)
  BY <1>2, <1>6 DEF CanBase, new
<1> QED  BY <1>3, <1>4, <1>7, <1>8, <1>9 DEF Valid, new

-----------------------------------------------------------------------------
(* Discarding what cannot be read keeps every snapshot. *)
LEMMA DiscardEffect ==
    ASSUME NEW f \in Contents, NEW nextId \in f.snapshots.nextId .. MaximumId
    PROVE  LET old == f.snapshots
               new == DiscardUnreadable(f, nextId).snapshots
           IN  /\ DiscardUnreadable(f, nextId) \in Contents
               /\ DiscardUnreadable(f, nextId).savedBase = f.savedBase
               /\ new.revision = old.revision + 1
               /\ new.nextId = nextId
               /\ new.entries = old.entries
               /\ Ids(new) = Ids(old)
<1> DEFINE old == f.snapshots
           new == [revision |-> old.revision + 1, nextId |-> nextId,
                   entries |-> old.entries]
<1>1. old \in Collection
  BY DEF Contents
<1>2. nextId \in SnapshotId \cup {MaximumId}
  BY <1>1, SnapshotsAssumption DEF Collection, SnapshotId
<1>3. new \in Collection
  BY <1>1, <1>2 DEF Collection
<1>4. DiscardUnreadable(f, nextId) = [f EXCEPT !.unreadable = 0, !.snapshots = new]
  BY DEF DiscardUnreadable, Edited, Contents
<1>5. /\ new.revision = old.revision + 1
      /\ new.nextId = nextId
      /\ new.entries = old.entries
  OBVIOUS
<1> HIDE DEF new
<1>6. /\ DiscardUnreadable(f, nextId) \in Contents
      /\ DiscardUnreadable(f, nextId).snapshots = new
      /\ DiscardUnreadable(f, nextId).savedBase = f.savedBase
  <2>1. 0 \in Nat
    OBVIOUS
  <2> QED  BY <1>3, <1>4, <2>1 DEF Contents
<1> QED  BY <1>5, <1>6 DEF Ids

(* Storing thumbnails changes nothing a revision speaks for. *)
LEMMA ThumbnailEffect ==
    ASSUME NEW f \in Contents, NEW ids \in SUBSET Ids(f.snapshots)
    PROVE  LET old == f.snapshots
               new == SetThumbnails(f, ids).snapshots
           IN  /\ SetThumbnails(f, ids) \in Contents
               /\ SetThumbnails(f, ids).savedBase = f.savedBase
               /\ new.revision = old.revision
               /\ new.nextId = old.nextId
               /\ Ids(new) = Ids(old)
               /\ SameSnapshots(old, new)
               /\ \A i \in Ids(old) : /\ new.entries[i].parent = old.entries[i].parent
                                      /\ new.entries[i].recipe = old.entries[i].recipe
<1> DEFINE old == f.snapshots
           shown(id) == [old.entries[id] EXCEPT !.thumbnail = TRUE]
           entries == [id \in SnapshotId |->
                          IF id \in ids THEN shown(id) ELSE old.entries[id]]
           new == [old EXCEPT !.entries = entries]
<1>1. /\ old \in Collection
      /\ \A id \in Ids(old) : id \in SnapshotId /\ old.entries[id] \in Snapshot
  BY IdsType DEF Contents
<1>2. \A id \in ids : shown(id) \in Snapshot
  BY <1>1 DEF Snapshot
<1>3. entries \in [SnapshotId -> Snapshot \cup {NoSnapshot}]
  BY <1>1, <1>2 DEF Collection
<1>4. new \in Collection
  BY <1>1, <1>3 DEF Collection
<1>5. SetThumbnails(f, ids) = [f EXCEPT !.snapshots = new]
  BY DEF SetThumbnails, Contents, Collection
<1>6. \A id \in ids : shown(id) # NoSnapshot
  BY <1>2, SnapshotIsListed
<1>7. \A i \in SnapshotId :
         entries[i] = IF i \in ids THEN shown(i) ELSE old.entries[i]
  OBVIOUS
<1>8. \A i \in Ids(old) :
         /\ entries[i].parent = old.entries[i].parent
         /\ entries[i].recipe = old.entries[i].recipe
         /\ [entries[i] EXCEPT !.thumbnail = FALSE] =
               [old.entries[i] EXCEPT !.thumbnail = FALSE]
  <2>1. \A i \in Ids(old) :
           /\ shown(i).parent = old.entries[i].parent
           /\ shown(i).recipe = old.entries[i].recipe
           /\ [shown(i) EXCEPT !.thumbnail = FALSE] =
                 [old.entries[i] EXCEPT !.thumbnail = FALSE]
    BY <1>1 DEF Snapshot
  <2> QED  BY <2>1, <1>1, <1>7
<1>9. /\ new.revision = old.revision
      /\ new.nextId = old.nextId
      /\ new.entries = entries
  BY <1>1 DEF Collection
<1> HIDE DEF new, entries, shown
<1>10. Ids(new) = Ids(old)
  BY <1>6, <1>7, <1>9 DEF Ids
<1>11. /\ SetThumbnails(f, ids) \in Contents
       /\ SetThumbnails(f, ids).snapshots = new
       /\ SetThumbnails(f, ids).savedBase = f.savedBase
  BY <1>4, <1>5 DEF Contents
<1> QED  BY <1>8, <1>9, <1>10, <1>11 DEF SameSnapshots, SameEntries

(* Writing settings or marks leaves the snapshots alone. *)
LEMMA MarksEffect ==
    ASSUME NEW f \in Contents, NEW changes \in MarkChanges
    PROVE  /\ WriteMarks(f, changes) \in Contents
           /\ WriteMarks(f, changes).snapshots = f.snapshots
           /\ WriteMarks(f, changes).savedBase = f.savedBase
<1>1. WithMarks(f.marks, changes) \in Marks
  BY DEF WithMarks, Marks, MarkChanges, Contents
<1> QED  BY <1>1 DEF WriteMarks, Contents

(* Saving the settings leaves the snapshots and the saved base as they are. *)
LEMMA ActiveEffect ==
    ASSUME NEW f \in Contents, NEW recipe \in Recipe, NEW changes \in MarkChanges
    PROVE  /\ WriteActive(f, recipe, changes) \in Contents
           /\ WriteActive(f, recipe, changes).snapshots = f.snapshots
           /\ WriteActive(f, recipe, changes).savedBase = f.savedBase
BY MarksEffect DEF WriteActive, Contents

(* Saving the settings with their base changes the saved base to it. *)
LEMMA ActiveAndBaseEffect ==
    ASSUME NEW f \in Contents, NEW recipe \in Recipe, NEW changes \in MarkChanges,
           NEW base \in MaybeId
    PROVE  /\ WriteActiveAndBase(f, recipe, base, changes) \in Contents
           /\ WriteActiveAndBase(f, recipe, base, changes).snapshots = f.snapshots
           /\ WriteActiveAndBase(f, recipe, base, changes).savedBase = base
BY ActiveEffect DEF WriteActiveAndBase, Contents

(* Writing the settings writes them. *)
LEMMA SettingsWritten ==
    ASSUME NEW f \in Contents, NEW recipe, NEW changes
    PROVE  /\ WriteActive(f, recipe, changes).recipe = recipe
           /\ \A base : WriteActiveAndBase(f, recipe, base, changes).recipe = recipe
BY DEF WriteActive, WriteActiveAndBase, WriteMarks, Contents

-----------------------------------------------------------------------------
(* A reference that is still listed stays; any other goes to a listed one or to none. *)
LEMMA SurvivorListed ==
    ASSUME NEW held, NEW id, NEW fresh
    PROVE  /\ Survivor(held, id, fresh) \in Ids(fresh) \cup {NoId}
           /\ id \in Ids(fresh) \cup {NoId} => Survivor(held, id, fresh) = id
BY DEF Survivor

(* Induction, stated of a set of numbers. *)
LEMMA AllOfNat ==
    ASSUME NEW P, P \subseteq Nat, 0 \in P, \A n \in P : n + 1 \in P
    PROVE  P = Nat
<1> DEFINE T == Nat \ P
           R == {p \in Nat \X Nat : p[1] < p[2]}
<1>1. SUFFICES ASSUME T # {} PROVE FALSE
  OBVIOUS
<1>2. IsWellFoundedOn(R, Nat)
  BY NatLessThanWellFounded DEF OpToRel
<1>3. PICK x \in T : \A y \in T : <<y, x>> \notin R
  <2> HIDE DEF R, T
  <2>1. T \subseteq Nat
    BY DEF T
  <2> QED  BY <1>1, <1>2, <2>1, WFMin
<1>4. x - 1 \in P
  <2>1. x - 1 \in Nat
    OBVIOUS
  <2>2. <<x - 1, x>> \in R
    BY <2>1
  <2> QED  BY <2>1, <2>2, <1>3
<1> QED  BY <1>4

(* The walk of WalkUp, bounded by n steps. *)
Walked(held, fresh, F, left) ==
    [at \in MaybeId |->
        IF at \in Ids(fresh) \cup {NoId} THEN at
        ELSE IF left = 0 \/ at \notin Ids(held) THEN NoId
        ELSE F[left - 1][held.entries[at].parent]]

IsWalk(held, fresh, n, F) == F = [left \in 0 .. n |-> Walked(held, fresh, F, left)]

(* Such a walk exists, whatever the lists. *)
LEMMA WalkExists ==
    ASSUME NEW held, NEW fresh, NEW n \in Nat
    PROVE  \E F : IsWalk(held, fresh, n, F)
<1> DEFINE P == {m \in Nat : \E F : IsWalk(held, fresh, m, F)}
<1>1. 0 \in P
  <2> DEFINE F == [left \in 0 .. 0 |-> Walked(held, fresh, << >>, left)]
  <2>1. Walked(held, fresh, << >>, 0) = Walked(held, fresh, F, 0)
    BY DEF Walked
  <2>2. F = [left \in 0 .. 0 |-> Walked(held, fresh, F, left)]
    BY <2>1
  <2> QED  BY <2>2 DEF IsWalk
<1>2. ASSUME NEW m \in P
      PROVE  m + 1 \in P
  <2>1. PICK F : IsWalk(held, fresh, m, F)
    OBVIOUS
  <2> DEFINE G == [left \in 0 .. m + 1 |-> IF left <= m THEN F[left]
                                           ELSE Walked(held, fresh, F, m + 1)]
  <2>2. \A left \in 0 .. m : G[left] = F[left] /\ F[left] = Walked(held, fresh, F, left)
    BY <2>1 DEF IsWalk
  <2>3. G[m + 1] = Walked(held, fresh, F, m + 1) /\ G = [left \in 0 .. m + 1 |-> G[left]]
    OBVIOUS
  <2> HIDE DEF G
  <2>4. \A left \in 0 .. m + 1 : Walked(held, fresh, G, left) = Walked(held, fresh, F, left)
    <3> SUFFICES ASSUME NEW left \in 0 .. m + 1
                 PROVE  Walked(held, fresh, G, left) = Walked(held, fresh, F, left)
      OBVIOUS
    <3>1. left # 0 => left - 1 \in 0 .. m
      OBVIOUS
    <3>2. left # 0 => G[left - 1] = F[left - 1]
      BY <3>1, <2>2
    <3> QED  BY <3>2 DEF Walked
  <2>5. \A left \in 0 .. m + 1 : G[left] = Walked(held, fresh, G, left)
    <3> SUFFICES ASSUME NEW left \in 0 .. m + 1
                 PROVE  G[left] = Walked(held, fresh, F, left)
      BY <2>4
    <3>1. left \in 0 .. m \/ left = m + 1
      OBVIOUS
    <3> QED  BY <3>1, <2>2, <2>3
  <2>6. IsWalk(held, fresh, m + 1, G)
    BY <2>3, <2>5 DEF IsWalk
  <2> QED  BY <2>6
<1>3. P = Nat
  <2> HIDE DEF P
  <2>1. P \subseteq Nat
    BY DEF P
  <2> QED  BY <1>1, <1>2, <2>1, AllOfNat
<1> QED  BY <1>3

(* What the walk returns is listed by fresh, or is none; *)
LEMMA WalkLands ==
    ASSUME NEW held, NEW fresh, NEW n \in Nat, NEW F, IsWalk(held, fresh, n, F),
           \A id \in Ids(held) : held.entries[id].parent \in MaybeId
    PROVE  \A left \in 0 .. n, at \in MaybeId : F[left][at] \in Ids(fresh) \cup {NoId}
<1> DEFINE Lands(left) == \A at \in MaybeId : F[left][at] \in Ids(fresh) \cup {NoId}
           P == {left \in Nat : left <= n => Lands(left)}
<1>1. \A left \in 0 .. n : F[left] = Walked(held, fresh, F, left)
  BY DEF IsWalk
<1>2. 0 \in P
  <2>1. F[0] = Walked(held, fresh, F, 0)
    BY <1>1
  <2> QED  BY <2>1 DEF Walked
<1>3. ASSUME NEW left \in P PROVE left + 1 \in P
  <2> SUFFICES ASSUME left + 1 <= n, NEW at \in MaybeId
               PROVE  F[left + 1][at] \in Ids(fresh) \cup {NoId}
    OBVIOUS
  <2>1. F[left + 1] = Walked(held, fresh, F, left + 1) /\ left + 1 # 0 /\ left + 1 - 1 = left
    BY <1>1
  <2>2. Lands(left)
    OBVIOUS
  <2>3. F[left + 1][at] = IF at \in Ids(fresh) \cup {NoId} THEN at
                          ELSE IF at \notin Ids(held) THEN NoId
                          ELSE F[left][held.entries[at].parent]
    BY <2>1 DEF Walked
  <2> QED  BY <2>2, <2>3
<1>4. P = Nat
  <2> HIDE DEF P
  <2>1. P \subseteq Nat
    BY DEF P
  <2> QED  BY <1>2, <1>3, <2>1, AllOfNat
<1> QED  BY <1>4

(* WalkUp is the walk of as many steps as there are entries, and one. *)
LEMMA WalkUpIs ==
    ASSUME NEW held \in Collection, NEW fresh
    PROVE  \E F : /\ IsWalk(held, fresh, Cardinality(Ids(held)) + 1, F)
                  /\ \A id : WalkUp(held, id, fresh) = F[Cardinality(Ids(held)) + 1][id]
<1> DEFINE bound == Cardinality(Ids(held)) + 1
           F == CHOOSE G : IsWalk(held, fresh, bound, G)
<1>1. bound \in Nat
  BY IdsType, FS_CardinalityType
<1>2. IsWalk(held, fresh, bound, F)
  BY <1>1, WalkExists
<1>3. \A id : WalkUp(held, id, fresh) = F[bound][id]
  BY DEF WalkUp, IsWalk, Walked
<1> QED  BY <1>2, <1>3

(* Each step of a walk that has steps left goes to the parent. *)
LEMMA WalkStep ==
    ASSUME NEW held, NEW fresh, NEW n \in Nat, NEW F, IsWalk(held, fresh, n, F)
    PROVE  \A left \in 0 .. n - 1, at \in Ids(held) :
              at \in MaybeId /\ at \notin Ids(fresh) \cup {NoId}
                  => F[left + 1][at] = F[left][held.entries[at].parent]
<1> SUFFICES ASSUME NEW left \in 0 .. n - 1, NEW at \in Ids(held), at \in MaybeId,
                    at \notin Ids(fresh) \cup {NoId}
             PROVE  F[left + 1][at] = F[left][held.entries[at].parent]
  OBVIOUS
<1>1. F[left + 1] = Walked(held, fresh, F, left + 1)
  BY DEF IsWalk
<1>2. left + 1 # 0 /\ left + 1 - 1 = left
  OBVIOUS
<1> QED  BY <1>1, <1>2 DEF Walked

(* The walk stays at what is listed, and ends at what is not held. *)
LEMMA WalkStays ==
    ASSUME NEW held, NEW fresh, NEW n \in Nat, NEW F, IsWalk(held, fresh, n, F)
    PROVE  /\ \A left \in 0 .. n, at \in MaybeId :
                 at \in Ids(fresh) \cup {NoId} => F[left][at] = at
           /\ \A left \in 0 .. n, at \in MaybeId :
                 at \notin Ids(fresh) \cup {NoId} /\ at \notin Ids(held) => F[left][at] = NoId
<1>1. \A left \in 0 .. n : F[left] = Walked(held, fresh, F, left)
  BY DEF IsWalk
<1> QED  BY <1>1 DEF Walked

(* The snapshots walked through, whose parents are among them or next: with as *)
(* many steps left as there are others, one step more makes no difference.     *)
Behind(held, V, at) ==
    /\ V \subseteq Ids(held)
    /\ \A id \in V : held.entries[id].parent \in V \cup {at}

(* With as many steps left as there are snapshots ahead, one more changes nothing. *)
LEMMA WalkSettles ==
    ASSUME NEW held \in Collection, Acyclic(held), NEW fresh, NEW n \in Nat, NEW F,
           IsWalk(held, fresh, n, F)
    PROVE  \A left \in Nat, V \in SUBSET Ids(held), at \in MaybeId :
              left < n /\ Behind(held, V, at) /\ Cardinality(Ids(held) \ V) <= left
                  => F[left + 1][at] = F[left][at]
<1> DEFINE Enough(left) ==
               \A V \in SUBSET Ids(held), at \in MaybeId :
                   left < n /\ Behind(held, V, at) /\ Cardinality(Ids(held) \ V) <= left
                       => F[left + 1][at] = F[left][at]
           P == {left \in Nat : Enough(left)}
<1>1. /\ IsFiniteSet(Ids(held))
      /\ \A id \in Ids(held) : id \in MaybeId /\ held.entries[id].parent \in MaybeId
  BY IdsType DEF Snapshot, MaybeId
<1>2. ASSUME NEW V, NEW at \in Ids(held), Behind(held, V, at)
      PROVE  at \notin V
  BY <1>2 DEF Behind, Acyclic
<1>stays. \A left \in 0 .. n, at \in MaybeId :
             at \in Ids(fresh) \cup {NoId} => F[left][at] = at
  BY WalkStays
<1>ends. \A left \in 0 .. n, at \in MaybeId :
            at \notin Ids(fresh) \cup {NoId} /\ at \notin Ids(held) => F[left][at] = NoId
  BY WalkStays
<1>steps. \A left \in 0 .. n - 1, at \in Ids(held) :
             at \in MaybeId /\ at \notin Ids(fresh) \cup {NoId}
                 => F[left + 1][at] = F[left][held.entries[at].parent]
  BY WalkStep
<1>3. 0 \in P
  <2> SUFFICES ASSUME NEW V \in SUBSET Ids(held), NEW at \in MaybeId, 0 < n, Behind(held, V, at),
                      Cardinality(Ids(held) \ V) <= 0
               PROVE  F[1][at] = F[0][at]
    OBVIOUS
  <2>1. IsFiniteSet(Ids(held) \ V)
    BY <1>1, FS_Subset
  <2>2. Cardinality(Ids(held) \ V) = 0
    BY <2>1, FS_CardinalityType
  <2>3. Ids(held) \ V = {}
    BY <2>1, <2>2, FS_EmptySet
  <2>4. at \notin Ids(held)
    BY <2>3, <1>2
  <2>5. 0 \in 0 .. n /\ 1 \in 0 .. n
    OBVIOUS
  <2> QED  BY <2>4, <2>5, <1>stays, <1>ends
<1>4. ASSUME NEW left \in P PROVE left + 1 \in P
  <2> SUFFICES ASSUME NEW V \in SUBSET Ids(held), NEW at \in MaybeId, left + 1 < n, Behind(held, V, at),
                      Cardinality(Ids(held) \ V) <= left + 1
               PROVE  F[left + 2][at] = F[left + 1][at]
    OBVIOUS
  <2>0. left \in Nat /\ Enough(left)
    OBVIOUS
  <2> HIDE DEF P, Enough
  <2>1. /\ left + 2 \in 0 .. n /\ left + 1 \in 0 .. n /\ left < n
        /\ left + 1 \in 0 .. n - 1 /\ left \in 0 .. n - 1 /\ left + 1 + 1 = left + 2
    BY <2>0
  <2>2. CASE at \in Ids(fresh) \cup {NoId} \/ at \notin Ids(held)
    BY <2>1, <2>2, <1>stays, <1>ends
  <2>3. CASE at \notin Ids(fresh) \cup {NoId} /\ at \in Ids(held)
    <3> DEFINE W == V \cup {at}
               parent == held.entries[at].parent
    <3>1. F[left + 2][at] = F[left + 1][parent] /\ F[left + 1][at] = F[left][parent]
      BY <1>1, <2>1, <2>3, <1>steps
    <3>2. at \notin V
      BY <2>3, <1>2
    <3>3. W \in SUBSET Ids(held) /\ Behind(held, W, parent)
      BY <2>3 DEF Behind
    <3>4. Cardinality(Ids(held) \ W) <= left
      <4> DEFINE rest == Ids(held) \ V
      <4>1. Ids(held) \ W = rest \ {at}
        OBVIOUS
      <4>2. IsFiniteSet(rest) /\ at \in rest
        BY <1>1, <2>3, <3>2, FS_Subset
      <4>3. Cardinality(rest) <= left + 1
        OBVIOUS
      <4> HIDE DEF W, rest
      <4>4. Cardinality(rest \ {at}) = Cardinality(rest) - 1
        BY <4>2, FS_RemoveElement
      <4>5. Cardinality(rest) \in Nat
        BY <4>2, FS_CardinalityType
      <4>6. \A size \in Nat : size <= left + 1 => size - 1 <= left
        BY <2>0
      <4>7. Cardinality(rest) - 1 <= left
        BY <4>3, <4>5, <4>6
      <4> QED  BY <4>1, <4>4, <4>7, Zenon
    <3>5. parent \in MaybeId
      BY <1>1, <2>3
    <3> HIDE DEF W, parent
    <3> QED  BY <3>1, <3>3, <3>4, <3>5, <2>0, <2>1 DEF Enough
  <2> QED  BY <2>2, <2>3
<1>5. P = Nat
  <2> HIDE DEF P
  <2>1. P \subseteq Nat
    BY DEF P
  <2> QED  BY <1>3, <1>4, <2>1, AllOfNat
<1> QED  BY <1>5

(* The survivor of a snapshot that is gone is the survivor of its parent. *)
LEMMA SurvivorOfParent ==
    ASSUME NEW held \in Collection, Acyclic(held), NEW fresh,
           NEW id \in Ids(held), id \notin Ids(fresh)
    PROVE  Survivor(held, id, fresh) = Survivor(held, held.entries[id].parent, fresh)
<1> DEFINE count == Cardinality(Ids(held))
           parent == held.entries[id].parent
<1>1. /\ IsFiniteSet(Ids(held)) /\ count \in Nat
      /\ id \in MaybeId /\ id # NoId /\ parent \in MaybeId
      /\ \A other \in Ids(held) : held.entries[other].parent \in MaybeId
  BY IdsType, FS_CardinalityType DEF Snapshot, MaybeId, NoId, SnapshotId
<1>2. PICK F : /\ IsWalk(held, fresh, count + 1, F)
               /\ \A other : WalkUp(held, other, fresh) = F[count + 1][other]
  BY WalkUpIs
<1>0. count + 1 \in Nat /\ count + 1 \in 0 .. count + 1 /\ count \in 0 .. count + 1 - 1
  BY <1>1
<1> HIDE DEF count
<1>3. \A at \in MaybeId : F[count + 1][at] \in Ids(fresh) \cup {NoId}
  BY <1>0, <1>1, <1>2, WalkLands
<1>stays. \A left \in 0 .. count + 1, at \in MaybeId :
             at \in Ids(fresh) \cup {NoId} => F[left][at] = at
  BY <1>0, <1>2, WalkStays
<1>steps. \A left \in 0 .. count + 1 - 1, at \in Ids(held) :
             at \in MaybeId /\ at \notin Ids(fresh) \cup {NoId}
                 => F[left + 1][at] = F[left][held.entries[at].parent]
  BY <1>0, <1>2, WalkStep
<1>settles. \A V \in SUBSET Ids(held), at \in MaybeId :
               Behind(held, V, at) /\ Cardinality(Ids(held) \ V) <= count
                  => F[count + 1][at] = F[count][at]
  <2> DEFINE bound == count + 1
  <2>1. count < bound /\ bound \in Nat /\ IsWalk(held, fresh, bound, F)
    BY <1>1, <1>2
  <2> SUFFICES ASSUME NEW V \in SUBSET Ids(held), NEW at \in MaybeId,
                      Behind(held, V, at), Cardinality(Ids(held) \ V) <= count
               PROVE  F[count + 1][at] = F[count][at]
    OBVIOUS
  <2> HIDE DEF bound
  <2>2. \A left \in Nat, U \in SUBSET Ids(held), a \in MaybeId :
              left < bound /\ Behind(held, U, a) /\ Cardinality(Ids(held) \ U) <= left
                  => F[left + 1][a] = F[left][a]
    BY <2>1, WalkSettles
  <2> QED  BY <1>1, <2>1, <2>2
<1>4. \A at \in MaybeId : Survivor(held, at, fresh) = F[count + 1][at]
  <2> SUFFICES ASSUME NEW at \in MaybeId
               PROVE  Survivor(held, at, fresh) = F[count + 1][at]
    OBVIOUS
  <2>1. at \in Ids(fresh) \cup {NoId} => F[count + 1][at] = at
    BY <1>0, <1>stays
  <2> QED  BY <2>1, <1>2, <1>3 DEF Survivor
<1>5. F[count + 1][id] = F[count][parent]
  BY <1>0, <1>1, <1>steps
<1>6. F[count + 1][parent] = F[count][parent]
  <2>1. {} \in SUBSET Ids(held) /\ Behind(held, {}, parent) /\ Ids(held) \ {} = Ids(held)
    BY DEF Behind
  <2>2. Cardinality(Ids(held) \ {}) <= count
    BY <1>1, <2>1 DEF count
  <2> HIDE DEF parent
  <2> QED  BY <1>1, <2>1, <2>2, <1>settles
<1> QED  BY <1>1, <1>4, <1>5, <1>6

(* Whatever follows the same rule finds the same survivors: there are no cycles *)
(* to walk in.                                                                  *)
LEMMA OnlySurvivor ==
    ASSUME NEW held \in Collection, ParentsListed(held), Acyclic(held), NEW fresh, NEW G,
           \A id \in Ids(held) \cup {NoId} :
               id \in Ids(fresh) \cup {NoId} => G[id] = id,
           \A id \in Ids(held) : id \notin Ids(fresh) => G[id] = G[held.entries[id].parent]
    PROVE  \A id \in Ids(held) \cup {NoId} : G[id] = Survivor(held, id, fresh)
<1> DEFINE Wrong == {id \in Ids(held) : G[id] # Survivor(held, id, fresh)}
<1>1. \A id : id \in Ids(fresh) \cup {NoId} => Survivor(held, id, fresh) = id
  BY DEF Survivor
<1>2. ASSUME Wrong # {} PROVE FALSE
  <2>1. PICK id \in Wrong : held.entries[id].parent \notin Wrong
    BY <1>2 DEF Acyclic
  <2>2. id \in Ids(held) /\ id \notin Ids(fresh)
    BY <1>1
  <2>3. held.entries[id].parent \in Ids(held) \cup {NoId}
    BY <2>2 DEF ParentsListed
  <2>4. Survivor(held, id, fresh) = Survivor(held, held.entries[id].parent, fresh)
    BY <2>2, SurvivorOfParent
  <2>5. G[held.entries[id].parent] = Survivor(held, held.entries[id].parent, fresh)
    BY <1>1, <2>1, <2>3
  <2> QED  BY <2>2, <2>4, <2>5
<1> QED  BY <1>1, <1>2

(* A survivor is a listed ancestor, of those the older list holds. *)
LEMMA SurvivorIsHeld ==
    ASSUME NEW held \in Collection, ParentsListed(held), Acyclic(held), NEW fresh,
           NEW id \in Ids(held) \cup {NoId}
    PROVE  Survivor(held, id, fresh) \in (Ids(held) \cap Ids(fresh)) \cup {NoId}
<1> DEFINE Kept == (Ids(held) \cap Ids(fresh)) \cup {NoId}
           Wrong == {other \in Ids(held) : Survivor(held, other, fresh) \notin Kept}
<1>1. \A other : other \in Ids(fresh) \cup {NoId} => Survivor(held, other, fresh) = other
  BY DEF Survivor
<1>2. ASSUME Wrong # {} PROVE FALSE
  <2>1. PICK other \in Wrong : held.entries[other].parent \notin Wrong
    BY <1>2 DEF Acyclic
  <2>2. other \in Ids(held) /\ other \notin Ids(fresh)
    BY <1>1
  <2>3. held.entries[other].parent \in Ids(held) \cup {NoId}
    BY <2>2 DEF ParentsListed
  <2>4. Survivor(held, other, fresh) = Survivor(held, held.entries[other].parent, fresh)
    BY <2>2, SurvivorOfParent
  <2> QED  BY <1>1, <2>1, <2>2, <2>3, <2>4
<1> QED  BY <1>1, <1>2

(* Survivors depend on what of the older list is still listed, and on its parents. *)
LEMMA SameSurvivor ==
    ASSUME NEW held \in Collection, ParentsListed(held), Acyclic(held),
           NEW after \in Collection, ParentsListed(after), Acyclic(after),
           Ids(after) = Ids(held),
           \A id \in Ids(held) : after.entries[id].parent = held.entries[id].parent,
           NEW fresh, NEW other, Ids(held) \cap Ids(fresh) = Ids(held) \cap Ids(other)
    PROVE  \A id \in Ids(held) \cup {NoId} : Survivor(after, id, other) = Survivor(held, id, fresh)
<1> DEFINE G == [id \in Ids(held) \cup {NoId} |-> Survivor(held, id, fresh)]
<1>1. \A id : id \in Ids(fresh) \cup {NoId} => Survivor(held, id, fresh) = id
  BY DEF Survivor
<1>2. \A id \in Ids(held) : id \notin Ids(fresh) =>
         /\ Survivor(held, id, fresh) = Survivor(held, held.entries[id].parent, fresh)
         /\ held.entries[id].parent \in Ids(held) \cup {NoId}
  BY SurvivorOfParent DEF ParentsListed
<1>3. \A id \in Ids(after) \cup {NoId} : id \in Ids(other) \cup {NoId} => G[id] = id
  BY <1>1
<1>4. \A id \in Ids(after) : id \notin Ids(other) => G[id] = G[after.entries[id].parent]
  BY <1>2
<1>5. \A id \in Ids(held) \cup {NoId} : G[id] = Survivor(held, id, fresh)
  OBVIOUS
<1> HIDE DEF G
<1>6. \A id \in Ids(after) \cup {NoId} : G[id] = Survivor(after, id, other)
  BY <1>3, <1>4, OnlySurvivor
<1> QED  BY <1>5, <1>6

-----------------------------------------------------------------------------
(* What a write does to the forest: it keeps what is there where it is, or takes *)
(* one snapshot out and hands its children to its parent.                        *)
KeepsTree(old, new) ==
    \A id \in Ids(old) :
        id \in Ids(new) /\ new.entries[id].parent = old.entries[id].parent

TakesOut(old, new, gone) ==
    /\ gone \in Ids(old)
    /\ Ids(new) = Ids(old) \ {gone}
    /\ \A id \in Ids(new) :
          new.entries[id].parent = IF old.entries[id].parent = gone THEN old.entries[gone].parent
                                   ELSE old.entries[id].parent

(* The older list finds the current one's parents: where a snapshot hangs now is *)
(* the nearest ancestor left of where it hung.                                   *)
Lineage(held, current) ==
    /\ ParentsListed(held)
    /\ Acyclic(held)
    /\ \A id \in Ids(held) \cap Ids(current) :
          current.entries[id].parent = Survivor(held, held.entries[id].parent, current)

(* A forest is its own lineage. *)
LEMMA OwnLineage ==
    ASSUME NEW c, ParentsListed(c), Acyclic(c)
    PROVE  Lineage(c, c)
BY DEF Lineage, Survivor, ParentsListed

(* The lists between which a write is made, and an older one, whose ids new *)
(* entries do not take.                                                     *)
LEMMA KeptSurvivors ==
    ASSUME NEW held \in Collection, NEW old, NEW new,
           Lineage(held, old), KeepsTree(old, new),
           \A id \in Ids(held) : id \in Ids(new) => id \in Ids(old)
    PROVE  /\ Lineage(held, new)
           /\ \A id \in Ids(held) \cup {NoId} :
                 Survivor(held, id, new) = Survivor(held, id, old)
<1>1. Ids(held) \cap Ids(old) = Ids(held) \cap Ids(new)
  BY DEF KeepsTree
<1>2. \A id \in Ids(held) \cup {NoId} : Survivor(held, id, new) = Survivor(held, id, old)
  BY <1>1, SameSurvivor DEF Lineage
<1> QED  BY <1>2 DEF Lineage, KeepsTree, ParentsListed

(* When a snapshot is taken out, what led to it leads to its parent. *)
LEMMA HeirSurvives ==
    ASSUME NEW held \in Collection, NEW old, NEW new, NEW gone,
           Lineage(held, old), TakesOut(old, new, gone), old.entries[gone].parent # gone
    PROVE  /\ Lineage(held, new)
           /\ \A id \in Ids(held) \cup {NoId} :
                 Survivor(held, id, new) =
                     IF Survivor(held, id, old) = gone THEN old.entries[gone].parent
                     ELSE Survivor(held, id, old)
<1> DEFINE heir(id) == IF id = gone THEN old.entries[gone].parent ELSE id
           G == [id \in Ids(held) \cup {NoId} |-> heir(Survivor(held, id, old))]
<1>0. ParentsListed(held) /\ Acyclic(held)
  BY DEF Lineage
<1>1. \A id : id \in Ids(old) \cup {NoId} => Survivor(held, id, old) = id
  BY DEF Survivor
<1>2. \A id \in Ids(held) : id \notin Ids(old) =>
         /\ Survivor(held, id, old) = Survivor(held, held.entries[id].parent, old)
         /\ held.entries[id].parent \in Ids(held) \cup {NoId}
  BY <1>0, SurvivorOfParent DEF ParentsListed
<1>3. \A id : id \in Ids(new) \cup {NoId} => id \in Ids(old) \cup {NoId} /\ id # gone
  BY DEF TakesOut, Ids, SnapshotId, NoId
<1>4. \A id \in Ids(held) \cup {NoId} : id \in Ids(new) \cup {NoId} => G[id] = id
  BY <1>1, <1>3
<1>5. \A id \in Ids(held) : id \notin Ids(new) => G[id] = G[held.entries[id].parent]
  <2> SUFFICES ASSUME NEW id \in Ids(held), id \notin Ids(new)
               PROVE  G[id] = G[held.entries[id].parent]
    OBVIOUS
  <2>1. CASE id \notin Ids(old)
    BY <1>2, <2>1
  <2>2. CASE id \in Ids(old)
    <3>1. id = gone
      BY <2>2 DEF TakesOut
    <3>2. Survivor(held, id, old) = gone
      BY <1>1, <2>2, <3>1
    <3>3. old.entries[gone].parent = Survivor(held, held.entries[id].parent, old)
      BY <2>2, <3>1 DEF Lineage
    <3>4. held.entries[id].parent \in Ids(held) \cup {NoId}
      BY <1>0 DEF ParentsListed
    <3> QED  BY <3>2, <3>3, <3>4
  <2> QED  BY <2>1, <2>2
<1>6. \A id \in Ids(held) \cup {NoId} : G[id] = heir(Survivor(held, id, old))
  OBVIOUS
<1> HIDE DEF G
<1>7. \A id \in Ids(held) \cup {NoId} : G[id] = Survivor(held, id, new)
  BY <1>0, <1>4, <1>5, OnlySurvivor
<1>8. \A id \in Ids(held) \cup {NoId} : Survivor(held, id, new) = heir(Survivor(held, id, old))
  BY <1>6, <1>7
<1>9. ASSUME NEW id \in Ids(held) \cap Ids(new)
      PROVE  new.entries[id].parent = Survivor(held, held.entries[id].parent, new)
  <2>1. id \in Ids(old) /\ new.entries[id].parent = heir(old.entries[id].parent)
    BY DEF TakesOut
  <2>2. old.entries[id].parent = Survivor(held, held.entries[id].parent, old)
    BY <2>1 DEF Lineage
  <2>3. held.entries[id].parent \in Ids(held) \cup {NoId}
    BY <1>0 DEF ParentsListed
  <2> QED  BY <1>8, <2>1, <2>2, <2>3
<1> QED  BY <1>0, <1>8, <1>9 DEF Lineage

(* No snapshot is its own parent. *)
LEMMA NotOwnParent ==
    ASSUME NEW c, Acyclic(c), NEW id \in Ids(c)
    PROVE  c.entries[id].parent # id
<1>1. {id} \in SUBSET Ids(c) /\ {id} # {}
  OBVIOUS
<1> QED  BY <1>1 DEF Acyclic

(* Lists that differ in thumbnails only lead to the same parents. *)
LEMMA SameParents ==
    ASSUME NEW one \in Collection, NEW other \in Collection, SameEntries(one, other)
    PROVE  /\ Ids(one) = Ids(other)
           /\ \A id \in Ids(one) : other.entries[id].parent = one.entries[id].parent
<1>1. ASSUME NEW id \in Ids(one)
      PROVE  other.entries[id].parent = one.entries[id].parent
  <2>1. one.entries[id] \in Snapshot /\ other.entries[id] \in Snapshot
    BY IdsType DEF SameEntries
  <2>2. /\ [one.entries[id] EXCEPT !.thumbnail = FALSE].parent = one.entries[id].parent
        /\ [other.entries[id] EXCEPT !.thumbnail = FALSE].parent = other.entries[id].parent
    BY <2>1 DEF Snapshot
  <2>3. [one.entries[id] EXCEPT !.thumbnail = FALSE] =
            [other.entries[id] EXCEPT !.thumbnail = FALSE]
    BY DEF SameEntries
  <2> QED  BY <2>2, <2>3
<1> QED  BY <1>1 DEF SameEntries

(* Thumbnails do not change where the walk leads. *)
LEMMA LineageOfSame ==
    ASSUME NEW held \in Collection, NEW after \in Collection, SameEntries(held, after),
           NEW current, Lineage(held, current)
    PROVE  /\ Lineage(after, current)
           /\ \A id \in Ids(held) \cup {NoId} :
                 Survivor(after, id, current) = Survivor(held, id, current)
<1>1. /\ Ids(after) = Ids(held)
      /\ \A id \in Ids(held) : after.entries[id].parent = held.entries[id].parent
  BY SameParents
<1>2. ParentsListed(after) /\ Acyclic(after)
  BY <1>1 DEF Lineage, ParentsListed, Acyclic
<1>3. \A id \in Ids(held) \cup {NoId} :
         Survivor(after, id, current) = Survivor(held, id, current)
  BY <1>1, <1>2, SameSurvivor DEF Lineage
<1> QED  BY <1>1, <1>2, <1>3 DEF Lineage, ParentsListed

-----------------------------------------------------------------------------
(* What any write promises of the list it leaves: the counter does not fall,  *)
(* what is new was never there, a revision names one list and an id one look, *)
(* and the forest is left as it was or loses one snapshot.                    *)
Later(old, new) ==
    /\ new.nextId >= old.nextId
    /\ \A id \in Ids(new) \ Ids(old) : id >= old.nextId
    /\ new.revision >= old.revision
    /\ new.revision = old.revision => SameSnapshots(old, new)
    /\ \A id \in Ids(old) \cap Ids(new) : new.entries[id].recipe = old.entries[id].recipe
    /\ KeepsTree(old, new) \/ \E gone \in SnapshotId : TakesOut(old, new, gone)

(* Counters and ids are numbers. *)
LEMMA ListNumbers ==
    ASSUME NEW c \in Collection
    PROVE  c.nextId \in Int /\ c.revision \in Int /\ \A id \in Ids(c) : id \in Int
BY SnapshotsAssumption, IdsType DEF Collection, SnapshotId

(* A list follows upon itself. *)
LEMMA SameIsLater ==
    ASSUME NEW c \in Collection
    PROVE  Later(c, c)
BY ListNumbers DEF Later, SameSnapshots, SameEntries, KeepsTree

(* Each structural write, and the storing of thumbnails, keeps those promises. *)
LEMMA AddLater ==
    ASSUME NEW f \in Contents, NEW draft \in Snapshot, Sound(f), CanAdd(f, draft)
    PROVE  Later(f.snapshots, AddSnapshot(f, draft).snapshots)
<1> DEFINE old == f.snapshots
           new == AddSnapshot(f, draft).snapshots
<1>1. old \in Collection /\ BelowCounter(old) /\ old.nextId # MaximumId
  BY DEF Contents, Sound, Valid, CanAdd
<1>2. /\ new.revision = old.revision + 1
      /\ new.nextId = old.nextId + 1
      /\ Ids(new) = Ids(old) \cup {old.nextId}
      /\ \A id \in Ids(old) : new.entries[id] = old.entries[id]
  BY <1>1, AddEffect
<1> HIDE DEF old, new
<1>3. KeepsTree(old, new)
  BY <1>2 DEF KeepsTree
<1> QED  BY <1>1, <1>2, <1>3, ListNumbers DEF Later, old, new

(* A renamed snapshot keeps its id, its look and its place. *)
LEMMA RenameLater ==
    ASSUME NEW f \in Contents, NEW id \in Ids(f.snapshots), NEW name \in Names
    PROVE  Later(f.snapshots, RenameSnapshot(f, id, name).snapshots)
<1> DEFINE old == f.snapshots
           new == RenameSnapshot(f, id, name).snapshots
<1>1. old \in Collection
  BY DEF Contents
<1>2. /\ new.revision = old.revision + 1
      /\ new.nextId = old.nextId
      /\ Ids(new) = Ids(old)
      /\ \A i \in Ids(old) : /\ new.entries[i].parent = old.entries[i].parent
                             /\ new.entries[i].recipe = old.entries[i].recipe
  BY RenameEffect
<1> HIDE DEF old, new
<1>3. KeepsTree(old, new)
  BY <1>2 DEF KeepsTree
<1> QED  BY <1>1, <1>2, <1>3, ListNumbers DEF Later, old, new

(* A deleted snapshot is the one taken out. *)
LEMMA DeleteLater ==
    ASSUME NEW f \in Contents, Sound(f), NEW id \in Ids(f.snapshots)
    PROVE  Later(f.snapshots, DeleteSnapshot(f, id).snapshots)
<1> DEFINE old == f.snapshots
           new == DeleteSnapshot(f, id).snapshots
<1>1. old \in Collection
  BY DEF Contents
<1>2. /\ new.revision = old.revision + 1
      /\ new.nextId = old.nextId
      /\ Ids(new) = Ids(old) \ {id}
      /\ \A i \in Ids(new) :
            /\ new.entries[i].recipe = old.entries[i].recipe
            /\ new.entries[i].parent = IF old.entries[i].parent = id THEN old.entries[id].parent
                                       ELSE old.entries[i].parent
  BY DeleteEffect DEF Sound
<1>3. id \in Ids(old) /\ id \in SnapshotId
  BY <1>1, IdsType
<1> HIDE DEF old, new
<1>4. TakesOut(old, new, id)
  BY <1>2, <1>3 DEF TakesOut
<1> QED  BY <1>1, <1>2, <1>3, <1>4, ListNumbers DEF Later, old, new

(* Discarding what cannot be read leaves every snapshot where it is. *)
LEMMA DiscardLater ==
    ASSUME NEW f \in Contents, NEW nextId \in f.snapshots.nextId .. MaximumId
    PROVE  Later(f.snapshots, DiscardUnreadable(f, nextId).snapshots)
<1> DEFINE old == f.snapshots
           new == DiscardUnreadable(f, nextId).snapshots
<1>1. old \in Collection
  BY DEF Contents
<1>2. /\ new.revision = old.revision + 1
      /\ new.nextId = nextId /\ nextId >= old.nextId
      /\ Ids(new) = Ids(old)
      /\ new.entries = old.entries
  BY DiscardEffect
<1> HIDE DEF old, new
<1>3. KeepsTree(old, new)
  BY <1>2 DEF KeepsTree
<1> QED  BY <1>1, <1>2, <1>3, ListNumbers DEF Later, old, new

(* Thumbnails do not raise the revision, so the list has to stay the same. *)
LEMMA ThumbnailLater ==
    ASSUME NEW f \in Contents, NEW ids \in SUBSET Ids(f.snapshots)
    PROVE  Later(f.snapshots, SetThumbnails(f, ids).snapshots)
<1> DEFINE old == f.snapshots
           new == SetThumbnails(f, ids).snapshots
<1>1. old \in Collection
  BY DEF Contents
<1>2. /\ new.revision = old.revision
      /\ new.nextId = old.nextId
      /\ Ids(new) = Ids(old)
      /\ SameSnapshots(old, new)
      /\ \A i \in Ids(old) : /\ new.entries[i].parent = old.entries[i].parent
                             /\ new.entries[i].recipe = old.entries[i].recipe
  BY ThumbnailEffect
<1> HIDE DEF old, new
<1>3. KeepsTree(old, new)
  BY <1>2 DEF KeepsTree
<1> QED  BY <1>1, <1>2, <1>3, ListNumbers DEF Later, old, new

-----------------------------------------------------------------------------
(* What a structural write does to the saved settings: nothing, but for a saved *)
(* base on the snapshot taken out, which goes to its parent.                    *)
Follows(f, g) ==
    /\ g.recipe = f.recipe
    /\ \/ KeepsTree(f.snapshots, g.snapshots) /\ g.savedBase = f.savedBase
       \/ \E gone \in SnapshotId :
             /\ TakesOut(f.snapshots, g.snapshots, gone)
             /\ g.savedBase = IF f.savedBase = gone THEN f.snapshots.entries[gone].parent
                              ELSE f.savedBase

(* No structural write, and no write of marks, changes the settings. *)
LEMMA SettingsStay ==
    ASSUME NEW f \in Contents
    PROVE  /\ \A draft : AddSnapshot(f, draft).recipe = f.recipe
           /\ \A id, name : RenameSnapshot(f, id, name).recipe = f.recipe
           /\ \A id : DeleteSnapshot(f, id).recipe = f.recipe
           /\ \A nextId : DiscardUnreadable(f, nextId).recipe = f.recipe
           /\ \A ids : SetThumbnails(f, ids).recipe = f.recipe
           /\ \A changes : WriteMarks(f, changes).recipe = f.recipe
BY DEF AddSnapshot, RenameSnapshot, DeleteSnapshot, DiscardUnreadable, SetThumbnails,
       WriteMarks, Edited, Contents

(* Each structural write treats the saved settings so. *)
LEMMA AddFollows ==
    ASSUME NEW f \in Contents, NEW draft \in Snapshot, Sound(f), CanAdd(f, draft)
    PROVE  Follows(f, AddSnapshot(f, draft))
<1> DEFINE g == AddSnapshot(f, draft)
<1>1. BelowCounter(f.snapshots) /\ f.snapshots.nextId # MaximumId
  BY DEF Sound, Valid, CanAdd
<1>2. /\ g.savedBase = f.savedBase
      /\ Ids(g.snapshots) = Ids(f.snapshots) \cup {f.snapshots.nextId}
      /\ \A id \in Ids(f.snapshots) : g.snapshots.entries[id] = f.snapshots.entries[id]
  BY <1>1, AddEffect
<1>3. g.recipe = f.recipe
  BY SettingsStay
<1> HIDE DEF g
<1> QED  BY <1>2, <1>3 DEF Follows, KeepsTree, g

(* A renamed snapshot stays the saved base. *)
LEMMA RenameFollows ==
    ASSUME NEW f \in Contents, NEW id \in Ids(f.snapshots), NEW name \in Names
    PROVE  Follows(f, RenameSnapshot(f, id, name))
<1> DEFINE g == RenameSnapshot(f, id, name)
<1>1. /\ g.savedBase = f.savedBase
      /\ Ids(g.snapshots) = Ids(f.snapshots)
      /\ \A i \in Ids(f.snapshots) :
            g.snapshots.entries[i].parent = f.snapshots.entries[i].parent
  BY RenameEffect
<1>2. g.recipe = f.recipe
  BY SettingsStay
<1> HIDE DEF g
<1> QED  BY <1>1, <1>2 DEF Follows, KeepsTree, g

(* A saved base on the deleted snapshot goes to its parent. *)
LEMMA DeleteFollows ==
    ASSUME NEW f \in Contents, Sound(f), NEW id \in Ids(f.snapshots)
    PROVE  Follows(f, DeleteSnapshot(f, id))
<1> DEFINE g == DeleteSnapshot(f, id)
<1>1. /\ g.savedBase = IF f.savedBase = id THEN f.snapshots.entries[id].parent ELSE f.savedBase
      /\ Ids(g.snapshots) = Ids(f.snapshots) \ {id}
      /\ \A i \in Ids(g.snapshots) :
            g.snapshots.entries[i].parent =
                IF f.snapshots.entries[i].parent = id THEN f.snapshots.entries[id].parent
                ELSE f.snapshots.entries[i].parent
  BY DeleteEffect DEF Sound
<1>2. g.recipe = f.recipe
  BY SettingsStay
<1>3. id \in SnapshotId
  BY IdsType DEF Contents
<1> HIDE DEF g
<1>4. TakesOut(f.snapshots, g.snapshots, id)
  BY <1>1 DEF TakesOut
<1> QED  BY <1>1, <1>2, <1>3, <1>4 DEF Follows, g

(* A discard leaves the saved base where it is. *)
LEMMA DiscardFollows ==
    ASSUME NEW f \in Contents, NEW nextId \in f.snapshots.nextId .. MaximumId
    PROVE  Follows(f, DiscardUnreadable(f, nextId))
<1> DEFINE g == DiscardUnreadable(f, nextId)
<1>1. /\ g.savedBase = f.savedBase
      /\ g.snapshots.entries = f.snapshots.entries
      /\ Ids(g.snapshots) = Ids(f.snapshots)
  BY DiscardEffect
<1>2. g.recipe = f.recipe
  BY SettingsStay
<1> HIDE DEF g
<1> QED  BY <1>1, <1>2 DEF Follows, KeepsTree, g

(* So does storing thumbnails. *)
LEMMA ThumbnailFollows ==
    ASSUME NEW f \in Contents, NEW ids \in SUBSET Ids(f.snapshots)
    PROVE  Follows(f, SetThumbnails(f, ids))
<1> DEFINE g == SetThumbnails(f, ids)
<1>1. /\ g.savedBase = f.savedBase
      /\ Ids(g.snapshots) = Ids(f.snapshots)
      /\ \A i \in Ids(f.snapshots) :
            g.snapshots.entries[i].parent = f.snapshots.entries[i].parent
  BY ThumbnailEffect
<1>2. g.recipe = f.recipe
  BY SettingsStay
<1> HIDE DEF g
<1> QED  BY <1>1, <1>2 DEF Follows, KeepsTree, g

(* So does a write of marks. *)
LEMMA MarksFollow ==
    ASSUME NEW f \in Contents, NEW changes \in MarkChanges
    PROVE  Follows(f, WriteMarks(f, changes))
BY MarksEffect, SettingsStay DEF Follows, KeepsTree

-----------------------------------------------------------------------------
(* Sound contents stay sound, whichever write is made. *)
LEMMA AddSound ==
    ASSUME NEW f \in Contents, NEW draft \in Snapshot, Sound(f), CanAdd(f, draft)
    PROVE  AddSnapshot(f, draft) \in Contents /\ Sound(AddSnapshot(f, draft))
<1>1. BelowCounter(f.snapshots) /\ f.snapshots.nextId # MaximumId
  BY DEF Sound, Valid, CanAdd
<1>2. /\ AddSnapshot(f, draft) \in Contents
      /\ AddSnapshot(f, draft).savedBase = f.savedBase
      /\ Ids(AddSnapshot(f, draft).snapshots) = Ids(f.snapshots) \cup {f.snapshots.nextId}
  BY <1>1, AddEffect
<1>3. Valid(AddSnapshot(f, draft).snapshots)
  BY AddKeepsValid DEF Sound
<1> QED  BY <1>2, <1>3 DEF Sound, CanBase

(* A rename changes no reference. *)
LEMMA RenameSound ==
    ASSUME NEW f \in Contents, Sound(f), NEW id \in Ids(f.snapshots), NEW name \in Names
    PROVE  RenameSnapshot(f, id, name) \in Contents /\ Sound(RenameSnapshot(f, id, name))
<1> DEFINE g == RenameSnapshot(f, id, name)
<1>1. /\ g \in Contents
      /\ g.savedBase = f.savedBase
      /\ Ids(g.snapshots) = Ids(f.snapshots)
      /\ g.snapshots.nextId = f.snapshots.nextId
      /\ \A i \in Ids(f.snapshots) :
            g.snapshots.entries[i].parent = f.snapshots.entries[i].parent
  BY RenameEffect
<1> HIDE DEF g
<1>2. f.snapshots \in Collection /\ g.snapshots \in Collection
      /\ g.snapshots.nextId >= f.snapshots.nextId
  BY <1>1, ListNumbers DEF Contents
<1>3. Valid(g.snapshots)
  BY <1>1, <1>2, SameTreeIsValid DEF Sound
<1> QED  BY <1>1, <1>3 DEF Sound, CanBase, g

(* A deletion leaves no reference to what it takes out. *)
LEMMA DeleteSound ==
    ASSUME NEW f \in Contents, Sound(f), NEW id \in Ids(f.snapshots)
    PROVE  DeleteSnapshot(f, id) \in Contents /\ Sound(DeleteSnapshot(f, id))
BY DeleteEffect, DeleteKeepsSound DEF Sound

(* A discard may only raise the counter. *)
LEMMA DiscardSound ==
    ASSUME NEW f \in Contents, Sound(f), NEW nextId \in f.snapshots.nextId .. MaximumId
    PROVE  DiscardUnreadable(f, nextId) \in Contents /\ Sound(DiscardUnreadable(f, nextId))
<1> DEFINE g == DiscardUnreadable(f, nextId)
<1>1. /\ g \in Contents
      /\ g.savedBase = f.savedBase
      /\ g.snapshots.nextId = nextId
      /\ g.snapshots.entries = f.snapshots.entries
      /\ Ids(g.snapshots) = Ids(f.snapshots)
  BY DiscardEffect
<1> HIDE DEF g
<1>2. f.snapshots \in Collection /\ g.snapshots \in Collection
      /\ g.snapshots.nextId >= f.snapshots.nextId
  BY <1>1, ListNumbers DEF Contents
<1>3. Valid(g.snapshots)
  BY <1>1, <1>2, SameTreeIsValid DEF Sound
<1> QED  BY <1>1, <1>3 DEF Sound, CanBase, g

(* Thumbnails change no reference. *)
LEMMA ThumbnailSound ==
    ASSUME NEW f \in Contents, Sound(f), NEW ids \in SUBSET Ids(f.snapshots)
    PROVE  SetThumbnails(f, ids) \in Contents /\ Sound(SetThumbnails(f, ids))
<1> DEFINE g == SetThumbnails(f, ids)
<1>1. /\ g \in Contents
      /\ g.savedBase = f.savedBase
      /\ Ids(g.snapshots) = Ids(f.snapshots)
      /\ g.snapshots.nextId = f.snapshots.nextId
      /\ \A i \in Ids(f.snapshots) :
            g.snapshots.entries[i].parent = f.snapshots.entries[i].parent
  BY ThumbnailEffect
<1> HIDE DEF g
<1>2. f.snapshots \in Collection /\ g.snapshots \in Collection
      /\ g.snapshots.nextId >= f.snapshots.nextId
  BY <1>1, ListNumbers DEF Contents
<1>3. Valid(g.snapshots)
  BY <1>1, <1>2, SameTreeIsValid DEF Sound
<1> QED  BY <1>1, <1>3 DEF Sound, CanBase, g

(* Settings, marks and a base that is listed leave the list as it is. *)
LEMMA MarksSound ==
    ASSUME NEW f \in Contents, Sound(f), NEW changes \in MarkChanges
    PROVE  WriteMarks(f, changes) \in Contents /\ Sound(WriteMarks(f, changes))
BY MarksEffect DEF Sound, CanBase

(* Saved settings that keep the base keep it listed. *)
LEMMA ActiveSound ==
    ASSUME NEW f \in Contents, Sound(f), NEW recipe \in Recipe, NEW changes \in MarkChanges
    PROVE  WriteActive(f, recipe, changes) \in Contents /\ Sound(WriteActive(f, recipe, changes))
BY ActiveEffect DEF Sound, CanBase

(* A base that is listed may be saved. *)
LEMMA ActiveAndBaseSound ==
    ASSUME NEW f \in Contents, Sound(f), NEW recipe \in Recipe, NEW changes \in MarkChanges,
           NEW base \in MaybeId, CanBase(f, base)
    PROVE  /\ WriteActiveAndBase(f, recipe, base, changes) \in Contents
           /\ Sound(WriteActiveAndBase(f, recipe, base, changes))
BY ActiveAndBaseEffect DEF Sound, CanBase

(* A write that names no marks is one. *)
LEMMA NoMarksType == << >> \in MarkChanges
<1>1. << >> \in [{} -> MarkValues]
  OBVIOUS
<1>2. {} \in SUBSET MarkNames
  OBVIOUS
<1> QED  BY <1>1, <1>2 DEF MarkChanges

(* The marks that differ, and all of them, are changes of marks. *)
LEMMA ChangedMarksType ==
    ASSUME NEW from \in Marks, NEW to \in Marks
    PROVE  /\ ChangedMarks(from, to) \in MarkChanges
           /\ DOMAIN ChangedMarks(from, to) = {n \in MarkNames : from[n] # to[n]}
           /\ to \in MarkChanges
<1> DEFINE changed == {n \in MarkNames : from[n] # to[n]}
<1>1. ChangedMarks(from, to) \in [changed -> MarkValues]
  BY DEF ChangedMarks, Marks
<1>2. changed \in SUBSET MarkNames /\ MarkNames \in SUBSET MarkNames
  OBVIOUS
<1>3. to \in [MarkNames -> MarkValues]
  BY DEF Marks
<1> QED  BY <1>1, <1>2, <1>3 DEF MarkChanges

-----------------------------------------------------------------------------
(* Calls of a session. *)

(* The ids a reference may name. *)
Listed(session) == Ids(session.held) \cup {NoId}

Steps(session) == 1 .. Len(session.history)

(* A session's parts are of their types and refer to listed snapshots only. *)
Anchorable(session) ==
    /\ session \in Sessions
    /\ session.position \in Steps(session)
    /\ session.now.base \in Listed(session)
    /\ session.savedBase \in Listed(session)
    /\ editing(session) => session.baseline.base \in Listed(session)
    /\ \A i \in Steps(session) : session.history[i].base \in Listed(session)

WellFormed(session) == Anchorable(session) /\ StepIsCurrent(session)

(* What no edit touches. *)
Frame(session, after) ==
    /\ after.held = session.held
    /\ after.saved = session.saved
    /\ after.savedBase = session.savedBase
    /\ after.baseKnown = session.baseKnown
    /\ after.marks = session.marks
    /\ after.unreadable = session.unreadable

(* Good order is what the components' invariants ask of a session. *)
LEMMA WellFormedMeans ==
    ASSUME NEW session
    PROVE  WellFormed(session) <=> /\ session \in Sessions
                                   /\ session.position \in Steps(session)
                                   /\ StepIsCurrent(session)
                                   /\ BasesListed(session)
BY DEF WellFormed, Anchorable, BasesListed, Bases, Steps, Listed

(* A look is no placeholder for one. *)
LEMMA PointIsNoPlaceholder == NoEdit \notin Point
BY HistoryAssumption DEF Point

(* The parts of a session in good order. *)
LEMMA SessionParts ==
    ASSUME NEW session \in Sessions
    PROVE  /\ session.now \in Point
           /\ session.now.recipe \in Recipe
           /\ session.now.base \in MaybeId
           /\ session.now = [recipe |-> session.now.recipe, base |-> session.now.base]
           /\ editing(session) => session.baseline \in Point
           /\ ~editing(session) => session.baseline = NoEdit
           /\ session.history \in Seq(Point)
           /\ session.position \in Nat
           /\ Len(session.history) \in Nat
           /\ session.held \in Collection
           /\ session.savedBase \in MaybeId
           /\ session.saved \in Recipe
           /\ session.marks \in Marks
           /\ session.unreadable \in Nat
           /\ session.baseKnown \in BOOLEAN
<1>1. session.history \in Seq(Point)
  BY DEF Sessions
<1>2. Len(session.history) \in Nat
  BY <1>1, LenProperties
<1> QED  BY <1>1, <1>2 DEF Sessions, Point, editing

(* Recording the lens match gives a recipe. *)
LEMMA LensRecipe ==
    ASSUME NEW before \in Recipe, NEW after \in Recipe
    PROVE  withLensRecorded(before, after) \in Recipe
BY HistoryAssumption DEF withLensRecorded, RecordLensMatch, Recipe

(* The look a commit leaves is one. *)
LEMMA SettlingType ==
    ASSUME NEW session \in Sessions
    PROVE  Settling(session) \in Recipe
<1>1. session.now.recipe \in Recipe /\ (editing(session) => session.baseline.recipe \in Recipe)
  BY SessionParts DEF Point
<1> QED  BY <1>1, LensRecipe DEF Settling

-----------------------------------------------------------------------------
(* Appending makes the working look the current and the last step. *)
LEMMA AppendWell ==
    ASSUME NEW session, Anchorable(session), ~editing(session)
    PROVE  LET after == appendStep(session)
           IN  /\ WellFormed(after)
               /\ Frame(session, after)
               /\ ~editing(after)
               /\ after.now = session.now
               /\ after.position = session.position + 1
               /\ Len(after.history) = session.position + 1
<1> DEFINE kept == SubSeq(session.history, 1, session.position)
           steps == Append(kept, session.now)
           after == appendStep(session)
<1>1. /\ session \in Sessions /\ session.position \in Steps(session)
      /\ session.now \in Point
      /\ session.history \in Seq(Point)
      /\ session.position \in Nat
      /\ Len(session.history) \in Nat
      /\ session.baseline = NoEdit
  BY SessionParts DEF Anchorable
<1>2. \A i \in 1 .. session.position : session.history[i] \in Point
  BY <1>1, ElementOfSeq DEF Steps
<1>3. /\ kept \in Seq(Point)
      /\ Len(kept) = session.position
      /\ \A i \in 1 .. session.position : kept[i] = session.history[i]
  <2>1. session.position >= 1
    BY <1>1 DEF Steps
  <2>2. /\ kept \in Seq(Point)
        /\ Len(kept) = IF 1 <= session.position THEN session.position - 1 + 1 ELSE 0
        /\ \A i \in 1 .. session.position - 1 + 1 : kept[i] = session.history[1 + i - 1]
    BY <1>1, <1>2, SubSeqProperties
  <2> QED  BY <2>1, <2>2, <1>1
<1> HIDE DEF kept
<1>4. /\ steps \in Seq(Point)
      /\ Len(steps) = session.position + 1
      /\ steps[session.position + 1] = session.now
      /\ \A i \in 1 .. session.position : steps[i] = session.history[i]
  BY <1>1, <1>3, AppendProperties
<1> HIDE DEF steps
<1>5. after = [session EXCEPT !.history = steps, !.position = session.position + 1]
  BY DEF appendStep, steps, kept
<1>6. /\ after \in Sessions
      /\ after.history = steps
      /\ after.position = session.position + 1
      /\ after.now = session.now
      /\ after.baseline = NoEdit
      /\ Frame(session, after)
  <2>1. session.position + 1 \in Nat
    BY <1>1
  <2> QED  BY <2>1, <1>1, <1>4, <1>5 DEF Sessions, Frame
<1> HIDE DEF after
<1>7. ~editing(after)
  BY <1>6 DEF editing
<1>8. Listed(after) = Listed(session)
  BY <1>6 DEF Listed, Frame
<1>9. after.position \in Steps(after)
  BY <1>1, <1>4, <1>6 DEF Steps
<1>10. \A i \in Steps(after) : after.history[i].base \in Listed(after)
  <2> SUFFICES ASSUME NEW i \in 1 .. session.position + 1
               PROVE  steps[i].base \in Listed(session)
    BY <1>4, <1>6, <1>8 DEF Steps
  <2>1. CASE i = session.position + 1
    BY <2>1, <1>4 DEF Anchorable
  <2>2. CASE i # session.position + 1
    <3>1. i \in 1 .. session.position /\ i \in Steps(session)
      BY <2>2, <1>1 DEF Steps
    <3> QED  BY <3>1, <1>4 DEF Anchorable
  <2> QED  BY <2>1, <2>2
<1>11. Anchorable(after)
  BY <1>6, <1>7, <1>8, <1>9, <1>10 DEF Anchorable, Frame
<1>12. StepIsCurrent(after)
  BY <1>4, <1>6, <1>7 DEF StepIsCurrent
<1> QED  BY <1>4, <1>6, <1>7, <1>11, <1>12 DEF WellFormed, after

(* A look that differs only in its recipe, with no edit open. *)
LEMMA EndedWell ==
    ASSUME NEW session, WellFormed(session), NEW next \in Recipe
    PROVE  LET ended == [session EXCEPT !.now.recipe = next, !.baseline = NoEdit]
           IN  /\ Anchorable(ended)
               /\ Frame(session, ended)
               /\ ~editing(ended)
               /\ ended.now = [recipe |-> next, base |-> session.now.base]
               /\ ended.history = session.history
               /\ ended.position = session.position
<1> DEFINE now == [session.now EXCEPT !.recipe = next]
           ended == [session EXCEPT !.now = now, !.baseline = NoEdit]
<1>1. session \in Sessions /\ session.now \in Point
  BY SessionParts DEF WellFormed, Anchorable
<1>2. now \in Point /\ now.base = session.now.base /\ now.recipe = next
      /\ now = [recipe |-> next, base |-> session.now.base]
  BY <1>1 DEF Point
<1> HIDE DEF now
<1>3. /\ ended \in Sessions
      /\ ended.now = now
      /\ ended.baseline = NoEdit
      /\ ended.history = session.history
      /\ ended.position = session.position
      /\ Frame(session, ended)
  BY <1>1, <1>2 DEF Sessions, Frame
<1>4. [session EXCEPT !.now.recipe = next, !.baseline = NoEdit] = ended
  BY DEF now
<1> HIDE DEF ended
<1>5. ~editing(ended) /\ Listed(ended) = Listed(session) /\ Steps(ended) = Steps(session)
  BY <1>3 DEF editing, Frame, Listed, Steps
<1>6. Anchorable(ended)
  BY <1>2, <1>3, <1>5 DEF WellFormed, Anchorable, Frame
<1> QED  BY <1>2, <1>3, <1>4, <1>5, <1>6

(* A commit closes the edit; a look that came back to its start adds no step. *)
LEMMA CommitPhotoWell ==
    ASSUME NEW session, WellFormed(session), editing(session), NEW next \in Recipe
    PROVE  LET after == commitPhoto(session, next)
           IN  /\ WellFormed(after)
               /\ Frame(session, after)
               /\ ~editing(after)
               /\ after.now = [recipe |-> next, base |-> session.now.base]
               /\ \/ after.position = session.position /\ after.history = session.history
                  \/ /\ after.position = session.position + 1
                     /\ Len(after.history) = session.position + 1
<1> DEFINE ended == [session EXCEPT !.now.recipe = next, !.baseline = NoEdit]
           after == commitPhoto(session, next)
<1>1. /\ Anchorable(ended)
      /\ Frame(session, ended)
      /\ ~editing(ended)
      /\ ended.now = [recipe |-> next, base |-> session.now.base]
      /\ ended.history = session.history
      /\ ended.position = session.position
  BY EndedWell
<1>2. after = IF session.baseline = ended.now THEN ended ELSE appendStep(ended)
  BY DEF commitPhoto
<1> HIDE DEF ended, after
<1>3. CASE session.baseline = ended.now
  <2>1. ended.history[ended.position] = ended.now
    BY <1>1, <1>3 DEF WellFormed, StepIsCurrent
  <2> QED  BY <1>1, <1>2, <1>3, <2>1 DEF WellFormed, StepIsCurrent, after
<1>4. CASE session.baseline # ended.now
  <2>1. /\ WellFormed(after)
        /\ Frame(ended, after)
        /\ ~editing(after)
        /\ after.now = ended.now
        /\ after.position = ended.position + 1
        /\ Len(after.history) = ended.position + 1
    BY <1>1, <1>2, <1>4, AppendWell
  <2> QED  BY <1>1, <2>1 DEF Frame, after
<1> QED  BY <1>3, <1>4

(* Settling leaves no edit open, and the look that a commit leaves. *)
LEMMA SettledWell ==
    ASSUME NEW session, WellFormed(session)
    PROVE  LET after == Settled(session)
           IN  /\ WellFormed(after)
               /\ Frame(session, after)
               /\ ~editing(after)
               /\ after.now = [recipe |-> Settling(session), base |-> session.now.base]
<1>1. session \in Sessions
  BY DEF WellFormed, Anchorable
<1>2. CASE editing(session)
  <2>1. Settled(session) = commitPhoto(session, Settling(session))
    BY <1>2 DEF Settled, commit
  <2> QED  BY <1>1, <1>2, <2>1, SettlingType, CommitPhotoWell
<1>3. CASE ~editing(session)
  <2>1. Settled(session) = session /\ Settling(session) = session.now.recipe
    BY <1>3 DEF Settled, Settling
  <2> QED  BY <1>1, <1>3, <2>1, SessionParts DEF Frame
<1> QED  BY <1>2, <1>3

(* Committing an open edit is settling. *)
LEMMA CommitIsSettling ==
    ASSUME NEW session, editing(session)
    PROVE  commit(session) = Settled(session)
BY DEF Settled

(* An edit begins at the look that settling leaves. *)
LEMMA BeginWell ==
    ASSUME NEW session, WellFormed(session)
    PROVE  LET after == begin(session)
           IN  /\ WellFormed(after)
               /\ Frame(session, after)
               /\ editing(after)
               /\ after.now = Settled(session).now
               /\ after.baseline = after.now
<1> DEFINE settled == Settled(session)
           after == begin(session)
<1>1. /\ WellFormed(settled)
      /\ Frame(session, settled)
      /\ ~editing(settled)
  BY SettledWell
<1>2. after = [settled EXCEPT !.baseline = settled.now]
  BY DEF begin
<1> HIDE DEF settled, after
<1>3. settled \in Sessions /\ settled.now \in Point
  BY <1>1, SessionParts DEF WellFormed, Anchorable
<1>4. /\ after \in Sessions
      /\ after.baseline = settled.now
      /\ after.now = settled.now
      /\ after.history = settled.history
      /\ after.position = settled.position
      /\ Frame(settled, after)
  BY <1>2, <1>3 DEF Sessions, Frame
<1>5. editing(after) /\ Listed(after) = Listed(settled) /\ Steps(after) = Steps(settled)
  BY <1>3, <1>4, PointIsNoPlaceholder DEF editing, Listed, Steps, Frame
<1>6. Anchorable(after)
  BY <1>1, <1>4, <1>5 DEF WellFormed, Anchorable, Frame
<1>7. StepIsCurrent(after)
  BY <1>1, <1>4, <1>5 DEF WellFormed, StepIsCurrent
<1> QED  BY <1>1, <1>4, <1>5, <1>6, <1>7 DEF WellFormed, Frame, after, settled

(* While an edit is open the look may be any. *)
LEMMA UpdateWell ==
    ASSUME NEW session, WellFormed(session), editing(session), NEW recipe \in Recipe
    PROVE  LET after == update(session, recipe)
           IN  /\ WellFormed(after)
               /\ Frame(session, after)
               /\ editing(after)
               /\ after.now = [recipe |-> recipe, base |-> session.now.base]
<1> DEFINE now == [session.now EXCEPT !.recipe = recipe]
           after == update(session, recipe)
<1>1. session \in Sessions /\ session.now \in Point
  BY SessionParts DEF WellFormed, Anchorable
<1>2. now \in Point /\ now = [recipe |-> recipe, base |-> session.now.base]
  BY <1>1 DEF Point
<1>3. after = [session EXCEPT !.now = now]
  BY DEF update
<1> HIDE DEF now, after
<1>4. /\ after \in Sessions
      /\ after.now = now
      /\ after.baseline = session.baseline
      /\ after.history = session.history
      /\ after.position = session.position
      /\ Frame(session, after)
  BY <1>1, <1>2, <1>3 DEF Sessions, Frame
<1>5. editing(after) /\ Listed(after) = Listed(session) /\ Steps(after) = Steps(session)
  BY <1>4 DEF editing, Listed, Steps, Frame
<1>6. Anchorable(after)
  BY <1>2, <1>4, <1>5 DEF WellFormed, Anchorable, Frame
<1>7. StepIsCurrent(after)
  BY <1>4, <1>5 DEF WellFormed, StepIsCurrent
<1> QED  BY <1>2, <1>4, <1>5, <1>6, <1>7 DEF WellFormed, after

(* Cancelling goes back to where the edit began, which is the current step. *)
LEMMA CancelWell ==
    ASSUME NEW session, WellFormed(session), editing(session)
    PROVE  WellFormed(cancel(session)) /\ Frame(session, cancel(session))
<1> DEFINE after == cancel(session)
<1>1. session \in Sessions /\ session.baseline \in Point
  BY SessionParts DEF WellFormed, Anchorable
<1>2. after = [session EXCEPT !.now = session.baseline, !.baseline = NoEdit]
  BY DEF cancel
<1> HIDE DEF after
<1>3. /\ after \in Sessions
      /\ after.now = session.baseline
      /\ after.baseline = NoEdit
      /\ after.history = session.history
      /\ after.position = session.position
      /\ Frame(session, after)
  BY <1>1, <1>2 DEF Sessions, Frame
<1>4. ~editing(after) /\ Listed(after) = Listed(session) /\ Steps(after) = Steps(session)
  BY <1>3 DEF editing, Listed, Steps, Frame
<1>5. Anchorable(after)
  BY <1>3, <1>4 DEF WellFormed, Anchorable, Frame
<1>6. StepIsCurrent(after)
  BY <1>3, <1>4 DEF WellFormed, StepIsCurrent
<1> QED  BY <1>3, <1>5, <1>6 DEF WellFormed, after

(* A state set at once is an edit begun, updated and committed. *)
LEMMA SetStateWell ==
    ASSUME NEW session, WellFormed(session), NEW state \in States
    PROVE  WellFormed(setState(session, state)) /\ Frame(session, setState(session, state))
<1> DEFINE begun == begin(session)
           recipe == [session.now.recipe EXCEPT !.state = state]
           updated == update(begun, recipe)
<1>1. session \in Sessions
  BY DEF WellFormed, Anchorable
<1>2. recipe \in Recipe
  <2>1. session.now.recipe \in Recipe
    BY <1>1, SessionParts
  <2> QED  BY <2>1 DEF Recipe
<1>3. WellFormed(begun) /\ Frame(session, begun) /\ editing(begun)
  BY BeginWell
<1> HIDE DEF recipe, begun
<1>4. WellFormed(updated) /\ Frame(begun, updated) /\ editing(updated)
  BY <1>2, <1>3, UpdateWell
<1> HIDE DEF updated
<1>5. setState(session, state) = Settled(updated)
  BY <1>4, CommitIsSettling DEF setState, updated, recipe, begun
<1>6. WellFormed(Settled(updated)) /\ Frame(updated, Settled(updated))
  BY <1>4, SettledWell
<1> QED  BY <1>3, <1>4, <1>5, <1>6 DEF Frame

(* A look put in place with no edit open, as a step of its own. *)
LEMMA StepWell ==
    ASSUME NEW session, WellFormed(session), ~editing(session),
           NEW point \in Point, point.base \in Listed(session)
    PROVE  LET after == appendStep([session EXCEPT !.now = point])
           IN  /\ WellFormed(after)
               /\ Frame(session, after)
               /\ ~editing(after)
               /\ after.now = point
<1> DEFINE moved == [session EXCEPT !.now = point]
<1>1. session \in Sessions
  BY DEF WellFormed, Anchorable
<1>2. /\ moved \in Sessions
      /\ moved.now = point
      /\ moved.baseline = session.baseline
      /\ moved.history = session.history
      /\ moved.position = session.position
      /\ Frame(session, moved)
  BY <1>1 DEF Sessions, Frame
<1> HIDE DEF moved
<1>3. ~editing(moved) /\ Listed(moved) = Listed(session) /\ Steps(moved) = Steps(session)
  BY <1>2 DEF editing, Listed, Steps, Frame
<1>4. Anchorable(moved)
  BY <1>2, <1>3 DEF WellFormed, Anchorable, Frame
<1>5. LET after == appendStep(moved)
      IN  /\ WellFormed(after)
          /\ Frame(moved, after)
          /\ ~editing(after)
          /\ after.now = moved.now
  BY <1>3, <1>4, AppendWell
<1> QED  BY <1>2, <1>5 DEF moved, Frame

(* A negative and a state set at once. *)
LEMMA SetBothWell ==
    ASSUME NEW session, WellFormed(session), NEW recipe \in Recipe
    PROVE  WellFormed(setBoth(session, recipe)) /\ Frame(session, setBoth(session, recipe))
<1> DEFINE settled == Settled(session)
           kept == IF /\ session.now.recipe.lens = NoLens
                      /\ recipe.lens = NoLens
                   THEN [recipe EXCEPT !.lens = settled.now.recipe.lens] ELSE recipe
           next == withLensRecorded(settled.now.recipe, kept)
           point == [settled.now EXCEPT !.recipe = next]
<1>1. WellFormed(settled) /\ Frame(session, settled) /\ ~editing(settled)
  BY SettledWell
<1> HIDE DEF settled
<1>2. /\ settled.now \in Point
      /\ settled.now.recipe \in Recipe
      /\ settled.now.base \in Listed(settled)
  BY <1>1, SessionParts DEF WellFormed, Anchorable
<1>3. kept \in Recipe
  BY <1>2 DEF Recipe
<1> HIDE DEF kept
<1>4. next \in Recipe
  BY <1>2, <1>3, LensRecipe
<1> HIDE DEF next
<1>5. point \in Point /\ point.base = settled.now.base
  BY <1>2, <1>4 DEF Point
<1>6. [settled EXCEPT !.now.recipe = next] = [settled EXCEPT !.now = point]
  OBVIOUS
<1> HIDE DEF point
<1>7. setBoth(session, recipe) =
         IF next = settled.now.recipe THEN settled
         ELSE appendStep([settled EXCEPT !.now = point])
  BY <1>6 DEF setBoth, settled, kept, next
<1>8. /\ WellFormed(appendStep([settled EXCEPT !.now = point]))
      /\ Frame(settled, appendStep([settled EXCEPT !.now = point]))
  BY <1>1, <1>2, <1>5, StepWell
<1> QED  BY <1>1, <1>7, <1>8 DEF Frame

(* Going to a step makes it the working look. *)
LEMMA GoToWell ==
    ASSUME NEW session, WellFormed(session), NEW index
    PROVE  WellFormed(goTo(session, index)) /\ Frame(session, goTo(session, index))
<1> DEFINE settled == Settled(session)
           after == [settled EXCEPT !.now = settled.history[index], !.position = index]
<1>1. WellFormed(settled) /\ Frame(session, settled) /\ ~editing(settled)
  BY SettledWell
<1> HIDE DEF settled
<1>2. CASE index \in Steps(settled)
  <2>1. /\ settled \in Sessions
        /\ settled.history[index] \in Point
        /\ index \in Nat
    <3>1. settled \in Sessions /\ settled.history \in Seq(Point) /\ Len(settled.history) \in Nat
      BY <1>1, SessionParts DEF WellFormed, Anchorable
    <3> QED  BY <3>1, <1>2, ElementOfSeq DEF Steps
  <2>2. /\ after \in Sessions
        /\ after.now = settled.history[index]
        /\ after.position = index
        /\ after.baseline = settled.baseline
        /\ after.history = settled.history
        /\ Frame(settled, after)
    BY <2>1 DEF Sessions, Frame
  <2> HIDE DEF after
  <2>3. ~editing(after) /\ Listed(after) = Listed(settled) /\ Steps(after) = Steps(settled)
    BY <1>1, <2>2 DEF editing, Listed, Steps, Frame
  <2>4. Anchorable(after)
    BY <1>1, <1>2, <2>2, <2>3 DEF WellFormed, Anchorable, Frame
  <2>5. StepIsCurrent(after)
    BY <2>2, <2>3 DEF StepIsCurrent
  <2>6. goTo(session, index) = after
    BY <1>2 DEF goTo, settled, Steps, after
  <2> QED  BY <1>1, <2>2, <2>4, <2>5, <2>6 DEF WellFormed, Frame
<1>3. CASE index \notin Steps(settled)
  <2>1. goTo(session, index) = settled
    BY <1>3 DEF goTo, settled, Steps
  <2> QED  BY <1>1, <2>1
<1> QED  BY <1>2, <1>3

(* A snapshot that is restored is the base of the look it brings. *)
LEMMA RestoreWell ==
    ASSUME NEW session, WellFormed(session), NEW id \in Ids(session.held),
           NEW snapshot \in Snapshot
    PROVE  /\ WellFormed(restoreSnapshot(session, id, snapshot))
           /\ Frame(session, restoreSnapshot(session, id, snapshot))
           /\ restoreSnapshot(session, id, snapshot).now =
                  [recipe |-> snapshot.recipe, base |-> id]
<1> DEFINE settled == Settled(session)
           target == [recipe |-> snapshot.recipe, base |-> id]
           moved == appendStep([settled EXCEPT !.now = target])
<1>1. WellFormed(settled) /\ Frame(session, settled) /\ ~editing(settled)
  BY SettledWell
<1>2. restoreSnapshot(session, id, snapshot) = IF settled.now = target THEN settled ELSE moved
  BY DEF restoreSnapshot
<1> HIDE DEF settled
<1>3. target \in Point /\ target.base \in Listed(settled)
  BY <1>1 DEF Snapshot, Point, Ids, Listed, MaybeId, Frame
<1> HIDE DEF target
<1>4. WellFormed(moved) /\ Frame(settled, moved) /\ moved.now = target
  BY <1>1, <1>3, StepWell
<1> HIDE DEF moved
<1> QED  BY <1>1, <1>2, <1>4 DEF Frame, target

(* Redo is offered when a step follows, and a commit that changes nothing keeps it. *)
LEMMA RedoHasStep ==
    ASSUME NEW session, WellFormed(session), canRedo(session)
    PROVE  Settled(session).position < Len(Settled(session).history)
<1>1. session \in Sessions /\ session.position < Len(session.history)
  BY DEF WellFormed, Anchorable, canRedo
<1>2. CASE editing(session)
  <2>1. session.baseline = session.now
    BY <1>2 DEF canRedo, baselineIsCurrent
  <2>2. Settling(session) = session.now.recipe
    BY <1>2, <2>1 DEF Settling, withLensRecorded
  <2> DEFINE ended == [session EXCEPT !.now.recipe = session.now.recipe, !.baseline = NoEdit]
  <2>3. /\ ended.now = session.now
        /\ ended.history = session.history
        /\ ended.position = session.position
    BY <1>1 DEF Sessions, Point
  <2>4. Settled(session) = IF session.baseline = ended.now THEN ended ELSE appendStep(ended)
    BY <1>2, <2>2 DEF Settled, commit, commitPhoto
  <2> HIDE DEF ended
  <2>5. Settled(session) = ended
    BY <2>1, <2>3, <2>4
  <2> QED  BY <1>1, <2>3, <2>5
<1>3. CASE ~editing(session)
  BY <1>1, <1>3 DEF Settled
<1> QED  BY <1>2, <1>3

-----------------------------------------------------------------------------
(* With its changes discarded a session is one step, the saved look. *)
LEMMA FromStartWell ==
    ASSUME NEW session \in Sessions, session.savedBase \in Listed(session)
    PROVE  LET after == FromStart(session)
           IN  /\ WellFormed(after)
               /\ Frame(session, after)
               /\ after.now = [recipe |-> session.saved, base |-> session.savedBase]
<1> DEFINE point == [recipe |-> session.saved, base |-> session.savedBase]
           after == FromStart(session)
<1>1. point \in Point
  BY SessionParts DEF Point
<1>2. after = [session EXCEPT !.now = point, !.baseline = NoEdit,
                              !.history = <<point>>, !.position = 1]
  BY DEF FromStart
<1>3. <<point>> \in Seq(Point) /\ Len(<<point>>) = 1 /\ <<point>>[1] = point
  BY <1>1
<1>4. point.base = session.savedBase
  OBVIOUS
<1> HIDE DEF point, after
<1>5. /\ after \in Sessions
      /\ after.now = point
      /\ after.baseline = NoEdit
      /\ after.history = <<point>>
      /\ after.position = 1
      /\ Frame(session, after)
  BY <1>1, <1>2, <1>3 DEF Sessions, Frame
<1>6. ~editing(after) /\ Listed(after) = Listed(session) /\ Steps(after) = {1}
  BY <1>3, <1>5 DEF editing, Listed, Steps, Frame
<1>7. Anchorable(after)
  BY <1>3, <1>4, <1>5, <1>6 DEF Anchorable, Frame
<1>8. StepIsCurrent(after)
  BY <1>3, <1>5, <1>6 DEF StepIsCurrent
<1> QED  BY <1>5, <1>7, <1>8 DEF WellFormed, after, point

(* The list of a photograph that has none. *)
LEMMA NoSnapshotsType == NoSnapshots \in Collection /\ Ids(NoSnapshots) = {}
<1>1. 1 \in SnapshotId \cup {MaximumId}
  BY SnapshotsAssumption DEF SnapshotId
<1>2. [id \in SnapshotId |-> NoSnapshot] \in [SnapshotId -> Snapshot \cup {NoSnapshot}]
  OBVIOUS
<1>3. NoSnapshots \in Collection
  BY <1>1, <1>2 DEF NoSnapshots, Collection
<1>4. Ids(NoSnapshots) = {}
  BY DEF NoSnapshots, Ids
<1> QED  BY <1>3, <1>4

(* A session as it is opened over a document ... *)
LEMMA OpenedOnWell ==
    ASSUME NEW contents \in Contents, Sound(contents)
    PROVE  LET after == OpenedOn(contents)
           IN  /\ WellFormed(after)
               /\ after.held = contents.snapshots
               /\ after.saved = contents.recipe
               /\ after.savedBase = contents.savedBase
               /\ after.baseKnown = TRUE
               /\ after.now = [recipe |-> contents.recipe, base |-> contents.savedBase]
<1> DEFINE blank == [now        |-> [recipe |-> contents.recipe, base |-> contents.savedBase],
                     baseline   |-> NoEdit,
                     history    |-> << >>,
                     position   |-> 1,
                     saved      |-> contents.recipe,
                     savedBase  |-> contents.savedBase,
                     baseKnown  |-> TRUE,
                     marks      |-> contents.marks,
                     held       |-> contents.snapshots,
                     unreadable |-> contents.unreadable]
<1>1. blank \in Sessions
  BY DEF Contents, Sessions, Point
<1>2. blank.savedBase \in Listed(blank)
  BY DEF Sound, CanBase, Listed
<1>3. /\ blank.held = contents.snapshots /\ blank.saved = contents.recipe
      /\ blank.savedBase = contents.savedBase /\ blank.baseKnown = TRUE
  OBVIOUS
<1>4. OpenedOn(contents) = FromStart(blank)
  BY DEF OpenedOn, OpenedWith
<1> HIDE DEF blank
<1> QED  BY <1>1, <1>2, <1>3, <1>4, FromStartWell DEF Frame

(* ... and over a bare photograph. *)
LEMMA OpenedBareWell ==
    ASSUME NEW contents \in Contents
    PROVE  LET after == OpenedBare(contents)
           IN  /\ WellFormed(after)
               /\ after.held = NoSnapshots
               /\ after.saved = contents.recipe
               /\ after.savedBase = NoId
               /\ after.baseKnown = FALSE
<1> DEFINE blank == [now        |-> [recipe |-> contents.recipe, base |-> NoId],
                     baseline   |-> NoEdit,
                     history    |-> << >>,
                     position   |-> 1,
                     saved      |-> contents.recipe,
                     savedBase  |-> NoId,
                     baseKnown  |-> FALSE,
                     marks      |-> contents.marks,
                     held       |-> NoSnapshots,
                     unreadable |-> 0]
<1>1. blank \in Sessions
  BY NoSnapshotsType DEF Contents, Sessions, Point, MaybeId
<1>2. blank.savedBase \in Listed(blank)
  BY DEF Listed
<1>3. /\ blank.held = NoSnapshots /\ blank.saved = contents.recipe
      /\ blank.savedBase = NoId /\ blank.baseKnown = FALSE
  OBVIOUS
<1>4. OpenedBare(contents) = FromStart(blank)
  BY DEF OpenedBare, OpenedWith
<1> HIDE DEF blank
<1> QED  BY <1>1, <1>2, <1>3, <1>4, FromStartWell DEF Frame

-----------------------------------------------------------------------------
(* A step, a baseline or a look moved to a list refers to it. *)
LEMMA MovedPoint ==
    ASSUME NEW session, NEW fresh \in Collection, NEW point \in Point
    PROVE  LET moved == Moved(session, fresh, point)
           IN  /\ moved \in Point
               /\ moved.recipe = point.recipe
               /\ moved.base \in Ids(fresh) \cup {NoId}
               /\ point.base \in Ids(fresh) \cup {NoId} => moved = point
<1> DEFINE base == Survivor(session.held, point.base, fresh)
           moved == Moved(session, fresh, point)
<1>1. /\ base \in Ids(fresh) \cup {NoId}
      /\ point.base \in Ids(fresh) \cup {NoId} => base = point.base
  BY SurvivorListed
<1>2. base \in MaybeId
  BY <1>1 DEF Ids, MaybeId
<1>3. moved = [point EXCEPT !.base = base]
  BY DEF Moved
<1> HIDE DEF base, moved
<1> QED  BY <1>1, <1>2, <1>3 DEF Point, moved

(* Taking in a list moves the look, the baseline, the steps and the saved base *)
(* together, so the session stays in good order whatever was deleted.          *)
LEMMA AdoptWell ==
    ASSUME NEW session, WellFormed(session), NEW fresh \in Collection
    PROVE  LET after == adopt(session, fresh)
           IN  /\ WellFormed(after)
               /\ after.held = fresh
               /\ after.saved = session.saved
               /\ after.savedBase = Survivor(session.held, session.savedBase, fresh)
               /\ after.baseKnown = session.baseKnown
               /\ after.marks = session.marks
               /\ after.unreadable = session.unreadable
               /\ after.now = Moved(session, fresh, session.now)
               /\ after.position = session.position
               /\ Len(after.history) = Len(session.history)
               /\ editing(after) <=> editing(session)
<1> DEFINE moved(point) == Moved(session, fresh, point)
           now == moved(session.now)
           baseline == IF editing(session) THEN moved(session.baseline) ELSE NoEdit
           history == [i \in 1 .. Len(session.history) |-> moved(session.history[i])]
           savedBase == Survivor(session.held, session.savedBase, fresh)
           after == adopt(session, fresh)
<1>1. /\ session \in Sessions
      /\ session.now \in Point
      /\ editing(session) => session.baseline \in Point
      /\ session.history \in Seq(Point)
      /\ Len(session.history) \in Nat
      /\ session.position \in 1 .. Len(session.history)
  BY SessionParts DEF WellFormed, Anchorable, Steps
<1>2. \A point \in Point : moved(point) \in Point /\ moved(point).base \in Ids(fresh) \cup {NoId}
  BY MovedPoint
<1> HIDE DEF moved
<1>3. /\ history \in Seq(Point)
      /\ Len(history) = Len(session.history)
      /\ \A i \in 1 .. Len(session.history) :
            history[i] = moved(session.history[i]) /\ session.history[i] \in Point
  <2>1. \A i \in 1 .. Len(session.history) : session.history[i] \in Point
    BY <1>1, ElementOfSeq
  <2>2. \A i \in 1 .. Len(session.history) : moved(session.history[i]) \in Point
    BY <1>2, <2>1
  <2> QED  BY <2>1, <2>2, <1>1
<1>4. savedBase \in Ids(fresh) \cup {NoId} /\ savedBase \in MaybeId
  BY SurvivorListed DEF Ids, MaybeId
<1>5. after = [session EXCEPT !.now = now, !.baseline = baseline, !.history = history,
                              !.savedBase = savedBase, !.held = fresh]
  BY DEF adopt, moved
<1>6. now \in Point /\ baseline \in Point \cup {NoEdit}
  BY <1>1, <1>2
<1>7. baseline # NoEdit <=> editing(session)
  BY <1>1, <1>2, PointIsNoPlaceholder
<1>8. now = Moved(session, fresh, session.now)
  BY DEF moved
<1>9. history[session.position] = IF editing(session) THEN baseline ELSE now
  BY <1>1, <1>3 DEF WellFormed, StepIsCurrent
<1>10. /\ now.base \in Ids(fresh) \cup {NoId}
       /\ editing(session) => baseline.base \in Ids(fresh) \cup {NoId}
       /\ \A i \in 1 .. Len(session.history) : history[i].base \in Ids(fresh) \cup {NoId}
  BY <1>1, <1>2, <1>3
<1> HIDE DEF now, baseline, history, savedBase, after
<1>11. /\ after \in Sessions
       /\ after.now = now
       /\ after.baseline = baseline
       /\ after.history = history
       /\ after.position = session.position
       /\ after.savedBase = savedBase
       /\ after.held = fresh
       /\ after.saved = session.saved
       /\ after.baseKnown = session.baseKnown
       /\ after.marks = session.marks
       /\ after.unreadable = session.unreadable
  BY <1>1, <1>3, <1>4, <1>5, <1>6 DEF Sessions
<1>12. (editing(after) <=> editing(session)) /\ Listed(after) = Ids(fresh) \cup {NoId}
       /\ Steps(after) = 1 .. Len(session.history)
  BY <1>3, <1>7, <1>11 DEF editing, Listed, Steps
<1>13. Anchorable(after)
  BY <1>1, <1>4, <1>10, <1>11, <1>12 DEF Anchorable
<1>14. StepIsCurrent(after)
  BY <1>9, <1>11, <1>12 DEF StepIsCurrent
<1> QED  BY <1>3, <1>8, <1>11, <1>12, <1>13, <1>14 DEF WellFormed, savedBase, after

(* What is kept beside the looks may change while its references are listed. *)
LEMMA BesideTheLooks ==
    ASSUME NEW session, WellFormed(session), NEW after \in Sessions,
           after.now = session.now, after.baseline = session.baseline,
           after.history = session.history, after.position = session.position,
           Ids(after.held) = Ids(session.held), after.savedBase \in Listed(session)
    PROVE  WellFormed(after) /\ (editing(after) <=> editing(session))
<1>1. (editing(after) <=> editing(session)) /\ Listed(after) = Listed(session)
      /\ Steps(after) = Steps(session)
  BY DEF editing, Listed, Steps
<1>2. Anchorable(after)
  BY <1>1 DEF WellFormed, Anchorable
<1>3. StepIsCurrent(after)
  BY <1>1 DEF WellFormed, StepIsCurrent
<1> QED  BY <1>1, <1>2, <1>3 DEF WellFormed

(* Refreshing is adopting, whatever else the contents say. *)
LEMMA RefreshWell ==
    ASSUME NEW session, WellFormed(session), NEW contents,
           contents.snapshots \in Collection, contents.unreadable \in Nat
    PROVE  LET after == refreshSnapshots(session, contents)
           IN  /\ WellFormed(after)
               /\ after.held = contents.snapshots
               /\ after.unreadable = contents.unreadable
               /\ after.saved = session.saved
               /\ after.savedBase = Survivor(session.held, session.savedBase, contents.snapshots)
               /\ after.baseKnown = session.baseKnown
               /\ after.marks = session.marks
               /\ after.now = Moved(session, contents.snapshots, session.now)
               /\ after.position = session.position
               /\ Len(after.history) = Len(session.history)
               /\ editing(after) <=> editing(session)
<1> DEFINE fresh == contents.snapshots
           adopted == adopt(session, fresh)
           after == refreshSnapshots(session, contents)
<1>1. /\ WellFormed(adopted)
      /\ adopted.held = fresh
      /\ adopted.saved = session.saved
      /\ adopted.savedBase = Survivor(session.held, session.savedBase, fresh)
      /\ adopted.baseKnown = session.baseKnown
      /\ adopted.marks = session.marks
      /\ adopted.now = Moved(session, fresh, session.now)
      /\ adopted.position = session.position
      /\ Len(adopted.history) = Len(session.history)
      /\ editing(adopted) <=> editing(session)
  BY AdoptWell
<1>2. after = [adopted EXCEPT !.unreadable = contents.unreadable]
  BY DEF refreshSnapshots
<1> HIDE DEF adopted, after
<1>3. adopted \in Sessions /\ adopted.savedBase \in Listed(adopted)
  BY <1>1 DEF WellFormed, Anchorable
<1>4. /\ after \in Sessions
      /\ after.unreadable = contents.unreadable
      /\ after.now = adopted.now
      /\ after.baseline = adopted.baseline
      /\ after.history = adopted.history
      /\ after.position = adopted.position
      /\ after.savedBase = adopted.savedBase
      /\ after.held = adopted.held
      /\ after.saved = adopted.saved
      /\ after.baseKnown = adopted.baseKnown
      /\ after.marks = adopted.marks
  BY <1>2, <1>3 DEF Sessions
<1>5. WellFormed(after) /\ (editing(after) <=> editing(adopted))
  BY <1>1, <1>3, <1>4, BesideTheLooks
<1> QED  BY <1>1, <1>4, <1>5 DEF after

(* The list held and the base taken for saved move together, or not at all. *)
Brings(session, fresh, after) ==
    \/ after.held = session.held /\ after.savedBase = session.savedBase
    \/ /\ after.held = fresh
       /\ after.savedBase = Survivor(session.held, session.savedBase, fresh)

(* An older list is not adopted, so the list never goes back. *)
LEMMA AdoptSnapshotsWell ==
    ASSUME NEW session, WellFormed(session), NEW contents,
           contents.snapshots \in Collection, contents.unreadable \in Nat
    PROVE  LET after == adoptSnapshots(session, contents)
           IN  /\ WellFormed(after)
               /\ after.held = IF contents.snapshots.revision < session.held.revision
                               THEN session.held ELSE contents.snapshots
               /\ after.held.revision >= session.held.revision
               /\ Brings(session, contents.snapshots, after)
               /\ after.saved = session.saved
               /\ after.baseKnown = session.baseKnown
               /\ after.marks = session.marks
               /\ after.position = session.position
               /\ Len(after.history) = Len(session.history)
               /\ editing(after) <=> editing(session)
               /\ after.now.recipe = session.now.recipe
               /\ after.now.base # session.now.base =>
                      after.now.base \in Ids(contents.snapshots) \cup {NoId}
<1> DEFINE fresh == contents.snapshots
<1>1. /\ session \in Sessions /\ session.held \in Collection /\ session.now \in Point
      /\ session.held.revision \in Nat /\ fresh.revision \in Nat
  BY SessionParts DEF WellFormed, Anchorable, Collection
<1>2. CASE fresh.revision < session.held.revision
  BY <1>1, <1>2 DEF adoptSnapshots, Brings
<1>3. CASE ~(fresh.revision < session.held.revision)
  <2>1. adoptSnapshots(session, contents) = refreshSnapshots(session, contents)
    BY <1>3 DEF adoptSnapshots
  <2>2. /\ Moved(session, fresh, session.now).recipe = session.now.recipe
        /\ Moved(session, fresh, session.now).base \in Ids(fresh) \cup {NoId}
    BY <1>1, MovedPoint
  <2> QED  BY <1>1, <1>3, <2>1, <2>2, RefreshWell DEF Brings
<1> QED  BY <1>2, <1>3

-----------------------------------------------------------------------------
(* A thumbnail marked in a list changes nothing that a revision speaks for. *)
LEMMA ThumbnailIn ==
    ASSUME NEW held \in Collection, NEW id \in Ids(held)
    PROVE  LET after == [held EXCEPT !.entries[id].thumbnail = TRUE]
           IN  /\ after \in Collection
               /\ after.revision = held.revision
               /\ after.nextId = held.nextId
               /\ Ids(after) = Ids(held)
               /\ SameSnapshots(held, after)
               /\ \A i \in Ids(held) : after.entries[i].recipe = held.entries[i].recipe
<1> DEFINE shown == [held.entries[id] EXCEPT !.thumbnail = TRUE]
           entries == [held.entries EXCEPT ![id] = shown]
           after == [held EXCEPT !.entries = entries]
<1>1. id \in SnapshotId /\ held.entries[id] \in Snapshot
      /\ held.entries \in [SnapshotId -> Snapshot \cup {NoSnapshot}]
  BY IdsType DEF Collection
<1>2. /\ shown \in Snapshot
      /\ shown.recipe = held.entries[id].recipe
      /\ [shown EXCEPT !.thumbnail = FALSE] = [held.entries[id] EXCEPT !.thumbnail = FALSE]
  BY <1>1 DEF Snapshot
<1>3. shown # NoSnapshot
  BY <1>2, SnapshotIsListed
<1>4. [held EXCEPT !.entries[id].thumbnail = TRUE] = after
  OBVIOUS
<1> HIDE DEF shown
<1>5. /\ entries \in [SnapshotId -> Snapshot \cup {NoSnapshot}]
      /\ \A i \in SnapshotId : entries[i] = IF i = id THEN shown ELSE held.entries[i]
  BY <1>1, <1>2
<1> HIDE DEF entries
<1>6. /\ after \in Collection /\ after.revision = held.revision
      /\ after.nextId = held.nextId /\ after.entries = entries
  BY <1>5 DEF Collection
<1> HIDE DEF after
<1>7. Ids(after) = Ids(held)
  BY <1>1, <1>3, <1>5, <1>6 DEF Ids
<1>8. \A i \in Ids(held) :
         /\ entries[i].recipe = held.entries[i].recipe
         /\ [entries[i] EXCEPT !.thumbnail = FALSE] = [held.entries[i] EXCEPT !.thumbnail = FALSE]
  BY <1>2, <1>5 DEF Ids
<1> QED  BY <1>4, <1>6, <1>7, <1>8 DEF SameSnapshots, SameEntries

(* A thumbnail that was stored is marked in the list the session holds, if it is there. *)
LEMMA FinishThumbnailWell ==
    ASSUME NEW session, WellFormed(session), NEW id
    PROVE  LET after == finishThumbnail(session, id)
           IN  /\ WellFormed(after)
               /\ after.held \in Collection
               /\ after.held.revision = session.held.revision
               /\ SameSnapshots(session.held, after.held)
               /\ \A i \in Ids(session.held) :
                     after.held.entries[i].recipe = session.held.entries[i].recipe
               /\ after.now = session.now
               /\ after.saved = session.saved
               /\ after.savedBase = session.savedBase
               /\ after.baseKnown = session.baseKnown
               /\ after.marks = session.marks
<1> DEFINE after == finishThumbnail(session, id)
           held == [session.held EXCEPT !.entries[id].thumbnail = TRUE]
<1>1. /\ session \in Sessions /\ session.held \in Collection
      /\ session.savedBase \in Listed(session)
  BY SessionParts DEF WellFormed, Anchorable
<1>2. CASE id \in Ids(session.held)
  <2>1. /\ held \in Collection
        /\ held.revision = session.held.revision
        /\ Ids(held) = Ids(session.held)
        /\ SameSnapshots(session.held, held)
        /\ \A i \in Ids(session.held) : held.entries[i].recipe = session.held.entries[i].recipe
    BY <1>1, <1>2, ThumbnailIn
  <2>2. after = [session EXCEPT !.held = held]
    BY <1>2 DEF finishThumbnail
  <2> HIDE DEF after, held
  <2>3. /\ after \in Sessions
        /\ after.held = held
        /\ after.now = session.now
        /\ after.baseline = session.baseline
        /\ after.history = session.history
        /\ after.position = session.position
        /\ after.saved = session.saved
        /\ after.savedBase = session.savedBase
        /\ after.baseKnown = session.baseKnown
        /\ after.marks = session.marks
    BY <1>1, <2>1, <2>2 DEF Sessions
  <2>4. WellFormed(after)
    BY <1>1, <2>1, <2>3, BesideTheLooks
  <2> QED  BY <2>1, <2>3, <2>4 DEF after
<1>3. CASE id \notin Ids(session.held)
  BY <1>1, <1>3 DEF finishThumbnail, SameSnapshots, SameEntries
<1> QED  BY <1>2, <1>3

(* Being told that nothing is unreadable changes nothing else. *)
LEMMA EmptyDiscardWell ==
    ASSUME NEW session, WellFormed(session)
    PROVE  LET after == finishEmptyDiscard(session)
           IN  /\ WellFormed(after)
               /\ after.held = session.held
               /\ after.now = session.now
               /\ after.saved = session.saved
               /\ after.savedBase = session.savedBase
               /\ after.baseKnown = session.baseKnown
               /\ after.marks = session.marks
<1> DEFINE after == finishEmptyDiscard(session)
<1>1. session \in Sessions /\ session.savedBase \in Listed(session)
  BY DEF WellFormed, Anchorable
<1>2. after = [session EXCEPT !.unreadable = 0]
  BY DEF finishEmptyDiscard
<1> HIDE DEF after
<1>3. /\ after \in Sessions
      /\ after.held = session.held
      /\ after.now = session.now
      /\ after.baseline = session.baseline
      /\ after.history = session.history
      /\ after.position = session.position
      /\ after.saved = session.saved
      /\ after.savedBase = session.savedBase
      /\ after.baseKnown = session.baseKnown
      /\ after.marks = session.marks
  BY <1>1, <1>2 DEF Sessions
<1>4. WellFormed(after)
  BY <1>1, <1>3, BesideTheLooks
<1> QED  BY <1>3, <1>4 DEF after

(* Setting the marks touches nothing but the marks. *)
LEMMA MarksWell ==
    ASSUME NEW session, WellFormed(session), NEW marks \in Marks
    PROVE  LET after == [session EXCEPT !.marks = marks]
           IN  /\ WellFormed(after)
               /\ after.held = session.held
               /\ after.marks = marks
               /\ after.saved = session.saved
      /\ after.savedBase = session.savedBase
               /\ after.baseKnown = session.baseKnown
<1> DEFINE after == [session EXCEPT !.marks = marks]
<1>1. session \in Sessions /\ session.savedBase \in Listed(session)
  BY DEF WellFormed, Anchorable
<1>2. /\ after \in Sessions
      /\ after.held = session.held
      /\ after.marks = marks
      /\ after.now = session.now
      /\ after.baseline = session.baseline
      /\ after.history = session.history
      /\ after.position = session.position
      /\ after.saved = session.saved
      /\ after.savedBase = session.savedBase
      /\ after.baseKnown = session.baseKnown
  BY <1>1 DEF Sessions
<1> HIDE DEF after
<1>3. WellFormed(after)
  BY <1>1, <1>2, BesideTheLooks
<1> QED  BY <1>2, <1>3 DEF after

-----------------------------------------------------------------------------
(* The current look comes to be based on the snapshot made of it. *)
LEMMA AnchoredWell ==
    ASSUME NEW session, WellFormed(session), ~editing(session), NEW id \in Ids(session.held)
    PROVE  LET after == Anchored(session, id)
           IN  /\ WellFormed(after)
               /\ Frame(session, after)
               /\ after.now = [recipe |-> session.now.recipe, base |-> id]
               /\ Len(after.history) = Len(session.history)
<1> DEFINE point(p) == [p EXCEPT !.base = id]
           now == point(session.now)
           history == [i \in 1 .. Len(session.history) |->
                          IF i = session.position THEN point(session.history[i])
                          ELSE session.history[i]]
           after == Anchored(session, id)
<1>1. /\ session \in Sessions
      /\ session.now \in Point
      /\ session.history \in Seq(Point)
      /\ Len(session.history) \in Nat
      /\ session.position \in 1 .. Len(session.history)
      /\ session.history[session.position] = session.now
  BY SessionParts DEF WellFormed, Anchorable, Steps, StepIsCurrent
<1>2. \A p \in Point : /\ point(p) \in Point
                       /\ point(p) = [recipe |-> p.recipe, base |-> id]
                       /\ point(p).base = id
  <2>1. id \in MaybeId
    BY DEF Ids, MaybeId
  <2> QED  BY <2>1 DEF Point
<1>3. after = [session EXCEPT !.now = now, !.history = history]
  BY DEF Anchored
<1> HIDE DEF point
<1>4. \A i \in 1 .. Len(session.history) : session.history[i] \in Point
  BY <1>1, ElementOfSeq
<1>5. /\ history \in Seq(Point)
      /\ Len(history) = Len(session.history)
      /\ \A i \in 1 .. Len(session.history) :
            history[i] = IF i = session.position THEN point(session.history[i])
                         ELSE session.history[i]
  BY <1>1, <1>2, <1>4
<1>6. now \in Point /\ now = [recipe |-> session.now.recipe, base |-> id] /\ now.base = id
  BY <1>1, <1>2
<1>7. history[session.position] = now
  BY <1>1, <1>5
<1>8. \A i \in 1 .. Len(session.history) : history[i].base \in Listed(session)
  BY <1>2, <1>4, <1>5 DEF WellFormed, Anchorable, Listed, Steps
<1> HIDE DEF now, history, after
<1>9. /\ after \in Sessions
      /\ after.now = now
      /\ after.history = history
      /\ after.baseline = session.baseline
      /\ after.position = session.position
      /\ Frame(session, after)
  BY <1>1, <1>3, <1>5, <1>6 DEF Sessions, Frame
<1>10. ~editing(after) /\ Listed(after) = Listed(session) /\ Steps(after) = Steps(session)
  BY <1>5, <1>9 DEF editing, Listed, Steps, Frame
<1>11. Anchorable(after)
  BY <1>1, <1>6, <1>8, <1>9, <1>10 DEF WellFormed, Anchorable, Frame, Listed, Steps
<1>12. StepIsCurrent(after)
  BY <1>7, <1>9, <1>10 DEF StepIsCurrent
<1> QED  BY <1>5, <1>6, <1>9, <1>11, <1>12 DEF WellFormed, after

(* The look is based on a snapshot just made only when it is that snapshot's look. *)
LEMMA FinishCreateWell ==
    ASSUME NEW session, WellFormed(session), NEW contents,
           contents.snapshots \in Collection, contents.unreadable \in Nat,
           NEW id, NEW draft, NEW position
    PROVE  LET after == finishCreate(session, contents, id, draft, position)
           IN  /\ WellFormed(after)
               /\ after.held = adoptSnapshots(session, contents).held
               /\ after.held = session.held \/ after.held = contents.snapshots
               /\ after.held.revision >= session.held.revision
               /\ Brings(session, contents.snapshots, after)
               /\ after.saved = session.saved
               /\ after.baseKnown = session.baseKnown
               /\ after.marks = session.marks
               /\ Len(after.history) = Len(session.history)
               /\ \/ after = adoptSnapshots(session, contents)
                  \/ /\ id \in Ids(after.held)
                     /\ after.now.recipe = draft.recipe
                     /\ after.now.base = id
<1> DEFINE adopted == adoptSnapshots(session, contents)
           after == finishCreate(session, contents, id, draft, position)
<1>1. /\ WellFormed(adopted)
      /\ adopted.held = session.held \/ adopted.held = contents.snapshots
      /\ adopted.held.revision >= session.held.revision
      /\ Brings(session, contents.snapshots, adopted)
      /\ adopted.saved = session.saved
      /\ adopted.baseKnown = session.baseKnown
      /\ adopted.marks = session.marks
      /\ Len(adopted.history) = Len(session.history)
  BY AdoptSnapshotsWell
<1>2. after = IF CanAnchor(adopted, id, draft, position) THEN Anchored(adopted, id) ELSE adopted
  BY DEF finishCreate
<1> HIDE DEF after
<1>3. CASE CanAnchor(adopted, id, draft, position)
  <2>1. /\ id \in Ids(adopted.held) /\ ~editing(adopted)
        /\ adopted.now.recipe = draft.recipe
    BY <1>3 DEF CanAnchor
  <2> HIDE DEF adopted
  <2>2. /\ WellFormed(after)
        /\ Frame(adopted, after)
        /\ after.now = [recipe |-> adopted.now.recipe, base |-> id]
        /\ Len(after.history) = Len(adopted.history)
    BY <1>1, <1>2, <1>3, <2>1, AnchoredWell
  <2> QED  BY <1>1, <2>1, <2>2 DEF Frame, Brings, after, adopted
<1>4. CASE ~CanAnchor(adopted, id, draft, position)
  BY <1>1, <1>2, <1>4 DEF after
<1> QED  BY <1>3, <1>4

(* A save takes the settled look for the saved one, and its base along. *)
LEMMA SavedWell ==
    ASSUME NEW session, WellFormed(session), NEW known \in BOOLEAN
    PROVE  LET after == Saved(session, known)
           IN  /\ WellFormed(after)
               /\ after.held = session.held
               /\ after.saved = Settling(session)
               /\ after.savedBase = session.now.base
               /\ after.baseKnown = known
               /\ after.marks = session.marks
<1> DEFINE settled == Settled(session)
           after == Saved(session, known)
<1>1. /\ WellFormed(settled)
      /\ Frame(session, settled)
      /\ settled.now.base = session.now.base
  <2>1. /\ WellFormed(settled)
        /\ Frame(session, settled)
        /\ settled.now = [recipe |-> Settling(session), base |-> session.now.base]
    BY SettledWell
  <2> HIDE DEF settled
  <2> QED  BY <2>1
<1>2. after = [settled EXCEPT !.saved = Settling(session), !.baseKnown = known,
                              !.savedBase = session.now.base]
  BY DEF Saved
<1>3. Settling(session) \in Recipe
  BY SettlingType DEF WellFormed, Anchorable
<1> HIDE DEF settled, after
<1>4. /\ settled \in Sessions
      /\ session.now.base \in Listed(settled)
      /\ session.now.base \in MaybeId
  BY <1>1, SessionParts DEF WellFormed, Anchorable
<1>5. /\ after \in Sessions
      /\ after.saved = Settling(session)
      /\ after.baseKnown = known
      /\ after.savedBase = session.now.base
      /\ after.held = settled.held
      /\ after.marks = settled.marks
      /\ after.now = settled.now
      /\ after.baseline = settled.baseline
      /\ after.history = settled.history
      /\ after.position = settled.position
  BY <1>2, <1>3, <1>4 DEF Sessions
<1>6. WellFormed(after)
  BY <1>1, <1>4, <1>5, BesideTheLooks
<1> QED  BY <1>1, <1>5, <1>6 DEF Frame, after

-----------------------------------------------------------------------------
(* A list of the file's past, with its ids under its counter and its counter *)
(* not past the file's: what new writes cannot turn into something else,     *)
(* because their ids are ones the older list cannot hold.  Its parents lead  *)
(* to those of the file.                                                     *)
Past(held, current) ==
    /\ held \in Collection
    /\ BelowCounter(held)
    /\ held.nextId <= current.nextId
    /\ IsPast(held, current)
    /\ Lineage(held, current)

(* The list itself is the latest of its past. *)
LEMMA PresentIsPast ==
    ASSUME NEW c \in Collection, Valid(c)
    PROVE  Past(c, c)
BY ListNumbers, OwnLineage DEF Past, IsPast, SameEntries, Valid

(* Two lists that agree with a third agree. *)
LEMMA SameEntriesTransitive ==
    ASSUME NEW a, NEW b, NEW c, SameEntries(a, b), SameEntries(b, c)
    PROVE  SameEntries(a, c)
BY DEF SameEntries

(* An id of an older list that is listed was listed all the time. *)
LEMMA OldIdsAreOld ==
    ASSUME NEW held, NEW old \in Collection, NEW new \in Collection,
           Past(held, old), Later(old, new)
    PROVE  \A id \in Ids(held) : id \in Ids(new) => id \in Ids(old)
<1>1. /\ held \in Collection
      /\ held.nextId \in Int /\ old.nextId \in Int
      /\ \A id \in Ids(held) : id \in Int
  BY ListNumbers DEF Past
<1> QED  BY <1>1 DEF Past, BelowCounter, Later

(* What is past stays past, whatever is written. *)
LEMMA PastStays ==
    ASSUME NEW held, NEW old \in Collection, Valid(old), NEW new \in Collection,
           Past(held, old), Later(old, new)
    PROVE  Past(held, new)
<1>1. /\ held \in Collection
      /\ held.nextId \in Int /\ old.nextId \in Int /\ new.nextId \in Int
      /\ held.revision \in Int /\ old.revision \in Int /\ new.revision \in Int
  BY ListNumbers DEF Past
<1>2. held.nextId <= new.nextId /\ held.revision <= new.revision
  BY <1>1 DEF Past, IsPast, Later
<1>3. held.revision = new.revision => SameEntries(held, new)
  <2>1. SUFFICES ASSUME held.revision = new.revision PROVE SameEntries(held, new)
    OBVIOUS
  <2>2. held.revision = old.revision /\ new.revision = old.revision
    BY <1>1, <2>1 DEF Past, IsPast, Later
  <2>3. SameEntries(held, old) /\ SameEntries(old, new)
    BY <2>2 DEF Past, IsPast, Later, SameSnapshots
  <2> QED  BY <2>3, SameEntriesTransitive
<1>4. \A id \in Ids(held) : id \in Ids(new) => id \in Ids(old)
  BY OldIdsAreOld
<1>5. ASSUME NEW id \in Ids(held) \cap Ids(new)
      PROVE  held.entries[id].recipe = new.entries[id].recipe
  BY <1>4 DEF Past, IsPast, Later
<1>6. Lineage(held, new)
  <2>1. Lineage(held, old)
    BY DEF Past
  <2>2. CASE KeepsTree(old, new)
    BY <1>1, <1>4, <2>1, <2>2, KeptSurvivors
  <2>3. CASE \E gone \in SnapshotId : TakesOut(old, new, gone)
    <3>1. PICK gone \in SnapshotId : TakesOut(old, new, gone)
      BY <2>3
    <3>2. old.entries[gone].parent # gone
      BY <3>1, NotOwnParent DEF TakesOut, Valid
    <3> QED  BY <1>1, <2>1, <3>1, <3>2, HeirSurvives
  <2> QED  BY <2>2, <2>3 DEF Later
<1> QED  BY <1>1, <1>2, <1>3, <1>5, <1>6 DEF Past, IsPast

(* The file's list is what a survivor in it is looked up in, and a base it lists *)
(* is its own survivor.                                                          *)
LEMMA ListedSurvives ==
    ASSUME NEW f, CanBase(f, f.savedBase), NEW held
    PROVE  Survivor(held, f.savedBase, f.snapshots) = f.savedBase
BY DEF CanBase, Survivor

(* A base that an older list finds to be the saved one stays so: both move to *)
(* the parent of what is deleted.                                             *)
LEMMA AgreementStays ==
    ASSUME NEW held, NEW f \in Contents, NEW g \in Contents, Sound(f),
           Past(held, f.snapshots), Later(f.snapshots, g.snapshots), Follows(f, g),
           NEW base \in Ids(held) \cup {NoId},
           Survivor(held, base, f.snapshots) = f.savedBase
    PROVE  Survivor(held, base, g.snapshots) = g.savedBase
<1>1. /\ held \in Collection /\ f.snapshots \in Collection /\ g.snapshots \in Collection
      /\ Lineage(held, f.snapshots) /\ Acyclic(f.snapshots)
  BY DEF Past, Contents, Sound, Valid
<1>2. \A id \in Ids(held) : id \in Ids(g.snapshots) => id \in Ids(f.snapshots)
  BY <1>1, OldIdsAreOld
<1>3. CASE KeepsTree(f.snapshots, g.snapshots) /\ g.savedBase = f.savedBase
  BY <1>1, <1>2, <1>3, KeptSurvivors
<1>4. CASE \E gone \in SnapshotId :
              /\ TakesOut(f.snapshots, g.snapshots, gone)
              /\ g.savedBase = IF f.savedBase = gone THEN f.snapshots.entries[gone].parent
                               ELSE f.savedBase
  <2>1. PICK gone \in SnapshotId :
              /\ TakesOut(f.snapshots, g.snapshots, gone)
              /\ g.savedBase = IF f.savedBase = gone THEN f.snapshots.entries[gone].parent
                               ELSE f.savedBase
    BY <1>4
  <2>2. f.snapshots.entries[gone].parent # gone
    BY <1>1, <2>1, NotOwnParent DEF TakesOut
  <2>3. \A id \in Ids(held) \cup {NoId} :
           Survivor(held, id, g.snapshots) =
               IF Survivor(held, id, f.snapshots) = gone THEN f.snapshots.entries[gone].parent
               ELSE Survivor(held, id, f.snapshots)
    BY <1>1, <2>1, <2>2, HeirSurvives
  <2> QED  BY <2>1, <2>3
<1> QED  BY <1>3, <1>4 DEF Follows

(* A thumbnail marked in an older list leaves it one of the past. *)
LEMMA PastWithThumbnail ==
    ASSUME NEW held, NEW current \in Collection, Past(held, current),
           NEW after \in Collection, after.revision = held.revision,
           SameSnapshots(held, after),
           \A i \in Ids(held) : after.entries[i].recipe = held.entries[i].recipe
    PROVE  Past(after, current)
<1>1. Ids(after) = Ids(held) /\ after.nextId = held.nextId
  BY DEF SameSnapshots, SameEntries
<1>2. SameEntries(after, held)
  BY DEF SameSnapshots, SameEntries
<1>3. held.revision = current.revision => SameEntries(after, current)
  BY <1>2, SameEntriesTransitive DEF Past, IsPast
<1>4. Lineage(after, current)
  BY LineageOfSame DEF Past, SameSnapshots
<1> QED  BY <1>1, <1>3, <1>4 DEF Past, IsPast, BelowCounter

(* No list is past every list, when a list at revision 0 is empty. *)
LEMMA NothingIsPast ==
    ASSUME NEW current \in Collection, current.revision = 0 => Ids(current) = {}
    PROVE  Past(NoSnapshots, current)
<1>1. NoSnapshots \in Collection /\ Ids(NoSnapshots) = {}
  BY NoSnapshotsType
<1>2. NoSnapshots.revision = 0 /\ NoSnapshots.nextId = 1
  BY DEF NoSnapshots
<1>3. current.nextId >= 1 /\ current.revision >= 0
  BY SnapshotsAssumption DEF Collection, SnapshotId
<1> QED  BY <1>1, <1>2, <1>3
         DEF Past, IsPast, BelowCounter, SameEntries, Lineage, ParentsListed, Acyclic

(* Of two past lists the one that counts is past. *)
LEMMA AdoptedIsPast ==
    ASSUME NEW held, NEW fresh, NEW current, Past(held, current), Past(fresh, current)
    PROVE  Past(IF fresh.revision < held.revision THEN held ELSE fresh, current)
OBVIOUS
=============================================================================
