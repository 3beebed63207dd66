---------------------------- MODULE MCSidecarFile ----------------------------
(* A small instance of SidecarFile for TLC: two writers and the documents a *)
(* reader has to repair.                                                    *)
EXTENDS SidecarFile

CONSTANTS s0, plain, rating

MCStates == {s0}
Symmetry == Permutations(Writers)
MCMarks == {rating}

Look(correct) == [state |-> s0, correct |-> correct, lens |-> NoLens]

NodeOf(id, parent) ==
    [id |-> id, parent |-> parent, readable |-> TRUE, recipe |-> Look(FALSE),
     name |-> plain, thumbnail |-> FALSE]

Pictured(node) == [node EXCEPT !.thumbnail = TRUE]

Damaged(id) == [NodeOf(id, NoId) EXCEPT !.readable = FALSE]

Absent ==
    [exists |-> FALSE, version |-> NoVersion, marker |-> "none", keys |-> FALSE,
     recipe |-> Look(FALSE), marks |-> [m \in MCMarks |-> 0], base |-> NoId,
     revision |-> 0, nextId |-> 0, usable |-> TRUE, nodes |-> <<>>]

(* Version 1: a version alone records settings. *)
Old == [Absent EXCEPT !.exists = TRUE, !.version = 1]

(* Another tool's sidecar: marks alone. *)
Foreign == [Absent EXCEPT !.exists = TRUE, !.marks = [m \in MCMarks |-> 1]]

Version2 == [Absent EXCEPT !.exists = TRUE, !.version = 2, !.marker = "True",
                           !.keys = TRUE]

(* A parent that is not there, an entry that cannot be read, and no marker. *)
Orphan == [Version2 EXCEPT
              !.marker = "none", !.revision = 1, !.nextId = 4, !.base = 2,
              !.nodes = <<Pictured(NodeOf(1, 3)), NodeOf(2, 1), Damaged(0)>>]

(* Two snapshots, each the parent of the other, and no counter. *)
Cycle == [Version2 EXCEPT !.revision = 1, !.base = 1,
             !.nodes = <<NodeOf(1, 2), Pictured(NodeOf(2, 1))>>]

(* A list that is no single sequence, holding the highest id of all. *)
NoList == [Version2 EXCEPT !.usable = FALSE,
              !.nodes = <<NodeOf(2, 1), Damaged(4)>>]

Newer == [Version2 EXCEPT !.version = NewerVersion,
             !.nodes = <<NodeOf(1, NoId)>>]

MCDocuments == {Absent, Old, Foreign, Orphan, Cycle, NoList, Newer}

(* An id that two nodes carry: the later one is not usable, while the first is there. *)
Duplicate == [Version2 EXCEPT !.nextId = 2,
                 !.nodes = <<NodeOf(1, NoId), [NodeOf(1, NoId) EXCEPT !.recipe = Look(TRUE)]>>]

MCDuplicates == {Duplicate}
=============================================================================
