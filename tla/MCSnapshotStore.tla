--------------------------- MODULE MCSnapshotStore ---------------------------
(* A small instance of SnapshotStore for TLC. *)
EXTENDS SnapshotStore

CONSTANTS s0, plain, rating

MCStates == {s0}
MCMarks == {rating}

Look(correct) == [state |-> s0, correct |-> correct, lens |-> NoLens]

Bare == [recorded   |-> FALSE,
         recipe     |-> Look(FALSE),
         savedBase  |-> NoId,
         marks      |-> [m \in MCMarks |-> 0],
         unreadable |-> 0,
         snapshots  |-> NoSnapshots]

Node(parent, correct) ==
    [parent |-> parent, recipe |-> Look(correct), name |-> plain, thumbnail |-> FALSE]

(* A chain of two snapshots with the saved base on the later one, and an entry *)
(* that cannot be read.                                                        *)
Chain == [Bare EXCEPT
            !.recorded   = TRUE,
            !.savedBase  = 2,
            !.unreadable = 1,
            !.snapshots  = [revision |-> 2, nextId |-> 3,
                            entries  |-> [NoSnapshots.entries EXCEPT
                                            ![1] = Node(NoId, FALSE), ![2] = Node(1, TRUE)]]]

MCInitialFiles == {Bare, Chain}
=============================================================================
