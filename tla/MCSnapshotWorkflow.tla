------------------------- MODULE MCSnapshotWorkflow -------------------------
(***************************************************************************)
(* Small instances of SnapshotWorkflow for TLC.  The first state decides   *)
(* which: "lists", with two writes and two sessions but one look; "looks", *)
(* with two looks and an entry that cannot be read, but one write and one  *)
(* session; or "reopen", without writes.                                   *)
(***************************************************************************)
EXTENDS SnapshotWorkflow

CONSTANTS s0, s1, plain, other, rating, Parts

VARIABLE part

MCMarks == {rating}

Plain(state) == [state |-> state, correct |-> FALSE, lens |-> NoLens]

(* One snapshot, which the saved look is based on. *)
OneSnapshot ==
    [recorded   |-> TRUE,
     recipe     |-> Plain(DefaultState),
     savedBase  |-> 1,
     marks      |-> [mark \in MCMarks |-> 0],
     unreadable |-> 0,
     snapshots  |-> [revision |-> 1, nextId |-> 2,
                     entries  |-> [NoSnapshots.entries EXCEPT
                         ![1] = [parent |-> NoId, recipe |-> Plain(DefaultState),
                                 name |-> plain, thumbnail |-> FALSE]]]]

(* And one that cannot be read. *)
Damaged == [OneSnapshot EXCEPT !.unreadable = 1]

MCFiles == {OneSnapshot, Damaged}

-----------------------------------------------------------------------------
MCvars == <<part, vars>>

MCInit ==
    /\ Init
    /\ part \in Parts
    /\ file = IF part = "looks" THEN Damaged ELSE OneSnapshot

(* What each part leaves out. *)
OneLook ==
    /\ file.recipe.state = s0
    /\ Open => session.now.recipe.state = s0 /\ Len(session.history) <= 1
    /\ file.savedBase \in {NoId, 1}
    /\ \A id \in Ids(file.snapshots) : file.snapshots.entries[id].recipe.state = s0
    /\ dialog.op \in {"none", "create", "open"}

OneWrite ==
    /\ Open /\ serial = 1 /\ tickets <= 1 /\ file.snapshots.revision <= 2
    /\ dialog.op # "open"
    /\ \A write \in InFlight : ~isPatch(write)

Within(step) ==
    /\ step
    /\ \/ part = "lists" /\ OneLook'
       \/ part = "looks" /\ OneWrite'
       \/ part = "reopen" /\ tickets' = 0
    /\ UNCHANGED part

MCSpec == MCInit /\ [][Within(Next)]_MCvars

MCLiveSpec ==
    /\ MCSpec
    /\ WF_MCvars(Within(Take)) /\ WF_MCvars(Within(CarryOut))
    /\ WF_MCvars(Within(snapshotWriteLanded))
=============================================================================
