---------------------------- MODULE MCEditSession ----------------------------
(***************************************************************************)
(* Three small instances of EditSession for TLC in one run, and one of     *)
(* EditingModes.  The first state decides which: a session over a chain of *)
(* snapshots, or over a list with an entry that cannot be read, both with  *)
(* one look; one with a lens to match and marks to set, over a list of one *)
(* snapshot; or a window's modes over a session of looks with two tones,   *)
(* two frames and two angles.  The others stay as they are.                *)
(***************************************************************************)
EXTENDS EditSession, FiniteSets

CONSTANTS
    s0, s1, plain, rating, wide,
    None,                   \* no crop mode, no step, no edit of the panel
    Tones, Frames, Angles,  \* of the looks of the modes
    Photographs             \* what the window of the modes opens

VARIABLES part, window

MCMarks == {rating}

Plain(state) == [state |-> state, correct |-> FALSE, lens |-> NoLens]

Bare == [recorded   |-> FALSE,
         recipe     |-> Plain(DefaultState),
         savedBase  |-> NoId,
         marks      |-> [mark \in MCMarks |-> 0],
         unreadable |-> 0,
         snapshots  |-> NoSnapshots]

Node(parent) ==
    [parent |-> parent, recipe |-> Plain(DefaultState), name |-> plain, thumbnail |-> FALSE]

(* A chain of two snapshots with the saved base on the later one. *)
Chain == [Bare EXCEPT
            !.recorded   = TRUE,
            !.savedBase  = 2,
            !.snapshots  = [revision |-> 2, nextId |-> 3,
                            entries  |-> [NoSnapshots.entries EXCEPT
                                            ![1] = Node(NoId), ![2] = Node(1)]]]

(* One snapshot, and an entry that cannot be read. *)
Unreadable == [Bare EXCEPT
            !.recorded   = TRUE,
            !.unreadable = 1,
            !.snapshots  = [revision |-> 1, nextId |-> 2,
                            entries  |-> [NoSnapshots.entries EXCEPT ![1] = Node(NoId)]]]

(* One snapshot whose look has a correction on, as another process made it. *)
Corrected == [Bare EXCEPT
            !.snapshots  = [revision |-> 1, nextId |-> 2,
                            entries  |-> [NoSnapshots.entries EXCEPT
                                ![1] = [Node(NoId) EXCEPT !.recipe.correct = TRUE]]]]

MCFiles == {Chain, Unreadable}
MCCorrected == {Corrected}
MCAll == MCFiles \cup MCCorrected

-----------------------------------------------------------------------------
(* Over the lists nobody uses the correction or sets marks. *)
PlainOnly(contents, now) ==
    /\ {contents.recipe, now.recipe} \subseteq {Plain(DefaultState)}
    /\ contents.marks = Bare.marks
    /\ \A id \in Ids(contents.snapshots) : contents.snapshots.entries[id].recipe = Plain(DefaultState)

WithThumbnail(list) == {id \in Ids(list) : list.entries[id].thumbnail}

(* With the lens the list has one snapshot, and changes once. *)
ShortList(list) == Cardinality(Ids(list)) <= 1 /\ list.revision <= 2 /\ WithThumbnail(list) = {}

(* The looks of the modes, and the photograph they are over: one snapshot with another tone. *)
MCLooks == [tone : Tones, frame : Frames, angle : Angles]

Upright == [tone |-> 0, frame |-> 0, angle |-> 0]

Photograph == [Bare EXCEPT
            !.recorded   = TRUE,
            !.recipe     = Plain(Upright),
            !.snapshots  = [revision |-> 1, nextId |-> 2,
                            entries  |-> [NoSnapshots.entries EXCEPT
                                ![1] = [Node(NoId) EXCEPT
                                           !.recipe = Plain([Upright EXCEPT !.tone = 1])]]]]

MCPhotographs == {Photograph}

Modes == INSTANCE EditingModes
         WITH States <- MCLooks, DefaultState <- Upright, Documents <- Photographs,
              StepBound <- HistoryBound, GestureBound <- HistoryBound

(* The recipes of a photograph in the modes, and what None is not. *)
LookRecipe == [state : MCLooks, correct : Corrections, lens : Lenses \cup {NoLens}]

Crops == [geometry : [frame : Frames, angle : Angles], depth : Nat,
          stepStart : [frame : Frames, angle : Angles] \cup {None},
          undo : Seq([frame : Frames, angle : Angles]),
          redo : Seq([frame : Frames, angle : Angles]), drag : BOOLEAN]

Panels == [row : {"tone", "straighten"}, how : {"held", "pending"}, start : MCLooks \cup {None}]

ASSUME ModesAssumption ==
    /\ \A contents \in Photographs :
          /\ contents.recipe \in LookRecipe
          /\ contents.savedBase \in MaybeId
          /\ \A id \in Ids(contents.snapshots) :
                contents.snapshots.entries[id].recipe \in LookRecipe
    /\ NoEdit \notin [recipe : LookRecipe, base : MaybeId]
    /\ None \notin Crops \cup Panels
    /\ Match \in Lenses \cup {NoLens}

MCvars == <<part, vars, window>>

PartsOver(contents) ==
    CASE contents = Chain -> {"chain", "modes"}
      [] contents = Unreadable -> {"damaged"}
      [] OTHER -> {"lens"}

MCInit ==
    /\ Init
    /\ Modes!Init
    /\ part \in PartsOver(file)
    /\ part = "modes" => session = OpenedOn(file)

(* The chain and the damaged list change twice each; of the chain one look has a thumbnail. *)
InSession ==
    /\ part # "modes"
    /\ Next
    /\ part = "chain" => Cardinality(WithThumbnail(file'.snapshots)) <= 1
    /\ part = "damaged" => file'.snapshots.revision <= 3
    /\ IF part = "lens"
       THEN ShortList(file'.snapshots)
       ELSE PlainOnly(file', session'.now) /\ session'.marks = Bare.marks
    /\ UNCHANGED <<part, window>>

InModes == part = "modes" /\ Modes!Next /\ UNCHANGED <<part, vars>>

MCNext == InSession \/ InModes

MCSpec == MCInit /\ [][MCNext]_MCvars

-----------------------------------------------------------------------------
(* The properties of the modes: see EditingModes. *)
EditsHaveOwners == Modes!EditsHaveOwners

CropIsOneEdit == Modes!CropIsOneEdit
=============================================================================
