----------------------------- MODULE EditingModes -----------------------------
(***************************************************************************)
(* The modes in which the main window edits a photograph, over the one     *)
(* edit that an EditSession can have open: the crop mode, whose whole stay *)
(* is an edit with a history of its own; the mask mode, where each gesture *)
(* is one; the picker of the white balance; the preview of a snapshot; and *)
(* the sliders of the develop panel, which can be held, or be left waiting *)
(* for another nudge, while keys and menus do something else.              *)
(*                                                                         *)
(* A look has a tone, which sliders, mask gestures and the picker change,  *)
(* a frame (turns, flips and crop) and an angle.  That a rotation shrinks  *)
(* the crop is left out, and so are commits that fail.  The window is a    *)
(* record: handlers call one another, and each is an operator that gives   *)
(* the window after it.  There is one mouse, and no slider is nudged while *)
(* its button is down.                                                     *)
(***************************************************************************)
EXTENDS EditHistory

CONSTANTS
    Tones, Frames, Angles,  \* of the looks, which are the session's States
    Documents,     \* contents that a photograph is opened with
    None,          \* no crop mode, no step, no edit of the panel
    StepBound,     \* cap on the steps of the history
    GestureBound   \* cap on the steps within the crop mode

VARIABLE window

Looks == [tone : Tones, frame : Frames, angle : Angles]

Geometries == [frame : Frames, angle : Angles]

Look(w) == w.session.now.recipe.state

GeometryOf(look) == [frame |-> look.frame, angle |-> look.angle]

WithGeometry(look, geometry) ==
    [look EXCEPT !.frame = geometry.frame, !.angle = geometry.angle]

OpenPhoto(contents, decoded) ==
    [session |-> OpenedOn(contents),
     decoded |-> decoded,
     preview |-> FALSE,     \* whether the look of a snapshot is shown
     crop    |-> None,
     masking |-> FALSE,
     gesture |-> "none",    \* of the mask overlay: none, shape or stroke
     picking |-> FALSE,
     panel   |-> None]      \* the slider that is held, or waits for another nudge

Init == \E contents \in Documents : window = OpenPhoto(contents, TRUE)

editable(w) == w.decoded /\ ~w.preview

hasPixels(w) == w.decoded

-----------------------------------------------------------------------------
(* CropEditing: the geometry, and its history of steps that nest.  stepStart is None between them. *)
CropOf(geometry) ==
    [geometry |-> geometry, depth |-> 0, stepStart |-> None,
     undo |-> <<>>, redo |-> <<>>, drag |-> FALSE]

beginStep(crop) ==
    [crop EXCEPT !.depth = @ + 1, !.stepStart = IF crop.depth = 0 THEN crop.geometry ELSE @]

(* A step that changed nothing is not kept. *)
endStep(crop) ==
    IF crop.depth # 1 THEN [crop EXCEPT !.depth = IF @ = 0 THEN 0 ELSE @ - 1]
    ELSE LET closed == [crop EXCEPT !.depth = 0, !.stepStart = None]
         IN  IF crop.geometry = crop.stepStart THEN closed
             ELSE [closed EXCEPT !.undo = Append(@, crop.stepStart), !.redo = <<>>]

cropCanUndo(crop) == crop.undo # <<>> \/ (crop.depth > 0 /\ crop.geometry # crop.stepStart)

Last(steps) == steps[Len(steps)]

Front(steps) == SubSeq(steps, 1, Len(steps) - 1)

(* Mutant of cropUndo: the step that is open stays open. *)
cropUndoInStep(crop) ==
    IF crop.undo = <<>> THEN crop
    ELSE [crop EXCEPT !.redo = Append(@, crop.geometry),
                      !.geometry = Last(crop.undo),
                      !.undo = Front(@)]

cropUndo(crop) ==
    LET closed == IF crop.depth > 0 THEN endStep([crop EXCEPT !.depth = 1]) ELSE crop
    IN  IF closed.undo = <<>> THEN closed
        ELSE [closed EXCEPT !.redo = Append(@, closed.geometry),
                            !.geometry = Last(closed.undo),
                            !.undo = Front(@)]

cropCanRedo(crop) == crop.depth = 0 /\ crop.redo # <<>>

cropRedo(crop) ==
    IF ~cropCanRedo(crop) THEN crop
    ELSE [crop EXCEPT !.undo = Append(@, crop.geometry),
                      !.geometry = Last(crop.redo),
                      !.redo = Front(@)]

(* CropOverlay::changed: the session's open edit follows the overlay. *)
changed(w) ==
    LET look == WithGeometry(Look(w), w.crop.geometry)
    IN  IF ~editing(w.session) THEN w
        ELSE [w EXCEPT !.session = update(@, [@.now.recipe EXCEPT !.state = look])]

(* CropOverlay::edit: a command is a step, or part of the one that is open. *)
editCrop(w, geometry) ==
    LET during == changed([w EXCEPT !.crop = [beginStep(@) EXCEPT !.geometry = geometry]])
    IN  [during EXCEPT !.crop = endStep(@)]

-----------------------------------------------------------------------------
(* The edit of the panel or of a gesture. *)
beginEdit(w) ==
    IF w.crop # None THEN [w EXCEPT !.crop = beginStep(@)]
    ELSE [w EXCEPT !.session = begin(@)]

abandonDrag(w) == [w EXCEPT !.gesture = "none"]

(* A stroke whose edit has gone is not drawn any more. *)
WhileEditing(w, then) ==
    IF editing(w.session) THEN then
    ELSE IF w.gesture = "stroke" THEN abandonDrag(w) ELSE w

(* In the crop mode a new geometry goes through the overlay, as a step of its own. *)
updateEdit(w, look) ==
    LET adopts == w.crop # None /\ GeometryOf(look) # GeometryOf(Look(w))
        adopted == IF adopts THEN editCrop(w, GeometryOf(look)) ELSE w
    IN  WhileEditing(w, [adopted EXCEPT !.session =
                      update(@, [@.now.recipe EXCEPT !.state = look])])

finishEdit(w) ==
    IF w.crop # None THEN [w EXCEPT !.crop = endStep(@)]
    ELSE WhileEditing(w, [w EXCEPT !.session = commit(@)])

cancelEdit(w) == IF editing(w.session) THEN [w EXCEPT !.session = cancel(@)] ELSE w

cancelGesture(w) == IF w.gesture = "none" THEN w ELSE cancelEdit(abandonDrag(w))

Pending(w) == w.panel # None /\ w.panel.how = "pending"

Held(w) == w.panel # None /\ w.panel.how = "held"

finishPendingEdit(w) == IF Pending(w) THEN finishEdit([w EXCEPT !.panel = None]) ELSE w

(* A slider that is disabled while it is held is let go. *)
letGo(w, rows) ==
    IF Held(w) /\ w.panel.row \in rows THEN finishEdit([w EXCEPT !.panel = None]) ELSE w

(* An edit that is begun, updated and committed at once. *)
ownStep(w, look) == [w EXCEPT !.session = setState(@, look)]

-----------------------------------------------------------------------------
(* Modes. *)

(* Mutant of leaveMaskMode: the edit of a gesture under way is left open. *)
leaveMaskModeOnly(w) ==
    IF ~w.masking THEN w ELSE [abandonDrag(w) EXCEPT !.masking = FALSE]

leaveMaskMode(w) == IF ~w.masking THEN w ELSE [cancelGesture(w) EXCEPT !.masking = FALSE]

leaveCropMode(w, accept) ==
    LET closed == [w EXCEPT !.crop = None]
    IN  IF w.crop = None \/ ~editing(w.session) THEN closed
        ELSE [closed EXCEPT !.session = IF accept THEN commit(@) ELSE cancel(@)]

setPicking(w, picking) ==
    IF picking /\ editable(w) /\ w.crop = None
    THEN [leaveMaskMode(w) EXCEPT !.picking = TRUE]
    ELSE [w EXCEPT !.picking = FALSE]

setMaskMode(w, masking) ==
    IF ~masking THEN leaveMaskMode(w)
    ELSE IF ~editable(w) \/ w.masking THEN w
    ELSE [setPicking(finishPendingEdit(leaveCropMode(w, TRUE)), FALSE) EXCEPT !.masking = TRUE]

(* The groups of the panel but the geometry's are disabled while cropping. *)
setCropMode(w, cropping) ==
    IF ~cropping THEN leaveCropMode(w, TRUE)
    ELSE IF ~editable(w) \/ w.crop # None THEN w
    ELSE LET ready == setPicking(finishPendingEdit(leaveMaskMode(w)), FALSE)
             begun == [ready EXCEPT !.session = begin(@),
                                    !.crop = CropOf(GeometryOf(Look(ready)))]
         IN  letGo(begun, {"tone"})

(* Without pixels, or in a preview, the whole panel is disabled. *)
updateEditingActions(w) == IF editable(w) THEN w ELSE letGo(w, {"tone", "straighten"})

closePreview(w) == [w EXCEPT !.preview = FALSE]

(* An edit that is still open refuses the preview. *)
startPreview(w) ==
    LET ready == finishPendingEdit(setPicking(w, FALSE))
    IN  IF editing(ready.session) THEN closePreview(ready)
        ELSE updateEditingActions([ready EXCEPT !.preview = TRUE])

(* What the commands that make a step of their own do first. *)
Interrupted(w) == abandonDrag(finishPendingEdit(w))

editGeometry(w, frame) ==
    IF w.crop # None THEN editCrop(w, [w.crop.geometry EXCEPT !.frame = frame])
    ELSE LET ready == Interrupted(w) IN ownStep(ready, [Look(ready) EXCEPT !.frame = frame])

(* The row clicked meant a step of the list as it was shown. *)
goToHistoryRow(w, step) ==
    LET ready == finishPendingEdit(w)
        stale == \/ Len(ready.session.history) # Len(w.session.history)
                 \/ step = ready.session.position
    IN  IF stale THEN ready ELSE [abandonDrag(ready) EXCEPT !.session = goTo(@, step)]

(* What asks before the photograph is left or read again does first. *)
Ended(w) == finishPendingEdit(cancelGesture(leaveCropMode(w, TRUE)))

showPhoto(w, contents) ==
    LET left == setPicking(leaveMaskMode([w EXCEPT !.crop = None]), FALSE)
    IN  updateEditingActions([OpenPhoto(contents, FALSE) EXCEPT !.panel = left.panel])

(* The session is replaced; the mode, and a slider that is held, stay. *)
sidecarChangedOnDisk(w, contents) ==
    LET ended == Ended(w)
    IN  IF hasUnsavedChanges(ended.session) THEN ended
        ELSE updateEditingActions([ended EXCEPT !.session = OpenedOn(contents),
                                                !.preview = FALSE])

-----------------------------------------------------------------------------
(* What the user does, and what happens to the window. *)

Becomes(w) ==
    /\ Len(w.session.history) <= StepBound
    /\ w.crop # None => Len(w.crop.undo) + Len(w.crop.redo) <= GestureBound
    /\ window' = w

Cropping == window.crop # None

Dragging == Cropping /\ window.crop.drag

MouseIsFree == ~Held(window) /\ window.gesture = "none" /\ ~Dragging

(* The sliders that can be reached: of the masks, of the crop, or all. *)
Rows ==
    IF ~editable(window) THEN {}
    ELSE IF Cropping THEN {"straighten"}
    ELSE IF window.masking THEN {"tone"} ELSE {"tone", "straighten"}

(* An edit of the panel; only the straightening goes back to the look it began with. *)
BeginsIn(w, row, how) ==
    LET ready == finishPendingEdit(w)
    IN  beginEdit([ready EXCEPT !.panel =
            [row |-> row, how |-> how, start |-> IF row = "tone" THEN None ELSE Look(ready)]])

(* The looks that a slider asks for, with another value than the one it shows. *)
AskedBy(w) ==
    IF w.panel.row = "tone"
    THEN {[Look(w) EXCEPT !.tone = tone] : tone \in Tones \ {Look(w).tone}}
    ELSE {[w.panel.start EXCEPT !.angle = angle] : angle \in Angles \ {Look(w).angle}}

PressSlider == \E row \in Rows : MouseIsFree /\ Becomes(BeginsIn(window, row, "held"))

MoveSlider ==
    Held(window) /\ \E look \in AskedBy(window) : Becomes(updateEdit(window, look))

ReleaseSlider == Held(window) /\ Becomes(finishEdit([window EXCEPT !.panel = None]))

(* A notch of the wheel, or a key: a run of them is one edit, until they pause. *)
Nudge ==
    \E row \in Rows :
        LET goesOn == Pending(window) /\ window.panel.row = row
            begun == IF goesOn THEN window ELSE BeginsIn(window, row, "pending")
        IN  /\ MouseIsFree
            /\ \E look \in AskedBy(begun) : Becomes(updateEdit(begun, look))

NudgesPause == Pending(window) /\ Becomes(finishPendingEdit(window))

-----------------------------------------------------------------------------
SetMaskMode == \E masking \in BOOLEAN : Becomes(setMaskMode(window, masking))

SetPicking == \E picking \in BOOLEAN : Becomes(setPicking(window, picking))

SetCropMode == \E cropping \in BOOLEAN : Becomes(setCropMode(window, cropping))

(* Enter and Esc of the overlay. *)
FinishCrop == \E accepted \in BOOLEAN : Cropping /\ Becomes(leaveCropMode(window, accepted))

(* The mask overlay: a press begins an edit, and a stroke shows at once. *)
PressOnMask ==
    /\ window.masking /\ MouseIsFree
    /\ \/ Becomes(beginEdit([window EXCEPT !.gesture = "shape"]))
       \/ LET begun == beginEdit([window EXCEPT !.gesture = "stroke"])
          IN  \E tone \in Tones : Becomes(updateEdit(begun, [Look(begun) EXCEPT !.tone = tone]))

DragOnMask ==
    /\ window.gesture # "none"
    /\ \E tone \in Tones : Becomes(updateEdit(window, [Look(window) EXCEPT !.tone = tone]))

ReleaseOnMask ==
    /\ window.gesture # "none"
    /\ Becomes(finishEdit(abandonDrag(window)))

(* Esc, the focus lost, or a release that went elsewhere. *)
LoseGesture == window.gesture # "none" /\ Becomes(cancelGesture(window))

DeleteMask ==
    /\ window.masking /\ window.gesture = "none"
    /\ LET begun == beginEdit(window)
       IN  \E tone \in Tones :
              Becomes(finishEdit(updateEdit(begun, [Look(begun) EXCEPT !.tone = tone])))

PickNeutral ==
    /\ window.picking /\ editable(window) /\ MouseIsFree
    /\ LET ready == finishPendingEdit(setPicking(window, FALSE))
       IN  \E tone \in Tones : Becomes(ownStep(ready, [Look(ready) EXCEPT !.tone = tone]))

-----------------------------------------------------------------------------
(* The crop overlay: a drag is one step, whatever it makes of the crop. *)
PressOnCrop ==
    /\ Cropping /\ MouseIsFree
    /\ Becomes([window EXCEPT !.crop = [beginStep(@) EXCEPT !.drag = TRUE]])

DragOnCrop ==
    /\ Dragging
    /\ \E geometry \in Geometries :
          Becomes(changed([window EXCEPT !.crop.geometry = geometry]))

ReleaseOnCrop ==
    /\ Dragging
    /\ Becomes([window EXCEPT !.crop = [endStep(@) EXCEPT !.drag = FALSE]])

EditGeometry ==
    \E frame \in Frames : editable(window) /\ Becomes(editGeometry(window, frame))

-----------------------------------------------------------------------------
(* Undo and redo: of the steps within the crop mode, or of the photograph's history.  A drag of
   the crop refuses them; a run of nudges is a step before they take one back. *)
Undone(w) ==
    LET ready == finishPendingEdit(w)
    IN  IF w.crop = None THEN [abandonDrag(ready) EXCEPT !.session = undo(@)]
        ELSE IF w.crop.drag THEN ready
        ELSE changed([ready EXCEPT !.crop = cropUndo(@)])

Redone(w) ==
    LET ready == finishPendingEdit(w)
    IN  IF w.crop = None THEN [abandonDrag(ready) EXCEPT !.session = redo(@)]
        ELSE IF w.crop.drag THEN ready
        ELSE changed([ready EXCEPT !.crop = cropRedo(@)])

Undo ==
    /\ IF Cropping THEN cropCanUndo(window.crop)
       ELSE ~window.preview /\ canUndo(window.session)
    /\ Becomes(Undone(window))

Redo ==
    /\ IF Cropping THEN cropCanRedo(window.crop)
       ELSE ~window.preview /\ canRedo(window.session)
    /\ Becomes(Redone(window))

GoToHistoryRow ==
    /\ editable(window) /\ ~Cropping /\ MouseIsFree
    /\ \E step \in 1 .. Len(window.session.history) : Becomes(goToHistoryRow(window, step))

PasteSettings ==
    /\ editable(window) /\ ~Cropping
    /\ \E look \in Looks : Becomes(ownStep(Interrupted(window), look))

-----------------------------------------------------------------------------
StartPreview ==
    /\ hasPixels(window) /\ ~Cropping /\ ~window.masking /\ ~window.preview
    /\ Becomes(startPreview(window))

ClosePreview == window.preview /\ Becomes(closePreview(window))

RestoreSnapshot ==
    /\ hasPixels(window) /\ ~Cropping /\ ~window.masking
    /\ \E id \in Ids(window.session.held) :
          Becomes([Interrupted(closePreview(window)) EXCEPT !.session =
                      restoreSnapshot(@, id, @.held.entries[id])])

Save ==
    /\ ~window.preview /\ hasUnsavedChanges(window.session)
    /\ Becomes([finishPendingEdit(leaveCropMode(window, TRUE)) EXCEPT !.session = Saved(@, TRUE)])

SidecarChanges ==
    \E contents \in Documents : Becomes(sidecarChangedOnDisk(window, contents))

(* A box asks about unsaved changes, and may keep the photograph. *)
Leave ==
    LET ended == Ended(window)
    IN  \/ hasUnsavedChanges(ended.session) /\ Becomes(ended)
        \/ \E contents \in Documents : Becomes(showPhoto(ended, contents))

PixelsLand == ~window.decoded /\ Becomes([window EXCEPT !.decoded = TRUE])

Next ==
    \/ PressSlider \/ MoveSlider \/ ReleaseSlider \/ Nudge \/ NudgesPause
    \/ SetMaskMode \/ SetPicking \/ SetCropMode \/ FinishCrop
    \/ PressOnMask \/ DragOnMask \/ ReleaseOnMask \/ LoseGesture \/ DeleteMask \/ PickNeutral
    \/ PressOnCrop \/ DragOnCrop \/ ReleaseOnCrop \/ EditGeometry
    \/ Undo \/ Redo \/ GoToHistoryRow \/ PasteSettings
    \/ StartPreview \/ ClosePreview \/ RestoreSnapshot
    \/ Save \/ SidecarChanges \/ Leave \/ PixelsLand

Spec == Init /\ [][Next]_window

-----------------------------------------------------------------------------
(***************************************************************************)
(* The session's one edit is never left open without anyone to end it, and *)
(* never shared by modes that exclude each other: an edit belongs to the   *)
(* crop mode, or else to a slider or a gesture under way; at most one of   *)
(* cropping, masking, picking and previewing is on, whatever keys come in  *)
(* the middle of a drag; and a preview has no edit under it (setCropMode,  *)
(* leaveMaskMode, startPreview, "an edit is still open").                  *)
(***************************************************************************)
EditsHaveOwners ==
    LET modes == <<Cropping, window.masking, window.picking, window.preview>>
        On(i, j) == modes[i] /\ modes[j]
    IN  /\ editing(window.session) =>
              Cropping \/ window.panel # None \/ window.gesture # "none"
        /\ \A i, j \in 1 .. 4 : On(i, j) => i = j
        /\ window.preview => ~editing(window.session)
        /\ window.gesture # "none" => window.masking
        /\ StepIsCurrent(window.session)

(***************************************************************************)
(* "The whole session is one edit (ADR 022), and undo walks its gestures":  *)
(* in the crop mode the photograph's edit stays open as it was begun, the   *)
(* session holds the geometry of the overlay, and the steps taken back one  *)
(* by one lead to the geometry the mode was entered with and not past it,   *)
(* however drags, commands, sliders that wait and undo nest (beginStep,     *)
(* endStep, undo).                                                          *)
(***************************************************************************)
CropIsOneEdit ==
    Cropping =>
        LET crop == window.crop
            first == IF crop.undo # <<>> THEN crop.undo[1]
                     ELSE IF crop.depth > 0 THEN crop.stepStart ELSE crop.geometry
        IN  /\ editing(window.session)
            /\ GeometryOf(Look(window)) = crop.geometry
            /\ GeometryOf(window.session.baseline.recipe.state) = first
            /\ crop.depth > 0 => crop.drag \/ window.panel # None
=============================================================================
