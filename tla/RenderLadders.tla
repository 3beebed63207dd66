--------------------------- MODULE RenderLadders ---------------------------
(***************************************************************************)
(* What the preview renderer keeps of a photograph between renders: the    *)
(* reduced levels of its pixels, the copies of them on the GPU, and, for   *)
(* the CPU and the GPU and for the view and the picture beneath it, a      *)
(* ladder with the results of the passes a render went through.  A render  *)
(* resumes from the deepest rung that its plan would have made too, stores *)
(* a rung after each pass, may be cancelled or fail after any of them, and *)
(* falls back from the GPU to the CPU.                                     *)
(*                                                                         *)
(* Pixels are named by how they were made: an image, and the block of the  *)
(* plan that each pass applied to it.  PreviewRenderer has the requests    *)
(* and what is delivered; here a request is whatever the worker takes.     *)
(***************************************************************************)
EXTENDS Naturals

CONSTANTS
    Decodes,      \* buffers that the renderer is given
    HighestLevel, \* SourcePyramid::highestLevel of each
    Blocks,       \* what a plan may have for a pass
    Off,          \* the block of a pass that does nothing
    Plans,        \* what requests resolve to
    None

Sets == INSTANCE FiniteSetsExt

Stages == 1 .. 6
Denoise == 1
Lens == 2
PointwiseChain == 3
Geometry == 4
Resize == 5
Effects == 6

Levels == 0 .. HighestLevel

Devices == {"cpu", "gpu"}
Layers == {"shown", "background"}

Images == [of : Decodes, level : Levels]

Pixels == [image : Images, done : [Stages -> Blocks]]

Rungs == [plan : Plans, pixels : Pixels]

(* A render under way: the passes done of it, and what they gave. *)
Renders ==
    [layer : Layers, image : Images, plan : Plans,
     at : {"taken", "standIn", "ladder", "passes"},
     on : Devices, done : 0 .. Effects, pixels : Pixels \cup {None}, gpuFailed : BOOLEAN]

ASSUME LaddersAssumption ==
    /\ HighestLevel \in Nat
    /\ Off \in Blocks
    /\ Plans \subseteq [Stages -> Blocks]
    /\ None \notin Decodes \cup Images \cup Rungs \cup Renders

VARIABLES
    given,        \* source_
    givenAnew,    \* sourceChanged_
    place,        \* where the loop of the worker is
    render,       \* the render under way, or None
    lastOf,       \* lastShownSource
    levels,       \* SourcePyramid: its source, and the levels built
    ladders,      \* by device and layer
    device,       \* the GpuContext: untried, none, ready or lost
    resident      \* GpuPreview: source_, the levels uploaded, whether sourceReason_ says why not

held == <<lastOf, levels, ladders, device, resident>>
vars == <<given, givenAnew, place, render, held>>

(* The pixels of an image after the passes of a plan up to a boundary; 0 is before the first. *)
Developed(image, plan, boundary) ==
    [image |-> image, done |-> [stage \in Stages |-> IF stage <= boundary THEN plan[stage] ELSE Off]]

-----------------------------------------------------------------------------
(* Ladders. *)

NoRungs == [stage \in Stages |-> None]

EmptyLadder == [image |-> None, rungs |-> NoRungs]

NoLadders == [layer \in Layers |-> EmptyLadder]

(* Mutant of PrefixMatches: the boundary's own pass is not compared. *)
PrefixMatchesBefore(left, right, last) == \A stage \in 1 .. last - 1 : left[stage] = right[stage]

PrefixMatches(left, right, last) == \A stage \in 1 .. last : left[stage] = right[stage]

(* LadderAccess::bind: another image's rungs go. *)
Bind(ladder, image) ==
    IF ladder.image = image THEN ladder ELSE [EmptyLadder EXCEPT !.image = image]

(* The rungs that staleReason finds nothing against; the size of pixels follows from their image
   and the blocks applied. *)
Usable(ladder, plan) ==
    {stage \in Stages : /\ ladder.rungs[stage] # None
                        /\ PrefixMatches(ladder.rungs[stage].plan, plan, stage)}

(* LadderAccess::deepestUsable: the boundary to resume from, or 0 for the source... *)
Deepest(ladder, plan) == Sets!Max(Usable(ladder, plan) \cup {0})

(* ...and the ladder without the rungs that were tried before it. *)
Pruned(ladder, plan) ==
    [ladder EXCEPT !.rungs = [stage \in Stages |-> IF stage <= Deepest(ladder, plan)
                                                   THEN ladder.rungs[stage] ELSE None]]

HasUsableFrom(ladder, from, plan) == \E stage \in Usable(ladder, plan) : stage >= from

(* The stage table: a pass runs unless its block is off; the chain of each pixel always does. *)
Runs(stage, plan) == stage = PointwiseChain \/ plan[stage] # Off

KeepsRung(stage, plan) ==
    \/ stage \in {Denoise, Lens} /\ Runs(stage, plan)
    \/ stage \in {PointwiseChain, Geometry, Resize}

-----------------------------------------------------------------------------
NoLevels == [of |-> None, built |-> {}]

NothingResident == [of |-> None, uploaded |-> {}, failed |-> FALSE]

Init ==
    /\ given = None
    /\ givenAnew = FALSE
    /\ place = "loop"
    /\ render = None
    /\ lastOf = None
    /\ levels = NoLevels
    /\ ladders = [on \in Devices |-> NoLadders]
    /\ device \in {"untried", "none"}
    /\ resident = NothingResident

(* SourcePyramid::reset and level: the level and those below it are built. *)
WithLevel(source, level) ==
    [of |-> source,
     built |-> 0 .. level \cup (IF levels.of = source THEN levels.built ELSE {})]

(* setSource(); what is under way is cancelled, see Cancelled. *)
SetSource(source) ==
    /\ given' = source
    /\ givenAnew' = (givenAnew \/ source # given)
    /\ UNCHANGED <<place, render, held>>

-----------------------------------------------------------------------------
(* The loop of the worker. *)

(* Mutant of LetGo: the rungs beneath a region stay on the host. *)
LetGoOfShown ==
    /\ lastOf' = None
    /\ levels' = NoLevels
    /\ ladders' = [on \in Devices |-> [layer \in Layers |->
                       IF on = "cpu" /\ layer = "background" THEN ladders[on][layer]
                                                             ELSE EmptyLadder]]
    /\ resident' = NothingResident

(* Everything kept for the previous source goes. *)
LetGo ==
    /\ lastOf' = None
    /\ levels' = NoLevels
    /\ ladders' = [on \in Devices |-> NoLadders]
    /\ resident' = NothingResident

Forget ==
    /\ place = "loop"
    /\ givenAnew
    /\ givenAnew' = FALSE
    /\ LetGo
    /\ UNCHANGED <<given, place, render, device>>

Taken(layer, level, plan, source) ==
    [layer |-> layer, image |-> [of |-> source, level |-> level], plan |-> plan, at |-> "taken",
     on |-> "gpu", done |-> 0, pixels |-> None, gpuFailed |-> FALSE]

(* A request is taken, with the source there is. *)
TakeRequest(level, plan) ==
    /\ place = "loop"
    /\ given # None
    /\ place' = "render"
    /\ render' = Taken("shown", level, plan, given)
    /\ givenAnew' = FALSE
    /\ IF givenAnew THEN LetGo ELSE UNCHANGED <<lastOf, levels, ladders, resident>>
    /\ UNCHANGED <<given, device>>

(* A request is taken, but there is no photograph. *)
TakeNothing ==
    /\ place = "loop"
    /\ given = None
    /\ givenAnew' = FALSE
    /\ IF givenAnew
       THEN LetGo
       ELSE /\ levels' = NoLevels
            /\ ladders' = [ladders EXCEPT !["cpu"]["shown"] = EmptyLadder, !["gpu"] = NoLadders]
            /\ resident' = NothingResident
            /\ UNCHANGED lastOf
    /\ UNCHANGED <<given, place, render, device>>

(* Nothing to render, but a histogram to count. *)
TakeRecount ==
    /\ place = "loop"
    /\ ~givenAnew
    /\ lastOf # None
    /\ lastOf = given
    /\ place' = "pause"
    /\ UNCHANGED <<given, givenAnew, render, held>>

(* Requests pause: the reduced whole frame beneath the view is rendered. *)
TakeBackground(plan) ==
    /\ place = "pause"
    /\ given = lastOf
    /\ place' = "render"
    /\ render' = Taken("background", HighestLevel, plan, lastOf)
    /\ UNCHANGED <<given, givenAnew, held>>

(* There is nothing more to do in the pause, or it is over. *)
Leave ==
    /\ place \in {"pause", "check"}
    /\ place' = "loop"
    /\ UNCHANGED <<given, givenAnew, render, held>>

(* GpuPreview::prepare: the device is made once; another source's copies go. *)
Prepare(source) ==
    /\ IF device = "untried" THEN device' \in {"ready", "none"} ELSE UNCHANGED device
    /\ ladders' = IF device' = "none" \/ resident.of = source
                  THEN ladders ELSE [ladders EXCEPT !["gpu"] = NoLadders]

Prepared(source) ==
    IF device' = "none" \/ resident.of = source THEN resident
                                               ELSE [NothingResident EXCEPT !.of = source]

(* The render starts, though it may be superseded already. *)
Start ==
    /\ place = "render"
    /\ render.at = "taken"
    /\ levels' = WithLevel(render.image.of, render.image.level)
    /\ Prepare(render.image.of)
    /\ resident' = Prepared(render.image.of)
    /\ render' = [render EXCEPT !.at = IF render.layer = "shown" THEN "standIn" ELSE "ladder",
                                !.on = IF device' # "none" /\ ~resident'.failed THEN "gpu"
                                                                               ELSE "cpu"]
    /\ UNCHANGED <<given, givenAnew, place, lastOf>>

(* GpuPreview::uploadedLevel: a level goes up to the device the first time. *)
Upload(level) ==
    /\ device = "ready" \/ level \in resident.uploaded
    /\ resident' = [resident EXCEPT !.uploaded = @ \cup {level}]

(* A coarser picture first, developed directly: no ladder is touched.  Only for a render at level
   0 that resumes from before the brushes. *)
StandIn ==
    /\ place = "render"
    /\ render.at = "standIn"
    /\ render' = [render EXCEPT !.at = "ladder"]
    /\ \/ UNCHANGED <<levels, resident>>
       \/ /\ render.image.level = 0
          /\ HighestLevel >= 1
          /\ LET ladder == ladders[render.on]["shown"]
             IN  ladder.image = render.image => ~HasUsableFrom(ladder, PointwiseChain, render.plan)
          /\ levels' = WithLevel(render.image.of, 1)
          /\ \/ render.on = "gpu" /\ Upload(1)
             \/ UNCHANGED resident
    /\ UNCHANGED <<given, givenAnew, place, lastOf, ladders, device>>

(* resumeOrDevelop() and resumeOrDevelopOnGpu() up to the first pass. *)
Resume ==
    LET ladder == Bind(ladders[render.on][render.layer], render.image)
        from == Deepest(ladder, render.plan)
    IN  /\ place = "render"
        /\ render.at = "ladder"
        /\ IF render.on = "gpu" THEN Upload(render.image.level) ELSE UNCHANGED resident
        /\ ladders' = [ladders EXCEPT ![render.on][render.layer] = Pruned(ladder, render.plan)]
        /\ render' = [render EXCEPT !.at = "passes",
                                    !.done = from,
                                    !.pixels = IF from = 0 THEN Developed(render.image, render.plan, 0)
                                                           ELSE ladder.rungs[from].pixels]
        /\ UNCHANGED <<given, givenAnew, place, lastOf, levels, device>>

(* runStages(): one pass, and the rung after it. *)
Pass ==
    LET next == render.done + 1
        pixels == IF Runs(next, render.plan)
                  THEN [render.pixels EXCEPT !.done[next] = render.plan[next]]
                  ELSE render.pixels
    IN  /\ place = "render"
        /\ render.at = "passes"
        /\ render.done < Effects
        /\ render.on = "gpu" => device = "ready"
        /\ render' = [render EXCEPT !.done = next, !.pixels = pixels]
        /\ ladders' = IF KeepsRung(next, render.plan)
                      THEN [ladders EXCEPT ![render.on][render.layer].rungs[next] =
                                [plan |-> render.plan, pixels |-> pixels]]
                      ELSE ladders
        /\ UNCHANGED <<given, givenAnew, place, lastOf, levels, device, resident>>

Under == place = "render" /\ render.at \in {"ladder", "passes"}

Ended(to) ==
    /\ place' = to
    /\ render' = None

(* A newer request, another source or the end of the renderer may cancel a render at any time: it
   is neither a picture nor a failure, and nothing falls back. *)
Cancelled ==
    /\ place = "render"
    /\ render.at # "taken"
    /\ Ended("loop")
    /\ UNCHANGED <<given, givenAnew, held>>

(* The GPU throws, at an upload, a pass or the reading back, lost for good or not: the CPU
   renders. *)
GpuFails ==
    /\ Under
    /\ render.on = "gpu"
    /\ device' \in {device, "lost"}
    /\ render' = [render EXCEPT !.on = "cpu", !.at = "ladder", !.gpuFailed = TRUE]
    /\ UNCHANGED <<given, givenAnew, place, lastOf, levels, ladders, resident>>

(* The request cannot be planned, or the CPU throws too: the request was at fault, and the GPU is
   not given up. *)
RequestFails ==
    /\ place = "render"
    /\ render.at = "standIn" \/ (Under /\ render.on = "cpu")
    /\ Ended(IF render.layer = "shown" THEN "loop" ELSE "check")
    /\ UNCHANGED <<given, givenAnew, held>>

(* GpuPreview::fail, for this source, and for good if the device is lost. *)
GiveUpGpu ==
    /\ resident' = [of |-> IF device = "lost" THEN None ELSE resident.of, uploaded |-> {},
                    failed |-> TRUE]
    /\ device' = IF device = "lost" THEN "none" ELSE device
    /\ ladders' = [ladders EXCEPT !["gpu"] = NoLadders]

Finish ==
    /\ place = "render"
    /\ render.at = "passes"
    /\ render.done = Effects
    /\ IF render.gpuFailed THEN GiveUpGpu ELSE UNCHANGED <<resident, device, ladders>>
    /\ lastOf' = IF render.layer = "shown" THEN render.image.of ELSE lastOf
    /\ Ended(IF render.layer = "shown" THEN "pause" ELSE "check")
    /\ UNCHANGED <<given, givenAnew, levels>>

(* countCurveHistogram(): of a coarse level, on the device from a copy of it, else on the CPU. *)
CountHistogram ==
    /\ place \in {"pause", "check"}
    /\ given = lastOf
    /\ place' = "loop"
    /\ levels' = WithLevel(lastOf, HighestLevel)
    /\ Prepare(lastOf)
    /\ \/ resident' = Prepared(lastOf)
       \/ /\ device' = "ready"
          /\ ~Prepared(lastOf).failed
          /\ resident' = [Prepared(lastOf) EXCEPT !.uploaded = @ \cup {HighestLevel}]
    /\ UNCHANGED <<given, givenAnew, render, lastOf>>

Worker ==
    \/ Forget
    \/ \E level \in Levels, plan \in Plans : TakeRequest(level, plan)
    \/ TakeNothing
    \/ TakeRecount
    \/ \E plan \in Plans : TakeBackground(plan)
    \/ Leave
    \/ Start
    \/ StandIn
    \/ Resume
    \/ Pass
    \/ Cancelled
    \/ GpuFails
    \/ RequestFails
    \/ Finish
    \/ CountHistogram

Next ==
    \/ \E source \in Decodes \cup {None} : SetSource(source)
    \/ Worker

Spec == Init /\ [][Next]_vars

-----------------------------------------------------------------------------
TypeOK ==
    /\ given \in Decodes \cup {None}
    /\ givenAnew \in BOOLEAN
    /\ place \in {"loop", "render", "pause", "check"}
    /\ lastOf \in Decodes \cup {None}
    /\ levels \in [of : Decodes \cup {None}, built : SUBSET Levels]
    /\ ladders \in [Devices -> [Layers -> [image : Images \cup {None},
                                         rungs : [Stages -> Rungs \cup {None}]]]]
    /\ device \in {"untried", "none", "ready", "lost"}
    /\ resident \in [of : Decodes \cup {None}, uploaded : SUBSET Levels, failed : BOOLEAN]
    /\ render \in Renders \cup {None}
    /\ (render = None) = (place # "render")

(* Every rung of a ladder is what developing the ladder's image by the rung's own plan up to its
   boundary gives, and rungs agree on the passes they share: whatever was cancelled, failed or
   fell back on the way, a ladder never mixes two looks, two levels or two photographs. *)
RungsAreWhole ==
    \A on \in Devices, layer \in Layers :
        LET ladder == ladders[on][layer]
            kept == {stage \in Stages : ladder.rungs[stage] # None}
        IN  \A stage \in kept :
                /\ ladder.image # None
                /\ ladder.rungs[stage].pixels =
                       Developed(ladder.image, ladder.rungs[stage].plan, stage)
                /\ \A deeper \in kept :
                       stage < deeper =>
                           PrefixMatches(ladder.rungs[stage].plan, ladder.rungs[deeper].plan, stage)

(* A render that goes through its passes has at each boundary the pixels that developing its own
   image by its own plan from the start would give, wherever it resumed; and behind it every
   rung that its plan keeps. *)
RenderIsWhole ==
    render # None /\ render.at = "passes" =>
        LET ladder == ladders[render.on][render.layer]
        IN  /\ ladder.image = render.image
            /\ render.pixels = Developed(render.image, render.plan, render.done)
            /\ \A stage \in 1 .. render.done :
                   KeepsRung(stage, render.plan) =>
                       /\ ladder.rungs[stage] # None
                       /\ PrefixMatches(ladder.rungs[stage].plan, render.plan, stage)

(* Both, over variables that have their types. *)
RendersAreWhole == TypeOK /\ RungsAreWhole /\ RenderIsWhole

(* What a photograph's levels, rungs and copies on the GPU are of. *)
Holding ==
    {lastOf, levels.of, resident.of}
        \cup {source \in Decodes : \E on \in Devices, layer \in Layers :
                  ladders[on][layer].image \in {[of |-> source, level |-> level] : level \in Levels}}

(* Once the worker is back at its loop and knows of the last source it was given, it holds nothing
   of any other photograph, however renders, pauses and new photographs interleaved; and
   nothing stays on a device that is gone or that was given up for the photograph. *)
PreviousIsReleased ==
    /\ place = "loop" /\ ~givenAnew => Holding \subseteq {given, None}
    /\ device \in {"untried", "none"} \/ resident.failed =>
           resident.uploaded = {} /\ ladders["gpu"] = NoLadders
=============================================================================
