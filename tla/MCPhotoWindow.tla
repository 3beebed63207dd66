--------------------------- MODULE MCPhotoWindow ---------------------------
(***************************************************************************)
(* Small instances of what the window has running for the photograph that  *)
(* is open, in one run: the way onto the screen, and beside it the         *)
(* renderer under calls in any order, the histogram panel, and the export  *)
(* queue.  The first state decides which part runs.  The others stay as    *)
(* they are, so the states are those of the four parts added up.           *)
(***************************************************************************)
EXTENDS PhotoWindow

CONSTANTS
    PictureBound, ClearBound, SubmitBound,
    ExportBound,
    AloneBound    \* requests of the renderer under calls in any order

ASSUME BoundsAssumption ==
    /\ {PictureBound, ClearBound, SubmitBound, ExportBound, AloneBound} \subseteq Nat
    /\ SubmitBound >= PictureBound + ClearBound
    /\ AloneBound <= RequestBound
    /\ DocumentBound >= 1 /\ DecodeBound >= 2  \* pixels for the renderer alone
    /\ None \notin Nat \cup [serial : Nat, generation : Nat, picture : Nat]
                 \cup [picture : Nat, codes : {"all", "part"}]

VARIABLES
    part,
    \* the histogram panel's
    next, lastSerial, generation, abandon, counting, codes, destroying, finished,
    pictures, picture, inSight, lastMeasured, shownSerial, shown,
    \* the export queue's
    queue, lastId, running, exportNames, closeWhenIdle, boxes, closed

MCLooks == {[geometry |-> 1], [geometry |-> 2]}

MCSavedLook == [geometry |-> 1]

Panel == INSTANCE HistogramPanel

Queue == INSTANCE Exports

Alone == INSTANCE PreviewRenderer WITH
    RequestBound <- AloneBound,
    Pixels <- {[id |-> id, document |-> 1, options |-> SavedOptions] : id \in 1 .. 2}

panelVars == <<next, lastSerial, generation, abandon, counting, codes, destroying, finished,
               pictures, picture, inSight, lastMeasured, shownSerial, shown>>
queueVars == <<queue, lastId, running, exportNames, closeWhenIdle, boxes, closed>>
MCvars == <<part, posted, loader, renderer, window, panelVars, queueVars>>

MCInit ==
    /\ part \in {"window", "renderer", "panel", "exports"}
    /\ Init
    /\ Panel!Init
    /\ Queue!Init

-----------------------------------------------------------------------------
InWindow(step) == part = "window" /\ step /\ UNCHANGED <<part, panelVars, queueVars>>

(* A sidecar is replaced only while the photograph opened last has no pixels. *)
LastReloads == opened' = opened /\ options' # options /\ decoded = None => opened = DocumentBound

InRenderer(step) ==
    part = "renderer" /\ step /\ UNCHANGED <<part, loader, window, panelVars, queueVars>>

InPanel(step) == part = "panel" /\ step /\ UNCHANGED <<part, loader, renderer, window, queueVars>>

InExports(step) ==
    part = "exports" /\ step /\ UNCHANGED <<part, loader, renderer, window, panelVars>>

MCNext ==
    \/ InWindow(Next) /\ LastReloads
    \/ InRenderer(Alone!Next)
    \/ InPanel(Panel!Next)
    \/ InExports(Queue!Next)

(* The fairness of each part, while it is the one that runs. *)
MCFairness ==
    /\ WF_MCvars(InWindow(LoaderStep))
    /\ WF_MCvars(InWindow(RendererStep))
    /\ WF_MCvars(InWindow(EventLoop))
    /\ WF_MCvars(InRenderer(Alone!Worker))
    /\ WF_MCvars(InPanel(Panel!CounterStep))
    /\ WF_MCvars(InPanel(Panel!ShowHistogram))
    /\ WF_MCvars(InExports(Queue!ThreadStep))
    /\ WF_MCvars(InExports(Queue!ShowExportResult))
    /\ WF_MCvars(InExports(Queue!ChooseWait \/ Queue!ChooseCancel \/ Queue!DismissFailure))

MCSpec == MCInit /\ [][MCNext]_MCvars /\ MCFairness

-----------------------------------------------------------------------------
(* Every variable of every part has its type. *)
MCTypeOK == TypeOK /\ Panel!TypeOK /\ Queue!TypeOK

(* What a newer request, another source or the window's change of mind interrupted is taken up
   again in the next pause (see PauseIsUsed), and once the window is closing nothing is rendered to
   its end (see ClosingCancels). *)
RendererEnds == Renderer!PauseIsUsed /\ Renderer!ClosingCancels

(* The properties of the other parts: see HistogramPanel and Exports. *)
HistogramIsOfShown == Panel!HistogramIsOfShown

NamesAreOwed == Queue!NamesAreOwed

WaitEnds == Queue!WaitEnds

(* None of the three workers loses the newest of what it was asked: each implements
   NewestRequest. *)
NewestIsServed ==
    /\ Loader!NewestDecodeLands
    /\ Renderer!RendererServesNewest
    /\ Panel!CounterServesNewest
=============================================================================
