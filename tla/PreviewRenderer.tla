-------------------------- MODULE PreviewRenderer --------------------------
(***************************************************************************)
(* The preview renderer: a worker thread that renders the newest request   *)
(* of the window, then, once requests pause, the whole frame beneath a     *)
(* region and the histogram of the curve input.  The calls of the window   *)
(* and the worker meet in the fields its mutex guards; everything the      *)
(* worker keeps of a photograph is its own.  Pixels are named by the       *)
(* decode they came from, so that two decodes are never the same source.   *)
(***************************************************************************)
EXTENDS Naturals, Sequences

CONSTANTS
    Looks,        \* develop states, records with a field geometry
    None,
    Pixels,       \* what decodes give
    RequestBound  \* cap: requests made

VARIABLES
    \* guarded by the mutex
    source,          \* source_
    sourceChanged,   \* sourceChanged_
    pending,         \* pending_
    cancelsShown,    \* cancelsShown_
    channel,         \* inFlight_ and inFlightShown_, with whether it is cancelled
    wanted,          \* curveHistogramWanted_
    recount,         \* recountHistogram_
    lastRequest,     \* lastId_
    stopping,        \* how far the destructor is
    \* the worker's own
    at,              \* where its loop is
    job,             \* the request taken, with the source it was taken with
    lastShown,       \* lastShown, lastShownSource
    background,      \* background: the picture beneath a region
    backgroundFor,   \* backgroundSource and backgroundState
    counted,         \* what histogramRefresh recorded
    \* what came of it
    answered,        \* the newest request that ended with a picture or a failure
    uncounted,       \* the request whose count failed
    posted           \* events on their way to the window, in order

shared == <<source, sourceChanged, pending, cancelsShown, channel, wanted, recount, lastRequest,
            stopping>>
kept == <<lastShown, background, backgroundFor, counted>>
unposted == <<shared, at, job, kept, answered, uncounted>>
vars == <<unposted, posted>>

NoBackground == [source |-> None, look |-> None]

Init ==
    /\ source = None
    /\ sourceChanged = FALSE
    /\ pending = None
    /\ cancelsShown = FALSE
    /\ channel = None
    /\ wanted = FALSE
    /\ recount = FALSE
    /\ lastRequest = 0
    /\ stopping = "no"
    /\ at = "wait"
    /\ job = None
    /\ lastShown = None
    /\ background = None
    /\ backgroundFor = NoBackground
    /\ counted = None
    /\ answered = 0
    /\ uncounted = 0

Cancelled(of) == IF of = None THEN None ELSE [of EXCEPT !.cancelled = TRUE]

Post(event) == posted' = Append(posted, event)

(* A picture of the job's look. *)
Picture == [source |-> job.source, look |-> job.look]

-----------------------------------------------------------------------------
(* The calls of the window. *)

SetSource(pixels) ==
    /\ sourceChanged' = (sourceChanged \/ pixels # source)
    /\ source' = pixels
    /\ pending' = None
    /\ cancelsShown' = FALSE
    /\ channel' = Cancelled(channel)
    /\ UNCHANGED <<wanted, recount, lastRequest, stopping, at, job, kept, answered, uncounted>>

(* request(): queue says that a render of a request under way is left to finish. *)
Request(look, whole, queue) ==
    /\ lastRequest < RequestBound
    /\ lastRequest' = lastRequest + 1
    /\ pending' = [id |-> lastRequest + 1, look |-> look, whole |-> whole]
    /\ cancelsShown' = (cancelsShown \/ ~queue)
    /\ channel' = IF channel # None /\ (~queue \/ ~channel.shown) THEN Cancelled(channel)
                                                                 ELSE channel
    /\ UNCHANGED <<source, sourceChanged, wanted, recount, stopping, at, job, kept, answered,
                   uncounted>>

(* Mutant of SetCurveHistogramWanted: the worker is not told to count again. *)
SetCurveHistogramWantedQuietly(now) ==
    /\ wanted' = now
    /\ UNCHANGED <<source, sourceChanged, pending, cancelsShown, channel, recount, lastRequest,
                   stopping, at, job, kept, answered, uncounted>>

SetCurveHistogramWanted(now) ==
    /\ wanted' = now
    /\ recount' = (recount \/ (now /\ ~wanted))
    /\ UNCHANGED <<source, sourceChanged, pending, cancelsShown, channel, lastRequest, stopping,
                   at, job, kept, answered, uncounted>>

(* The destructor asks the thread to stop, then cancels what is in flight. *)
RequestStop ==
    /\ stopping = "no"
    /\ stopping' = "requested"
    /\ UNCHANGED <<source, sourceChanged, pending, cancelsShown, channel, wanted, recount,
                   lastRequest, at, job, kept, answered, uncounted, posted>>

CancelForStop ==
    /\ stopping = "requested"
    /\ stopping' = "cancelled"
    /\ channel' = Cancelled(channel)
    /\ UNCHANGED <<source, sourceChanged, pending, cancelsShown, wanted, recount, lastRequest,
                   at, job, kept, answered, uncounted, posted>>

-----------------------------------------------------------------------------
(* The loop of the worker. *)

WorkerOwn == <<answered, uncounted, posted>>

(* The loop goes on elsewhere; it holds a request until it waits for the next. *)
Go(place) ==
    /\ at' = place
    /\ job' = IF place \in {"wait", "ended"} THEN None ELSE job

(* startChannel(): work that was superseded since it was taken starts cancelled. *)
StartChannel(shown) ==
    channel' = [shown |-> shown,
                cancelled |-> \/ IF shown THEN cancelsShown ELSE pending # None
                              \/ source # job.source
                              \/ stopping # "no"]

Exit ==
    /\ at \in {"wait", "pause", "check"}
    /\ stopping # "no"
    /\ Go("ended")
    /\ UNCHANGED <<shared, kept, WorkerOwn>>

(* What was kept for the previous source goes; the fallback stays while it lines up with the look
   to render, the count while the source is the same. *)
Keep(taken) ==
    LET same == ~sourceChanged /\ source = backgroundFor.source
        linesUp == \/ backgroundFor.look = None
                   \/ backgroundFor.look.geometry = taken.geometry
    IN  /\ lastShown' = IF sourceChanged THEN None ELSE lastShown
        /\ background' = IF same /\ linesUp THEN background ELSE None
        /\ backgroundFor' = [source |-> source,
                             look |-> IF same /\ linesUp THEN backgroundFor.look ELSE None]
        /\ counted' = IF same THEN counted ELSE None

(* Mutant of TakeRequest: the request taken still looks superseded. *)
TakeRequestStillCancelled ==
    /\ at = "wait"
    /\ stopping = "no"
    /\ pending # None
    /\ job' = [id |-> pending.id, look |-> pending.look, whole |-> pending.whole,
               source |-> source]
    /\ Keep(pending.look)
    /\ pending' = None
    /\ sourceChanged' = FALSE
    /\ at' = "start"
    /\ UNCHANGED <<source, cancelsShown, channel, wanted, recount, lastRequest, stopping,
                   WorkerOwn>>

TakeRequest ==
    /\ at = "wait"
    /\ stopping = "no"
    /\ pending # None
    /\ job' = [id |-> pending.id, look |-> pending.look, whole |-> pending.whole,
               source |-> source]
    /\ Keep(pending.look)
    /\ pending' = None
    /\ cancelsShown' = FALSE
    /\ sourceChanged' = FALSE
    /\ at' = "start"
    /\ UNCHANGED <<source, channel, wanted, recount, lastRequest, stopping, WorkerOwn>>

(* Nothing to render: a recount of what was rendered last, if it was of this source. *)
TakeRecount ==
    /\ at = "wait"
    /\ stopping = "no"
    /\ pending = None
    /\ recount \/ sourceChanged
    /\ IF recount /\ ~sourceChanged /\ lastShown # None /\ lastShown.source = source
       THEN job' = lastShown /\ at' = "pause"
       ELSE UNCHANGED <<job, at>>
    /\ recount' = FALSE
    /\ sourceChanged' = FALSE
    /\ IF sourceChanged
       THEN /\ lastShown' = None
            /\ background' = None
            /\ backgroundFor' = NoBackground
            /\ counted' = None
       ELSE UNCHANGED kept
    /\ UNCHANGED <<source, pending, cancelsShown, channel, wanted, lastRequest, stopping,
                   WorkerOwn>>

StartRender ==
    /\ at = "start"
    /\ StartChannel(TRUE)
    /\ Go("render")
    /\ UNCHANGED <<source, sourceChanged, pending, cancelsShown, wanted, recount, lastRequest,
                   stopping, kept, WorkerOwn>>

(* A coarser picture of the request was made and nothing has cancelled it. *)
MakeStandIn ==
    /\ at = "render"
    /\ ~channel.cancelled
    /\ Go("standIn")
    /\ UNCHANGED <<shared, kept, WorkerOwn>>

DeliverStandIn ==
    /\ at = "standIn"
    /\ Post([kind |-> "picture", id |-> job.id, image |-> Picture, whole |-> job.whole,
             background |-> background, provisional |-> TRUE])
    /\ Go("level0")
    /\ UNCHANGED <<shared, kept, answered, uncounted>>

(* The render ends: with nothing when it was cancelled, with a failure, or with a picture, even
   if the cancel came after its last look at the channel. *)
Render(outcome) ==
    /\ at \in {"render", "level0"}
    /\ outcome = "none" => channel.cancelled
    /\ channel' = None
    /\ Go(IF outcome = "picture" THEN "pause" ELSE "wait")
    /\ IF outcome = "none"
       THEN UNCHANGED <<answered, posted>>
       ELSE answered' = job.id
    /\ IF outcome = "picture"
       THEN /\ lastShown' = job
            /\ background' = IF job.whole THEN Picture ELSE background
            /\ backgroundFor' = IF job.whole THEN [source |-> job.source, look |-> job.look]
                                             ELSE backgroundFor
            /\ Post([kind |-> "picture", id |-> job.id, image |-> Picture, whole |-> job.whole,
                     background |-> background', provisional |-> FALSE])
       ELSE /\ UNCHANGED <<lastShown, background, backgroundFor>>
            /\ outcome = "failure" => Post([kind |-> "failure", id |-> job.id])
    /\ UNCHANGED <<source, sourceChanged, pending, cancelsShown, wanted, recount, lastRequest,
                   stopping, counted, uncounted>>

Interrupted ==
    /\ at = "pause"
    /\ pending # None \/ source # job.source
    /\ stopping = "no"
    /\ Go("wait")
    /\ UNCHANGED <<shared, kept, WorkerOwn>>

(* No request came for as long as backgroundDelay. *)
Pause ==
    /\ at = "pause"
    /\ pending = None
    /\ source = job.source
    /\ stopping = "no"
    /\ Go(IF backgroundFor.look = job.look THEN "check" ELSE "fallback")
    /\ UNCHANGED <<shared, kept, WorkerOwn>>

StartFallback ==
    /\ at = "fallback"
    /\ StartChannel(FALSE)
    /\ Go("renderFallback")
    /\ UNCHANGED <<source, sourceChanged, pending, cancelsShown, wanted, recount, lastRequest,
                   stopping, kept, WorkerOwn>>

(* The whole frame, for what a pan uncovers; a failure is not tried again for the same look. *)
RenderFallback(outcome) ==
    /\ at = "renderFallback"
    /\ outcome = "none" => channel.cancelled
    /\ channel' = None
    /\ Go(IF outcome = "none" THEN "wait" ELSE "check")
    /\ IF outcome = "none"
       THEN UNCHANGED <<background, backgroundFor, posted>>
       ELSE /\ backgroundFor' = [source |-> backgroundFor.source, look |-> job.look]
            /\ background' = IF outcome = "picture" THEN Picture ELSE None
            /\ IF outcome = "picture"
               THEN Post([kind |-> "fallback", id |-> job.id, background |-> Picture])
               ELSE UNCHANGED posted
    /\ UNCHANGED <<source, sourceChanged, pending, cancelsShown, wanted, recount, lastRequest,
                   stopping, lastShown, counted, answered, uncounted>>

Check ==
    /\ at = "check"
    /\ stopping = "no"
    /\ IF pending # None \/ source # job.source
       THEN Go("wait") /\ UNCHANGED recount
       ELSE /\ recount' = FALSE
            /\ Go(IF wanted THEN "startCount" ELSE "wait")
    /\ UNCHANGED <<source, sourceChanged, pending, cancelsShown, channel, wanted, lastRequest,
                   stopping, kept, WorkerOwn>>

StartCount ==
    /\ at = "startCount"
    /\ StartChannel(FALSE)
    /\ Go("count")
    /\ UNCHANGED <<source, sourceChanged, pending, cancelsShown, wanted, recount, lastRequest,
                   stopping, kept, WorkerOwn>>

(* countCurveHistogram(): nothing when the last count is current, was cancelled or failed. *)
Count(outcome) ==
    /\ at = "count"
    /\ (outcome = "current") = (counted = Picture)
    /\ outcome = "none" => channel.cancelled
    /\ channel' = None
    /\ Go("wait")
    /\ IF outcome = "counted"
       THEN counted' = Picture /\ Post([kind |-> "curve", id |-> job.id, curve |-> Picture])
       ELSE UNCHANGED <<counted, posted>>
    /\ uncounted' = IF outcome = "failed" THEN job.id ELSE uncounted
    /\ UNCHANGED <<source, sourceChanged, pending, cancelsShown, wanted, recount, lastRequest,
                   stopping, lastShown, background, backgroundFor, answered>>

Worker ==
    \/ Exit
    \/ TakeRequest
    \/ TakeRecount
    \/ StartRender
    \/ MakeStandIn
    \/ DeliverStandIn
    \/ \E outcome \in {"none", "failure", "picture"} : Render(outcome)
    \/ Interrupted
    \/ Pause
    \/ StartFallback
    \/ \E outcome \in {"none", "failure", "picture"} : RenderFallback(outcome)
    \/ Check
    \/ StartCount
    \/ \E outcome \in {"none", "current", "failed", "counted"} : Count(outcome)

(* Pixels that the worker does not hold: every decode gives its own. *)
Fresh ==
    {pixels \in Pixels :
        /\ pixels \notin {source, backgroundFor.source}
        /\ \A held \in {job, lastShown} \ {None} : held.source # pixels}

(* The window calls, having handled what was posted.  It asks for renders of pixels only. *)
Calls ==
    /\ stopping = "no"
    /\ posted' = <<>>
    /\ \/ \E pixels \in Fresh \cup {None} : SetSource(pixels)
       \/ /\ source # None
          /\ \E look \in Looks, whole, queue \in BOOLEAN : Request(look, whole, queue)
       \/ \E now \in BOOLEAN : SetCurveHistogramWanted(now)

Next ==
    \/ Calls
    \/ RequestStop
    \/ CancelForStop
    \/ Worker

(* The worker goes on while it has work. *)
Spec == Init /\ posted = <<>> /\ [][Next]_vars /\ WF_vars(Worker)

-----------------------------------------------------------------------------
TypeOK ==
    /\ source \in Pixels \cup {None}
    /\ {sourceChanged, cancelsShown, wanted, recount} \subseteq BOOLEAN
    /\ pending \in [id : 1 .. lastRequest, look : Looks, whole : BOOLEAN] \cup {None}
    /\ channel \in [shown : BOOLEAN, cancelled : BOOLEAN] \cup {None}
    /\ lastRequest \in 0 .. RequestBound
    /\ stopping \in {"no", "requested", "cancelled"}
    /\ at \in {"wait", "start", "render", "standIn", "level0", "pause", "fallback",
              "renderFallback", "check", "startCount", "count", "ended"}
    /\ {job, lastShown} \subseteq
           [id : 1 .. lastRequest, look : Looks, whole : BOOLEAN, source : Pixels] \cup {None}
    /\ {background, counted} \subseteq [source : Pixels, look : Looks] \cup {None}
    /\ backgroundFor \in [source : Pixels \cup {None}, look : Looks \cup {None}]
    /\ {answered, uncounted} \subseteq 0 .. lastRequest

(* The newest request is the one being rendered, of the pixels there are. *)
StillOwed ==
    /\ at \in {"start", "render", "standIn", "level0"}
    /\ job.id = lastRequest
    /\ job.source = source

Newest == INSTANCE NewestRequest WITH
    newest <- lastRequest,
    cause <- <<source, stopping>>,
    owed <- IF stopping # "no" THEN 0
            ELSE IF pending # None THEN pending.id
            ELSE IF StillOwed THEN job.id
            ELSE 0

(* The newest request is never cancelled but by other pixels or the end of the renderer, so it
   always ends with a result before those: the renderer implements NewestRequest. *)
RendererServesNewest == Newest!Spec

(* Nothing is left to do for the worker. *)
Resting ==
    /\ stopping = "no"
    /\ at = "wait"
    /\ pending = None
    /\ ~recount
    /\ ~sourceChanged

(* Once requests have paused after a render, the picture beneath a region is of the look rendered
   last (or could not be rendered), and so is the histogram of the curve input, when it is
   wanted: what a newer request, another source or a change of mind of the window interrupted is
   taken up again. *)
PauseIsUsed ==
    Resting /\ lastShown # None /\ lastShown.id = lastRequest =>
        /\ backgroundFor = [source |-> source, look |-> lastShown.look]
        /\ wanted /\ uncounted # lastShown.id =>
               counted = [source |-> source, look |-> lastShown.look]

(* Once the destructor has cancelled what was in flight, nothing is rendered to its end: a job
   taken before the stop finds itself cancelled when it starts, so closing never waits for it. *)
ClosingCancels == stopping = "cancelled" /\ channel # None => channel.cancelled
=============================================================================
