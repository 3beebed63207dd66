---------------------------- MODULE PhotoWindow ----------------------------
(***************************************************************************)
(* The way of a photograph onto the screen: the window opens it, the       *)
(* loader decodes it, the renderer develops it, and the window shows what  *)
(* comes back.  The user changes its look, its view and the way it is      *)
(* decoded, or opens another, while decodes and renders of before are      *)
(* still at work or on their way in the window's event queue.              *)
(*                                                                         *)
(* The window runs one handler at a time.  The box that tells of a failed  *)
(* render runs the event loop: results land while it is open, but the user *)
(* does nothing else.  The crop mode, previews of a look and the wait for  *)
(* the lens database are left out.                                         *)
(***************************************************************************)
EXTENDS Naturals, Sequences

CONSTANTS
    Looks,
    Options,
    None,
    SavedOptions,  \* how every photograph is saved
    SavedLook,
    DocumentBound, \* caps: photographs opened,
    DecodeBound,   \* decodes asked,
    RequestBound   \* renders asked, those that a landing decode asks for included

Documents == 1 .. DocumentBound

ASSUME WindowAssumption ==
    /\ SavedOptions \in Options
    /\ SavedLook \in Looks
    /\ {DocumentBound, DecodeBound, RequestBound} \subseteq Nat

VARIABLES
    posted,
    \* the loader's
    lastDecode, waiting, inFlight, delivered, dropped,
    \* the renderer's
    source, sourceChanged, pending, cancelsShown, channel, wanted, recount, lastRequest, stopping,
    at, job, lastShown, background, backgroundFor, counted, answered, uncounted,
    \* the window's
    opened,         \* sessionSerial_
    open,           \* serial of the open photograph, or 0
    options,        \* how its negative is to be decoded
    look,           \* its develop state
    decoded,        \* open_->decoded, named by its decode
    decodeRequest,  \* decodeRequest_
    redecode,       \* redecodeRequest_ and redecodeOptions_
    failedOptions,  \* failedOptions_
    firstRequest,   \* firstRequest_
    latestShown,    \* latestShown_
    provisional,    \* latestShownProvisional_
    zoomed,         \* the view shows less than the frame
    image,          \* the picture in the photo view
    beneath,        \* what the view has beneath it
    busy,           \* RenderIndicator
    reporting,      \* reportingFailure_
    landing         \* decodeLanded() has yet to ask for the render

Loader == INSTANCE PhotoLoader

Renderer == INSTANCE PreviewRenderer WITH Pixels <- Loader!Decodes

(* What stands where None may. *)
Images == [source : Loader!Decodes, look : Looks]
Requests == [id : Nat, look : Looks, whole : BOOLEAN]
Jobs == [id : Nat, look : Looks, whole : BOOLEAN, source : Loader!Decodes]
Channels == [shown : BOOLEAN, cancelled : BOOLEAN]
Flights == [job : Loader!Decodes, cancelled : BOOLEAN]
Redecodes == [id : Nat, options : Options]
Shown == [id : Nat, whole : BOOLEAN, source : Loader!Decodes, look : Looks]

ASSUME NoneAssumption ==
    None \notin Loader!Decodes \cup Looks \cup Options \cup Images \cup Requests \cup Jobs
                 \cup Channels \cup Flights \cup Redecodes \cup Shown

loader == <<lastDecode, waiting, inFlight, delivered, dropped>>
renderer == <<source, sourceChanged, pending, cancelsShown, channel, wanted, recount,
              lastRequest, stopping, at, job, lastShown, background, backgroundFor, counted,
              answered, uncounted>>
document == <<opened, open, options, look, decoded>>
decoding == <<decodeRequest, redecode, failedOptions>>
view == <<latestShown, provisional, image, beneath>>

window == <<document, decoding, firstRequest, zoomed, view, busy, reporting,
            landing>>
vars == <<posted, loader, renderer, window>>

Init ==
    /\ posted = <<>>
    /\ Loader!Init
    /\ Renderer!Init
    /\ opened = 0
    /\ open = 0
    /\ options = None
    /\ look = None
    /\ decoded = None
    /\ decodeRequest = 0
    /\ redecode = None
    /\ failedOptions = None
    /\ firstRequest = 0
    /\ latestShown = 0
    /\ provisional = FALSE
    /\ zoomed = FALSE
    /\ image = None
    /\ beneath = None
    /\ busy = FALSE
    /\ reporting = FALSE
    /\ landing = FALSE

-----------------------------------------------------------------------------
(* What handlers are made of. *)

(* requestRender(), with pixels; a stroke queues its requests.  When pixels land nothing is left to
   be cancelled, so that it makes no difference. *)
RequestRender(queue) == Renderer!Request(look', ~zoomed', queue)

(* syncDecode(), with the pixels shown and the decode awaited at that moment. *)
SyncDecode(pixels, awaited) ==
    LET settled == options' = pixels.options
        known == options' = failedOptions \/ (awaited # None /\ awaited.options = options')
    IN  \/ /\ settled
           /\ failedOptions' = None
           /\ redecode' = None
           /\ IF awaited # None THEN Loader!CancelDecode ELSE UNCHANGED loader
        \/ /\ ~settled
           /\ known
           /\ redecode' = awaited
           /\ UNCHANGED <<failedOptions, loader>>
        \/ /\ ~settled
           /\ ~known
           /\ failedOptions' = None
           /\ Loader!Decode(open, options')
           /\ redecode' = [id |-> lastDecode', options |-> options']

-----------------------------------------------------------------------------
(* What the user does. *)

User == ~landing /\ ~reporting

(* The decode the window awaits will find a request left. *)
RequestLeft ==
    lastRequest' + (IF decodeRequest' # 0 \/ redecode' # None THEN 1 ELSE 0) <= RequestBound

(* showPhoto(). *)
ShowPhoto ==
    /\ User
    /\ opened < DocumentBound
    /\ opened' = opened + 1
    /\ open' = opened + 1
    /\ options' = SavedOptions
    /\ look' = SavedLook
    /\ zoomed' = FALSE
    /\ decoded' = None
    /\ redecode' = None
    /\ failedOptions' = None
    /\ Renderer!SetSource(None)
    /\ firstRequest' = lastRequest + 1
    /\ image' = None
    /\ beneath' = None
    /\ Loader!Decode(open', options')
    /\ decodeRequest' = lastDecode'
    /\ busy' = TRUE
    /\ UNCHANGED <<posted, latestShown, provisional, reporting, landing>>
    /\ RequestLeft

Editable == User /\ open # 0 /\ decoded # None

(* chooseNegative() and the other ways of an edit to refreshPanel(). *)
Edit ==
    /\ Editable
    /\ \/ options' \in Options \ {options} /\ UNCHANGED look
       \/ look' \in Looks \ {look} /\ UNCHANGED options
    /\ UNCHANGED zoomed
    /\ SyncDecode(decoded, redecode)
    /\ \E stroking \in BOOLEAN : RequestRender(stroking)
    /\ busy' = TRUE
    /\ UNCHANGED <<posted, opened, open, decoded, decodeRequest, firstRequest, view,
                   reporting, landing>>
    /\ RequestLeft

(* A pan, a zoom or a new size of the view, when its timer fires. *)
ChangeView ==
    /\ Editable
    /\ zoomed' \in BOOLEAN
    /\ UNCHANGED look
    /\ RequestRender(FALSE)
    /\ busy' = TRUE
    /\ UNCHANGED <<posted, loader, opened, open, options, decoded, decoding, firstRequest,
                   view, reporting, landing>>
    /\ RequestLeft

(* sidecarChangedOnDisk(), of how the photograph is to be decoded, before there are pixels: with
   them it does what an edit does. *)
Reload ==
    /\ ~landing
    /\ open # 0 /\ decoded = None
    /\ lastDecode < DecodeBound  \* the landing decode may ask for another
    /\ options' \in Options \ {options}
    /\ UNCHANGED <<posted, loader, renderer, opened, open, look, decoded, decoding, firstRequest, zoomed,
                   view, busy, reporting, landing>>

(* The user dismisses the box of a failed render. *)
CloseBox ==
    /\ reporting
    /\ ~landing
    /\ reporting' = FALSE
    /\ UNCHANGED <<posted, loader, renderer, document, decoding, firstRequest, zoomed, view,
                   busy, landing>>

-----------------------------------------------------------------------------
(* What lands in the event loop. *)

Event == Head(posted)

Receive(kinds) ==
    /\ ~landing
    /\ posted # <<>>
    /\ Event.kind \in kinds
    /\ posted' = Tail(posted)

FirstDecode == Event.job.id = decodeRequest

Redecode == redecode # None /\ Event.job.id = redecode.id

(* decodeLanded(): of a photograph left since, or of a choice taken back. *)
DropDecode ==
    /\ Receive({"decoded"})
    /\ ~FirstDecode
    /\ ~Redecode
    /\ UNCHANGED <<loader, renderer, window>>

(* decodeLanded(): the pixels of the photograph, or of another choice of its negative. *)
LandPixels ==
    /\ Receive({"decoded"})
    /\ Event.decoded
    /\ FirstDecode \/ Redecode
    /\ decoded' = Event.job
    /\ decodeRequest' = IF FirstDecode THEN 0 ELSE decodeRequest
    /\ UNCHANGED <<opened, open, options, look>>
    /\ Renderer!SetSource(Event.job)
    /\ SyncDecode(Event.job, None)
    /\ landing' = TRUE
    /\ UNCHANGED <<firstRequest, zoomed, view, busy, reporting>>

(* ... which go on to the render of them. *)
RenderLanded ==
    /\ landing
    /\ landing' = FALSE
    /\ UNCHANGED <<document, zoomed>>
    /\ RequestRender(FALSE)
    /\ busy' = TRUE
    /\ UNCHANGED <<posted, loader, decoding, firstRequest, view, reporting>>

(* decodeLanded(): the old pixels stay, and so does the choice. *)
RedecodeFails ==
    /\ Receive({"decoded"})
    /\ ~Event.decoded
    /\ Redecode
    /\ failedOptions' = redecode.options
    /\ redecode' = None
    /\ busy' = FALSE
    /\ UNCHANGED <<loader, renderer, document, decodeRequest, firstRequest, zoomed, view,
                   reporting, landing>>

(* decodeLanded(), with closePhoto(): the photograph cannot be opened. *)
OpeningFails ==
    /\ Receive({"decoded"})
    /\ ~Event.decoded
    /\ FirstDecode
    /\ open' = 0
    /\ decodeRequest' = 0
    /\ redecode' = None
    /\ failedOptions' = None
    /\ Loader!CancelDecode
    /\ Renderer!SetSource(None)
    /\ firstRequest' = lastRequest + 1
    /\ image' = None
    /\ beneath' = None
    /\ busy' = FALSE
    /\ decoded' = None
    /\ zoomed' = FALSE
    /\ UNCHANGED <<opened, options, look, latestShown, provisional, reporting, landing>>

(* showResult(): the newest render ends the busy period, unless a decode is awaited. *)
EndBusy ==
    busy' = (busy /\ ~(/\ decodeRequest = 0
                       /\ redecode = None
                       /\ Event.id >= lastRequest
                       /\ Event.kind = "failure" \/ (Event.kind = "picture" /\ ~Event.provisional)))

(* Mutant of Left: the last render of the photograph left counts as of the next. *)
LeftButForTheLast == Event.id < firstRequest - 1

(* Of a photograph left since. *)
Left == Event.id < firstRequest

(* Mutant of Behind: the render of a request is dropped after its stand-in. *)
BehindAfterStandIn == Event.id <= latestShown

(* Not newer than what is shown; the render of a request follows its stand-in. *)
Behind ==
    \/ Event.id < latestShown
    \/ Event.id = latestShown /\ ~(provisional /\ (Event.kind = "picture" => ~Event.provisional))

Stay == UNCHANGED <<loader, renderer, document, decoding, firstRequest, zoomed, landing>>

DropResult ==
    /\ Receive({"picture", "failure", "fallback"})
    /\ \/ Left
       \/ Event.kind \in {"picture", "failure"} /\ Behind
       \/ Event.kind = "failure" /\ Event.id # lastRequest
    /\ EndBusy
    /\ Stay
    /\ UNCHANGED <<view, reporting>>

ShowPicture ==
    /\ Receive({"picture"})
    /\ ~Left
    /\ ~Behind
    /\ latestShown' = Event.id
    /\ provisional' = Event.provisional
    /\ image' = [id |-> Event.id, whole |-> Event.whole,
                  source |-> Event.image.source, look |-> Event.image.look]
    /\ beneath' = Event.background
    /\ EndBusy
    /\ Stay
    /\ UNCHANGED reporting

(* The newest render failed: the box says so, unless one is open. *)
ReportFailure ==
    /\ Receive({"failure"})
    /\ ~Left
    /\ ~Behind
    /\ Event.id = lastRequest
    /\ latestShown' = Event.id
    /\ provisional' = FALSE
    /\ reporting' = TRUE
    /\ EndBusy
    /\ Stay
    /\ UNCHANGED <<image, beneath>>

ShowFallback ==
    /\ Receive({"fallback"})
    /\ ~Left
    /\ beneath' = Event.background
    /\ Stay
    /\ UNCHANGED <<latestShown, provisional, image, busy, reporting>>

-----------------------------------------------------------------------------
LoaderStep == Loader!Thread /\ UNCHANGED <<renderer, window>>

RendererStep == Renderer!Worker /\ UNCHANGED <<loader, window>>

EventLoop ==
    \/ DropDecode
    \/ LandPixels
    \/ RenderLanded
    \/ RedecodeFails
    \/ OpeningFails
    \/ DropResult
    \/ ShowPicture
    \/ ReportFailure
    \/ ShowFallback

Next ==
    \/ ShowPhoto
    \/ Edit
    \/ ChangeView
    \/ Reload
    \/ CloseBox
    \/ EventLoop
    \/ LoaderStep
    \/ RendererStep

(* The threads go on while they have work, and the event loop handles what is posted. *)
Fairness ==
    /\ WF_vars(LoaderStep)
    /\ WF_vars(RendererStep)
    /\ WF_vars(EventLoop)

Spec == Init /\ [][Next]_vars /\ Fairness

-----------------------------------------------------------------------------
TypeOK ==
    /\ Loader!TypeOK
    /\ Renderer!TypeOK
    /\ opened \in 0 .. DocumentBound
    /\ open \in 0 .. opened
    /\ decoded \in Loader!Decodes \cup {None}
    /\ decodeRequest \in 0 .. lastDecode
    /\ redecode \in [id : 1 .. lastDecode, options : Options] \cup {None}
    /\ failedOptions \in Options \cup {None}
    /\ firstRequest \in 0 .. lastRequest + 1
    /\ latestShown \in 0 .. lastRequest
    /\ image \in [id : 1 .. lastRequest, whole : BOOLEAN, source : Loader!Decodes, look : Looks]
                 \cup {None}
    /\ beneath \in Images \cup {None}
    /\ {zoomed, provisional, busy, reporting, landing} \subseteq BOOLEAN

(* Whatever is on screen is of the photograph that is open: a decode, a render, a fallback or a
   count that was at work or on its way when the user opened another never shows.  And what lies
   beneath a picture is of the same pixels, whatever decodes landed between the two. *)
ShownIsOfOpenPhoto ==
    /\ \A shown \in {image, beneath} \ {None} : shown.source.document = open
    /\ image # None /\ beneath # None => beneath.source = image.source

(* The threads have nothing to do and no event is on its way. *)
Settled ==
    /\ posted = <<>>
    /\ ~landing
    /\ waiting = None
    /\ inFlight = None
    /\ Renderer!Resting

(* While the window waits for pixels it says so: no render of before ends the busy period.  When
   everything has come to rest it waits for nothing, and shows the newest look of the pixels
   decoded as the photograph now asks (or as it was when that decode failed); a picture of less
   than the frame has the whole frame of that look beneath it. *)
SettledShowsNewest ==
    /\ decodeRequest # 0 \/ redecode # None => busy
    /\ Settled =>
        /\ ~busy /\ decodeRequest = 0 /\ redecode = None
        /\ open # 0 =>
            /\ decoded # None
            /\ options \in {decoded.options, failedOptions}
            /\ latestShown = lastRequest /\ lastRequest >= firstRequest /\ ~provisional
            /\ image # None /\ image.id = lastRequest =>
                   /\ image.source = decoded
                   /\ image.look = look
                   /\ ~image.whole /\ background # None => beneath = background
=============================================================================
