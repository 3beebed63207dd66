---------------------------- MODULE PhotoLoader ----------------------------
(***************************************************************************)
(* The decode lane of the photo loader: one thread that serves the newest  *)
(* decode.  A decode posted while another runs replaces the one that waits *)
(* and cancels the channel of the one that runs; a decode past its last    *)
(* look at its channel is delivered all the same.  The lane of the camera  *)
(* previews is the same class, used by the crop mode only.                 *)
(***************************************************************************)
EXTENDS Naturals, Sequences

CONSTANTS
    Documents,   \* the photographs, as often as they are opened
    Options,     \* decode options in canonical form
    None,
    DecodeBound  \* cap: decodes asked

VARIABLES
    lastDecode,  \* lastId_
    waiting,     \* pending_: the newest decode not yet started
    inFlight,    \* the decode under way, with whether its channel is cancelled
    delivered,   \* the newest decode whose outcome was delivered
    dropped,     \* the newest decode at the last cancelDecode()
    posted       \* events on their way to the window, in order

lane == <<lastDecode, waiting, inFlight, delivered, dropped>>
vars == <<lane, posted>>

Decodes == [id : 1 .. DecodeBound, document : Documents, options : Options]

Init ==
    /\ lastDecode = 0
    /\ waiting = None
    /\ inFlight = None
    /\ delivered = 0
    /\ dropped = 0

CancelInFlight ==
    inFlight' = IF inFlight = None THEN None ELSE [inFlight EXCEPT !.cancelled = TRUE]

(* decode(), with the post() of its job; the caller's number is lastDecode'. *)
Decode(document, options) ==
    /\ lastDecode < DecodeBound
    /\ lastDecode' = lastDecode + 1
    /\ waiting' = [id |-> lastDecode + 1, document |-> document, options |-> options]
    /\ CancelInFlight
    /\ UNCHANGED <<delivered, dropped>>

CancelDecode ==
    /\ waiting' = None
    /\ CancelInFlight
    /\ dropped' = lastDecode
    /\ UNCHANGED <<lastDecode, delivered>>

Take ==
    /\ inFlight = None
    /\ waiting # None
    /\ inFlight' = [job |-> waiting, cancelled |-> FALSE]
    /\ waiting' = None
    /\ UNCHANGED <<lastDecode, delivered, dropped, posted>>

(* Pixels, or a failure that is not the cancel's: the window hears of it. *)
Land(decoded) ==
    /\ inFlight # None
    /\ decoded \/ ~inFlight.cancelled
    /\ posted' = Append(posted, [kind |-> "decoded", job |-> inFlight.job, decoded |-> decoded])
    /\ delivered' = inFlight.job.id
    /\ inFlight' = None
    /\ UNCHANGED <<lastDecode, waiting, dropped>>

(* Cancelled, or failed after a cancel: nobody wants it. *)
Abandon ==
    /\ inFlight # None
    /\ inFlight.cancelled
    /\ inFlight' = None
    /\ UNCHANGED <<lastDecode, waiting, delivered, dropped, posted>>

Thread == Take \/ (\E decoded \in BOOLEAN : Land(decoded)) \/ Abandon

Next ==
    \/ /\ \/ \E document \in Documents, options \in Options : Decode(document, options)
          \/ CancelDecode
       /\ posted' = <<>>
    \/ Thread

(* The lane goes on while it has work, and a decode ends. *)
Spec == Init /\ posted = <<>> /\ [][Next]_vars /\ WF_vars(Thread)

-----------------------------------------------------------------------------
TypeOK ==
    /\ lastDecode \in 0 .. DecodeBound
    /\ waiting \in Decodes \cup {None}
    /\ inFlight \in [job : Decodes, cancelled : BOOLEAN] \cup {None}
    /\ {delivered, dropped} \subseteq 0 .. lastDecode

Newest == INSTANCE NewestRequest WITH
    newest <- lastDecode,
    answered <- delivered,
    cause <- dropped,
    owed <- IF waiting # None THEN waiting.id
            ELSE IF inFlight # None /\ inFlight.job.id = lastDecode /\ dropped < lastDecode
                 THEN lastDecode
            ELSE 0

(* The newest decode always ends with a result unless cancelDecode() drops it, and results come
   in the order of the decodes: PhotoLoader implements NewestRequest. *)
NewestDecodeLands == Newest!Spec
=============================================================================
