--------------------------- MODULE HistogramPanel ---------------------------
(***************************************************************************)
(* The histogram of the picture on screen: the window submits each picture *)
(* it shows while the panel is in sight, the counter's thread counts it,   *)
(* and the window shows the counts that come back.  A hidden panel and a   *)
(* new photograph empty it and drop what is being counted.                 *)
(***************************************************************************)
EXTENDS Naturals, Sequences

CONSTANTS
    None,
    PictureBound,  \* caps: pictures shown,
    ClearBound,    \* generations of the counter,
    SubmitBound    \* and pictures submitted

VARIABLES
    next, lastSerial, generation, abandon, counting, codes, destroying, finished, posted,
    pictures,      \* how many pictures have been shown
    picture,       \* the whole frame on screen, None while a photograph opens
    inSight,       \* histogramWanted()
    lastMeasured,  \* lastMeasured_
    shownSerial,   \* histogramShownSerial_
    shown          \* what the panel shows

counter == <<next, lastSerial, generation, abandon, counting, codes, destroying, finished>>
panel == <<pictures, picture, inSight, lastMeasured, shownSerial, shown>>
vars == <<counter, posted, panel>>

Counter == INSTANCE HistogramCounter

Init ==
    /\ Counter!Init
    /\ posted = <<>>
    /\ pictures = 0
    /\ picture = None
    /\ inSight = FALSE
    /\ lastMeasured = None
    /\ shownSerial = 0
    /\ shown = None

(* submitMeasured(), with what is on screen and whether the panel is in sight. *)
SubmitMeasured(pixels, seen) ==
    IF seen /\ pixels # None /\ pixels # lastMeasured
    THEN lastMeasured' = pixels /\ Counter!Submit(pixels)
    ELSE UNCHANGED <<lastMeasured, counter>>

(* Mutant of Empty: the panel still knows what it measured last. *)
EmptyButLastMeasured ==
    /\ generation < ClearBound
    /\ Counter!Clear
    /\ shown' = None
    /\ UNCHANGED lastMeasured

(* resetHistogram(), and histogramGateChanged() for a panel out of sight. *)
Empty ==
    /\ generation < ClearBound
    /\ Counter!Clear
    /\ lastMeasured' = None
    /\ shown' = None

(* showResult(): a new picture, or a new fallback beneath a region, is on screen. *)
ShowPicture ==
    /\ destroying = "no"
    /\ pictures < PictureBound
    /\ pictures' = pictures + 1
    /\ picture' = pictures + 1
    /\ SubmitMeasured(pictures + 1, inSight)
    /\ UNCHANGED <<posted, inSight, shownSerial, shown>>

(* showPhoto() and closePhoto(). *)
LeavePhoto ==
    /\ destroying = "no"
    /\ picture' = None
    /\ Empty
    /\ UNCHANGED <<posted, pictures, inSight, shownSerial>>

(* histogramGateChanged(): the section is folded, or the dock is hidden. *)
Hide ==
    /\ destroying = "no"
    /\ inSight
    /\ inSight' = FALSE
    /\ Empty
    /\ UNCHANGED <<posted, pictures, picture, shownSerial>>

(* histogramGateChanged(): the panel comes into sight. *)
Reveal ==
    /\ destroying = "no"
    /\ ~inSight
    /\ inSight' = TRUE
    /\ SubmitMeasured(picture, TRUE)
    /\ UNCHANGED <<posted, pictures, picture, shownSerial, shown>>

(* showHistogram(). *)
ShowHistogram ==
    /\ destroying = "no"
    /\ posted # <<>>
    /\ posted' = Tail(posted)
    /\ LET count == Head(posted).count
       IN  IF count.generation # generation \/ count.serial < shownSerial
           THEN UNCHANGED <<shownSerial, shown>>
           ELSE /\ shownSerial' = count.serial
                /\ shown' = [picture |-> count.picture, codes |-> Head(posted).codes]
    /\ UNCHANGED <<counter, pictures, picture, inSight, lastMeasured>>

Destroy == (Counter!AbandonAll \/ Counter!RequestStop) /\ UNCHANGED panel

CounterStep == Counter!Thread /\ UNCHANGED panel

Next ==
    \/ ShowPicture
    \/ LeavePhoto
    \/ Hide
    \/ Reveal
    \/ ShowHistogram
    \/ Destroy
    \/ CounterStep

(* The thread goes on while a picture waits, and the event loop handles what is posted. *)
Fairness == WF_vars(CounterStep) /\ WF_vars(ShowHistogram)

Spec == Init /\ [][Next]_vars /\ Fairness

-----------------------------------------------------------------------------
Jobs == [serial : 1 .. lastSerial, generation : 0 .. ClearBound, picture : 1 .. PictureBound]

TypeOK ==
    /\ {next, counting} \subseteq Jobs \cup {None}
    /\ lastSerial \in 0 .. SubmitBound
    /\ generation \in 0 .. ClearBound
    /\ abandon \in BOOLEAN
    /\ codes \in {"none", "all", "part", "failed"}
    /\ destroying \in {"no", "abandoned", "stopped"}
    /\ {finished, shownSerial} \subseteq 0 .. lastSerial
    /\ pictures \in 0 .. PictureBound
    /\ {picture, lastMeasured} \subseteq 1 .. PictureBound \cup {None}
    /\ inSight \in BOOLEAN
    /\ shown \in [picture : 1 .. PictureBound, codes : {"all"}] \cup {None}

Counted == next = None /\ counting = None /\ posted = <<>> /\ destroying = "no"

(* The panel shows whole counts only, of a picture of the open photograph, and nothing while it is
   out of sight or the photograph opens: not what was being counted, or was on its way, before.
   When the counter has come to rest it shows the picture on screen, unless its count failed (the
   newest count, finished, that nothing was shown of). *)
HistogramIsOfShown ==
    /\ shown # None => shown.codes = "all" /\ inSight /\ picture # None /\ shown.picture <= picture
    /\ Counted /\ inSight /\ picture # None =>
           /\ lastMeasured = picture
           /\ finished = lastSerial
           /\ shownSerial = lastSerial => shown # None /\ shown.picture = picture

CounterServesNewest == Counter!CounterServesNewest
=============================================================================
