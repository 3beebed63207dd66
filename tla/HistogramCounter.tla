-------------------------- MODULE HistogramCounter --------------------------
(***************************************************************************)
(* The counter thread: it counts the histogram of the picture submitted    *)
(* last.  A newer picture replaces the one that waits and leaves the count *)
(* under way alone; clear() starts a new generation and abandons it.       *)
(***************************************************************************)
EXTENDS Naturals, Sequences

CONSTANTS
    None,
    SubmitBound  \* cap: pictures submitted

VARIABLES
    next,        \* pending_: the newest picture not yet taken
    lastSerial,  \* lastSerial_
    generation,  \* generation_
    abandon,     \* abandon_
    counting,    \* the picture taken
    codes,       \* what counting it gave: "none" so far, "all", "part" or "failed"
    destroying,  \* how far the destructor is
    finished,    \* the newest picture whose count came to an end
    posted       \* events on their way to the window, in order

counter == <<next, lastSerial, generation, abandon, counting, codes, destroying, finished>>
vars == <<counter, posted>>

Init ==
    /\ next = None
    /\ lastSerial = 0
    /\ generation = 0
    /\ abandon = FALSE
    /\ counting = None
    /\ codes = "none"
    /\ destroying = "no"
    /\ finished = 0

-----------------------------------------------------------------------------
(* The calls. *)

Submit(picture) ==
    /\ lastSerial < SubmitBound
    /\ lastSerial' = lastSerial + 1
    /\ next' = [serial |-> lastSerial + 1, generation |-> generation, picture |-> picture]
    /\ UNCHANGED <<generation, abandon, counting, codes, destroying, finished>>

(* Mutant of Clear: what is being counted keeps its generation. *)
ClearKeepingGeneration ==
    /\ next' = None
    /\ abandon' = TRUE
    /\ UNCHANGED <<lastSerial, generation, counting, codes, destroying, finished>>

Clear ==
    /\ next' = None
    /\ abandon' = TRUE
    /\ generation' = generation + 1
    /\ UNCHANGED <<lastSerial, counting, codes, destroying, finished>>

(* The destructor abandons what is under way, then asks the thread to stop. *)
AbandonAll ==
    /\ destroying = "no"
    /\ destroying' = "abandoned"
    /\ next' = None
    /\ abandon' = TRUE
    /\ UNCHANGED <<lastSerial, generation, counting, codes, finished, posted>>

RequestStop ==
    /\ destroying = "abandoned"
    /\ destroying' = "stopped"
    /\ UNCHANGED <<next, lastSerial, generation, abandon, counting, codes, finished, posted>>

-----------------------------------------------------------------------------
(* The thread. *)

Take ==
    /\ counting = None
    /\ next # None
    /\ destroying # "stopped"
    /\ counting' = next
    /\ next' = None
    /\ abandon' = FALSE
    /\ UNCHANGED <<lastSerial, generation, codes, destroying, finished, posted>>

(* The counting function: part of the codes only when told to abandon, and it may throw. *)
Count(result) ==
    /\ counting # None
    /\ codes = "none"
    /\ result = "part" => abandon
    /\ codes' = result
    /\ UNCHANGED <<next, lastSerial, generation, abandon, counting, destroying, finished, posted>>

(* The result goes out unless the thread is to stop or the generation has changed. *)
Deliver ==
    /\ codes # "none"
    /\ IF codes # "failed" /\ destroying # "stopped" /\ counting.generation = generation
       THEN posted' = Append(posted, [kind |-> "histogram", count |-> counting, codes |-> codes])
       ELSE UNCHANGED posted
    /\ finished' = counting.serial
    /\ counting' = None
    /\ codes' = "none"
    /\ UNCHANGED <<next, lastSerial, generation, abandon, destroying>>

Thread ==
    \/ Take
    \/ \E result \in {"all", "part", "failed"} : Count(result)
    \/ Deliver

-----------------------------------------------------------------------------
Newest == INSTANCE NewestRequest WITH
    newest <- lastSerial,
    cause <- <<generation, destroying>>,
    answered <- finished,
    owed <- IF destroying # "no" THEN 0
            ELSE IF next # None THEN next.serial
            ELSE IF counting # None /\ counting.generation = generation THEN counting.serial
            ELSE 0

(* The newest picture is the next counted, and its count comes to an end, unless clear() or the
   destructor drops it: the counter implements NewestRequest. *)
CounterServesNewest == Newest!Spec
=============================================================================
