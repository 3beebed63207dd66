------------------------------ MODULE Exports ------------------------------
(***************************************************************************)
(* The export queue and the window that waits for it.  One thread takes    *)
(* the jobs in order and reports each; the window knows the names of the   *)
(* exports that have not reported, shows a box for one that failed, and    *)
(* when it is closed asks whether to wait for them.  Boxes run the event   *)
(* loop, so results land, and may show further boxes, while one is open;   *)
(* the box shown last is dismissed first.                                  *)
(***************************************************************************)
EXTENDS Naturals, Sequences, FiniteSetsExt, SequencesExt

CONSTANTS
    ExportBound  \* cap: exports asked

VARIABLES
    queue,          \* queue_, of identifiers
    lastId,         \* lastId_
    running,        \* the job the thread has taken, or 0
    posted,         \* results on their way to the window, in order
    exportNames,    \* exportNames_: the exports that have not reported
    closeWhenIdle,  \* closeWhenIdle_
    boxes,          \* the boxes shown, the one shown last in front
    closed          \* the window has accepted its closing

exports == <<queue, lastId, running>>
closing == <<exportNames, closeWhenIdle, boxes, closed>>
vars == <<exports, posted, closing>>

Init ==
    /\ queue = <<>>
    /\ lastId = 0
    /\ running = 0
    /\ posted = <<>>
    /\ exportNames = {}
    /\ closeWhenIdle = FALSE
    /\ boxes = <<>>
    /\ closed = FALSE

-----------------------------------------------------------------------------
(* The thread; the destructor lets the job under way finish and drops the others. *)

Take ==
    /\ running = 0
    /\ queue # <<>>
    /\ ~closed
    /\ running' = Head(queue)
    /\ queue' = Tail(queue)
    /\ UNCHANGED <<lastId, posted, closing>>

(* execute(): written or failed, a job taken always reports. *)
Execute(failed) ==
    /\ running # 0
    /\ running' = 0
    /\ posted' = Append(posted, [kind |-> "export", id |-> running, failed |-> failed])
    /\ UNCHANGED <<queue, lastId, closing>>

Thread == Take \/ \E failed \in BOOLEAN : Execute(failed)

-----------------------------------------------------------------------------
(* The window. *)

User == ~closed /\ boxes = <<>>

Enqueue ==
    /\ User
    /\ lastId < ExportBound
    /\ lastId' = lastId + 1
    /\ queue' = Append(queue, lastId + 1)
    /\ exportNames' = exportNames \cup {lastId + 1}
    /\ UNCHANGED <<running, posted, closeWhenIdle, boxes, closed>>

(* closeEvent(), with the exports that have not reported and the boxes shown then. *)
CloseEvent(names, shown) ==
    /\ closeWhenIdle' = FALSE
    /\ \/ UNCHANGED closed /\ boxes' = shown  \* confirmLeavingPhoto() says no
       \/ names = {} /\ closed' = TRUE /\ boxes' = shown
       \/ names # {} /\ boxes' = <<"running">> \o shown /\ UNCHANGED closed

CloseWindow ==
    /\ User
    /\ CloseEvent(exportNames, boxes)
    /\ UNCHANGED <<exports, posted, exportNames>>

(* The exports are waited for. *)
ChooseWait ==
    /\ ~closed
    /\ boxes # <<>> /\ Head(boxes) = "running"
    /\ boxes' = Tail(boxes)
    /\ closeWhenIdle' = TRUE
    /\ UNCHANGED <<exports, posted, exportNames, closed>>

(* Mutant of NewestOf: the names of the oldest go. *)
OldestOf(ids, number) == {id \in ids : Cardinality({other \in ids : other <= id}) <= number}

(* The newest members of a set of numbers. *)
NewestOf(ids, number) == {id \in ids : Cardinality({other \in ids : other >= id}) <= number}

(* Those that have not started are cancelled: the newest of the names. *)
ChooseCancel ==
    /\ ~closed
    /\ boxes # <<>> /\ Head(boxes) = "running"
    /\ boxes' = Tail(boxes)
    /\ queue' = <<>>
    /\ exportNames' = exportNames \ NewestOf(exportNames, Len(queue))
    /\ closed' = TRUE
    /\ UNCHANGED <<lastId, running, posted, closeWhenIdle>>

(* The end of showExportResult(). *)
CloseIfIdle(names, shown) ==
    IF names = {} /\ closeWhenIdle
    THEN CloseEvent(names, shown)
    ELSE boxes' = shown /\ UNCHANGED <<closeWhenIdle, closed>>

(* showExportResult(): a failure shows a box first, unless the export is one of many. *)
ShowExportResult ==
    /\ ~closed
    /\ posted # <<>>
    /\ posted' = Tail(posted)
    /\ exportNames' = exportNames \ {Head(posted).id}
    /\ \/ Head(posted).failed /\ boxes' = <<"failed">> \o boxes
          /\ UNCHANGED <<closeWhenIdle, closed>>
       \/ CloseIfIdle(exportNames', boxes)
    /\ UNCHANGED exports

(* Mutant of DismissFailure: the window is not closed after the last result when that is a failure. *)
DismissFailureOnly ==
    /\ ~closed
    /\ boxes # <<>> /\ Head(boxes) = "failed"
    /\ boxes' = Tail(boxes)
    /\ UNCHANGED <<exports, posted, exportNames, closeWhenIdle, closed>>

(* ... and goes on when the box is dismissed. *)
DismissFailure ==
    /\ ~closed
    /\ boxes # <<>> /\ Head(boxes) = "failed"
    /\ CloseIfIdle(exportNames, Tail(boxes))
    /\ UNCHANGED <<exports, posted, exportNames>>

-----------------------------------------------------------------------------
ThreadStep == Thread

Next ==
    \/ Enqueue
    \/ CloseWindow
    \/ ChooseWait
    \/ ChooseCancel
    \/ ShowExportResult
    \/ DismissFailure
    \/ ThreadStep

(* A job ends, the event loop handles what is posted, and the user answers a box. *)
Fairness ==
    /\ WF_vars(ThreadStep)
    /\ WF_vars(ShowExportResult)
    /\ WF_vars(ChooseWait \/ ChooseCancel \/ DismissFailure)

Spec == Init /\ [][Next]_vars /\ Fairness

-----------------------------------------------------------------------------
TypeOK ==
    /\ queue \in Seq(1 .. lastId)
    /\ lastId \in 0 .. ExportBound
    /\ running \in 0 .. lastId
    /\ exportNames \subseteq 1 .. lastId
    /\ boxes \in Seq({"running", "failed"})
    /\ {closeWhenIdle, closed} \subseteq BOOLEAN

(* The window names exactly the exports that will still report: those queued, running, or
   reported and on their way.  A cancel of the queue takes away the names of what it dropped,
   although only their number is known, and no other. *)
NamesAreOwed ==
    exportNames = (IF closed THEN {} ELSE ToSet(queue)) \cup ({running} \ {0})
                    \cup {event.id : event \in {sent \in ToSet(posted) : sent.kind = "export"}}

(* A window told to wait for exports closes once they have reported, or the user has decided
   otherwise. *)
WaitEnds == closeWhenIdle /\ exportNames # {} ~> closed \/ ~closeWhenIdle

(* "Wait" keeps the window until the queue is empty and then closes it (MainWindow.h 177): a
   window that is to close when the exports are done does close. *)
WaitCloses == closeWhenIdle ~> closed \/ ~closeWhenIdle
=============================================================================
