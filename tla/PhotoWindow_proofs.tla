------------------------- MODULE PhotoWindow_proofs -------------------------
(***************************************************************************)
(* What the window has running for the photograph that is open, for any    *)
(* number of photographs, decodes, requests, counts and exports.           *)
(*                                                                         *)
(* The export queue and the histogram panel come first, each under its     *)
(* own specification; then the renderer under calls in any order; then the *)
(* window with its loader and its renderer.  Its theorems say that what is *)
(* on the screen is of the open photograph, and that the newest request is *)
(* the one that stays.  WindowInv holds the reason: everything that is on  *)
(* its way to the window comes in the order it was asked for, and the      *)
(* pixels pass from the loader to the window, the renderer, the queue and  *)
(* the screen without one overtaking another.                              *)
(*                                                                         *)
(* The last sections are about all that runs: the types, and what the      *)
(* three workers promise who serve only the newest request.                *)
(***************************************************************************)
EXTENDS MCPhotoWindow, Integers, FiniteSetTheorems, SequenceTheorems, TLAPS

-----------------------------------------------------------------------------
(* Exports. *)

(* Exports are numbered as they are asked, taken in that order, and report in that order: the
   queue holds the last numbers given, without a gap, whatever is still to come holds smaller ones,
   in their order. *)
ExportsInOrder ==
    /\ lastId \in Nat
    /\ queue \in Seq(Nat)
    /\ Len(queue) <= lastId
    /\ \A i \in 1 .. Len(queue) : queue[i] = lastId - Len(queue) + i
    /\ running \in 0 .. lastId - Len(queue)
    /\ posted \in Seq([kind : {"export"}, id : Nat, failed : BOOLEAN])
    /\ \A i \in 1 .. Len(posted) : posted[i].id \in 1 .. lastId - Len(queue)
    /\ \A i, j \in 1 .. Len(posted) : i < j => posted[i].id < posted[j].id
    /\ running # 0 => \A i \in 1 .. Len(posted) : posted[i].id < running
    /\ closed \in BOOLEAN
    /\ closed => queue = <<>>

(* The exports that will report, as numbers. *)
ToReport ==
    (lastId - Len(queue) + 1 .. lastId) \cup ({running} \ {0})
        \cup {posted[i].id : i \in 1 .. Len(posted)}

NamesMatch == exportNames = ToReport

ExportsInv == ExportsInOrder /\ NamesMatch

(* The queue holds the numbers from its first to the last given. *)
LEMMA QueueIsInterval ==
    ASSUME ExportsInOrder
    PROVE  {queue[i] : i \in 1 .. Len(queue)} = lastId - Len(queue) + 1 .. lastId
<1>1. Len(queue) \in Nat /\ lastId \in Nat
  BY DEF ExportsInOrder
<1>2. ASSUME NEW id \in lastId - Len(queue) + 1 .. lastId
      PROVE  \E i \in 1 .. Len(queue) : queue[i] = id
  <2> DEFINE index == id - (lastId - Len(queue))
  <2>1. index \in 1 .. Len(queue) /\ lastId - Len(queue) + index = id
    BY <1>1
  <2> HIDE DEF index
  <2>2. queue[index] = lastId - Len(queue) + index
    BY <2>1 DEF ExportsInOrder
  <2> QED  BY <2>1, <2>2
<1>3. ASSUME NEW i \in 1 .. Len(queue)
      PROVE  queue[i] \in lastId - Len(queue) + 1 .. lastId
  BY <1>1 DEF ExportsInOrder
<1> QED  BY <1>2, <1>3

(* NewestOf: of numbers that all go up to the last, the newest so many are the last so many. *)
LEMMA NewestAreLast ==
    ASSUME NEW last \in Nat, NEW number \in 0 .. last, NEW ids \in SUBSET (1 .. last),
           last - number + 1 .. last \subseteq ids
    PROVE  Queue!NewestOf(ids, number) = last - number + 1 .. last
<1> DEFINE first == last - number + 1
           notOlder(id) == {other \in ids : other >= id}
<1>1. IsFiniteSet(ids)
  <2>1. IsFiniteSet(1 .. last)
    BY FS_Interval
  <2> QED  BY <2>1, FS_Subset
<1> HIDE DEF first
<1>6. /\ first \in Int /\ first = last - number + 1
      /\ \A id \in ids : id \in Int /\ id <= last /\ (id < first \/ id \in first .. last)
  BY DEF first
<1>2. IsFiniteSet(first .. last) /\ Cardinality(first .. last) = number
  BY <1>6, FS_Interval
<1>3. ASSUME NEW id \in first .. last
      PROVE  Cardinality(notOlder(id)) <= number
  <2>1. \A other \in notOlder(id) : other \in first .. last
    BY <1>3, <1>6
  <2> HIDE DEF notOlder
  <2> QED  BY <1>2, <2>1, FS_Subset
<1>4. ASSUME NEW id \in ids, id < first
      PROVE  ~(Cardinality(notOlder(id)) <= number)
  <2>1. \A other \in (first .. last) \cup {id} : other \in notOlder(id)
    BY <1>4, <1>6 DEF first
  <2>2. id \notin first .. last /\ number \in Int
    BY <1>4, <1>6
  <2>3. IsFiniteSet(notOlder(id))
    <3>1. notOlder(id) \in SUBSET ids
      OBVIOUS
    <3> HIDE DEF notOlder
    <3> QED  BY <1>1, <3>1, FS_Subset
  <2> HIDE DEF notOlder, first
  <2>4. Cardinality((first .. last) \cup {id}) = number + 1
    BY <1>2, <2>2, FS_AddElement
  <2>5. Cardinality((first .. last) \cup {id}) <= Cardinality(notOlder(id))
    BY <2>1, <2>3, FS_Subset
  <2>6. Cardinality(notOlder(id)) \in Nat
    BY <2>3, FS_CardinalityType
  <2>7. number + 1 <= Cardinality(notOlder(id))
    BY <2>4, <2>5
  <2> QED  BY <2>2, <2>6, <2>7
<1>5. Queue!NewestOf(ids, number) = {id \in ids : Cardinality(notOlder(id)) <= number}
  <2>1. \A S : Queue!Cardinality(S) = Cardinality(S)
    BY Zenon DEF Queue!Cardinality, Cardinality
  <2> QED  BY <2>1 DEF Queue!NewestOf
<1> HIDE DEF notOlder
<1> QED  BY <1>3, <1>4, <1>5, <1>6 DEF first

(* A job goes to the back of the queue, from its front to the thread, and on to the window. *)
LEMMA ExportsNext ==
    ASSUME ExportsInv, [Queue!Next]_(Queue!vars)
    PROVE  ExportsInv'
<1>1. /\ lastId \in Nat /\ Len(queue) \in Nat /\ Len(queue) <= lastId
      /\ queue \in Seq(Nat) /\ running \in 0 .. lastId - Len(queue) /\ running \in Nat
      /\ posted \in Seq([kind : {"export"}, id : Nat, failed : BOOLEAN]) /\ Len(posted) \in Nat
      /\ exportNames = ToReport
  BY DEF ExportsInv, ExportsInOrder, NamesMatch
<1>2. CASE Queue!Take
  <2>1. /\ queue # <<>> /\ running = 0 /\ running' = Head(queue) /\ queue' = Tail(queue)
        /\ lastId' = lastId /\ posted' = posted /\ exportNames' = exportNames
        /\ closed' = closed /\ ~closed
    BY <1>2 DEF Queue!Take, Queue!closing
  <2>2. /\ Len(queue) >= 1 /\ queue' \in Seq(Nat) /\ Len(queue') = Len(queue) - 1
        /\ running' = queue[1]
        /\ \A i \in 1 .. Len(queue') : queue'[i] = queue[i + 1]
    BY <1>1, <2>1
  <2>3. running' = lastId - Len(queue) + 1
    BY <2>2 DEF ExportsInv, ExportsInOrder
  <2>4. \A i \in 1 .. Len(queue') : queue'[i] = lastId - Len(queue') + i
    <3> SUFFICES ASSUME NEW i \in 1 .. Len(queue') PROVE queue'[i] = lastId - Len(queue') + i
      OBVIOUS
    <3>1. i + 1 \in 1 .. Len(queue)
      BY <1>1, <2>2
    <3>2. queue[i + 1] = lastId - Len(queue) + (i + 1)
      BY <3>1 DEF ExportsInv, ExportsInOrder
    <3> QED  BY <1>1, <2>2, <3>2
  <2>5. \A i \in 1 .. Len(posted) : posted[i].id \in 1 .. lastId - Len(queue)
    BY DEF ExportsInv, ExportsInOrder
  <2>6. ExportsInOrder'
    BY <1>1, <2>1, <2>2, <2>3, <2>4, <2>5 DEF ExportsInv, ExportsInOrder
  <2>7. lastId - Len(queue) + 1 .. lastId =
            (lastId' - Len(queue') + 1 .. lastId') \cup {running'}
    BY <1>1, <2>1, <2>2, <2>3
  <2>8. running' # 0
    BY <1>1, <2>3
  <2>9. ToReport' = ToReport
    BY <2>1, <2>7, <2>8 DEF ToReport
  <2> QED  BY <1>1, <2>1, <2>6, <2>9 DEF ExportsInv, NamesMatch
<1>3. CASE \E failed \in BOOLEAN : Queue!Execute(failed)
  <2>1. PICK failed \in BOOLEAN : Queue!Execute(failed)
    BY <1>3
  <2> DEFINE sent == [kind |-> "export", id |-> running, failed |-> failed]
  <2>2. /\ running # 0 /\ running' = 0 /\ queue' = queue /\ lastId' = lastId
        /\ exportNames' = exportNames /\ closed' = closed /\ posted' = Append(posted, sent)
    BY <2>1 DEF Queue!Execute, Queue!closing
  <2>3. sent \in [kind : {"export"}, id : Nat, failed : BOOLEAN] /\ sent.id = running
    BY <1>1
  <2> HIDE DEF sent
  <2>4. /\ posted' \in Seq([kind : {"export"}, id : Nat, failed : BOOLEAN])
        /\ Len(posted') = Len(posted) + 1
        /\ \A i \in 1 .. Len(posted) : posted'[i] = posted[i]
        /\ posted'[Len(posted) + 1] = sent
    BY <1>1, <2>2, <2>3
  <2>5. /\ \A i \in 1 .. Len(posted') : i \in 1 .. Len(posted) \/ i = Len(posted) + 1
        /\ 1 .. Len(posted) \subseteq 1 .. Len(posted') /\ Len(posted) + 1 \in 1 .. Len(posted')
    BY <1>1, <2>4
  <2>6. \A i \in 1 .. Len(posted') : posted'[i].id \in 1 .. lastId - Len(queue)
    BY <1>1, <2>2, <2>3, <2>4, <2>5 DEF ExportsInv, ExportsInOrder
  <2>7. \A i, j \in 1 .. Len(posted') : i < j => posted'[i].id < posted'[j].id
    BY <1>1, <2>2, <2>3, <2>4, <2>5 DEF ExportsInv, ExportsInOrder
  <2>8. ExportsInOrder'
    BY <1>1, <2>2, <2>4, <2>6, <2>7 DEF ExportsInv, ExportsInOrder
  <2>9. {posted'[i].id : i \in 1 .. Len(posted')} = {posted[i].id : i \in 1 .. Len(posted)} \cup {running}
    BY <2>3, <2>4, <2>5
  <2>10. ToReport' = ToReport
    BY <2>2, <2>9 DEF ToReport
  <2> QED  BY <1>1, <2>2, <2>8, <2>10 DEF ExportsInv, NamesMatch
<1>4. CASE Queue!Enqueue
  <2>1. /\ lastId' = lastId + 1 /\ queue' = Append(queue, lastId + 1)
        /\ exportNames' = exportNames \cup {lastId + 1}
        /\ running' = running /\ posted' = posted /\ closed' = closed /\ ~closed
    BY <1>4 DEF Queue!Enqueue, Queue!User
  <2>2. /\ queue' \in Seq(Nat) /\ Len(queue') = Len(queue) + 1
        /\ \A i \in 1 .. Len(queue) : queue'[i] = queue[i]
        /\ queue'[Len(queue) + 1] = lastId + 1
    BY <1>1, <2>1
  <2>3. \A i \in 1 .. Len(queue') : queue'[i] = lastId' - Len(queue') + i
    <3> SUFFICES ASSUME NEW i \in 1 .. Len(queue') PROVE queue'[i] = lastId' - Len(queue') + i
      OBVIOUS
    <3>1. CASE i = Len(queue) + 1
      BY <1>1, <2>1, <2>2, <3>1
    <3>2. CASE i # Len(queue) + 1
      <4>1. i \in 1 .. Len(queue)
        BY <1>1, <2>2, <3>2
      <4>2. queue[i] = lastId - Len(queue) + i
        BY <4>1 DEF ExportsInv, ExportsInOrder
      <4> QED  BY <1>1, <2>1, <2>2, <4>1, <4>2
    <3> QED  BY <3>1, <3>2
  <2>4. lastId' - Len(queue') = lastId - Len(queue) /\ lastId' \in Nat /\ Len(queue') <= lastId'
    BY <1>1, <2>1, <2>2
  <2>5. ExportsInOrder'
    BY <2>1, <2>2, <2>3, <2>4 DEF ExportsInv, ExportsInOrder
  <2>6. lastId' - Len(queue') + 1 .. lastId' = (lastId - Len(queue) + 1 .. lastId) \cup {lastId + 1}
    <3> DEFINE first == lastId - Len(queue) + 1
    <3>1. first \in Int /\ first <= lastId + 1 /\ lastId' - Len(queue') + 1 = first
      BY <1>1, <2>1, <2>4
    <3> HIDE DEF first
    <3>2. first .. lastId + 1 = (first .. lastId) \cup {lastId + 1}
      BY <1>1, <3>1
    <3> QED  BY <2>1, <3>1, <3>2 DEF first
  <2>7. ToReport' = ToReport \cup {lastId + 1}
    BY <2>1, <2>6 DEF ToReport
  <2> QED  BY <1>1, <2>1, <2>5, <2>7 DEF ExportsInv, NamesMatch
<1>5. ASSUME UNCHANGED <<queue, lastId, running, posted, exportNames>>,
             closed' = closed \/ (exportNames = {} /\ closed' = TRUE)
      PROVE  ExportsInv'
  <2>1. exportNames = {} => queue = <<>>
    <3> SUFFICES ASSUME exportNames = {} PROVE queue = <<>>
      OBVIOUS
    <3>1. lastId - Len(queue) + 1 .. lastId = {}
      BY <1>1 DEF ToReport
    <3>2. lastId \notin lastId - Len(queue) + 1 .. lastId
      BY <3>1
    <3>3. Len(queue) = 0
      BY <1>1, <3>2
    <3> QED  BY <1>1, <3>3
  <2>2. closed' \in BOOLEAN /\ (closed' => queue' = <<>>)
    <3>1. queue' = queue /\ closed \in BOOLEAN /\ (closed => queue = <<>>)
      BY <1>5 DEF ExportsInv, ExportsInOrder
    <3>2. CASE closed' = closed
      BY Zenon, <3>1, <3>2
    <3>3. CASE exportNames = {} /\ closed' = TRUE
      BY Zenon, <2>1, <3>1, <3>3
    <3> QED  BY <1>5, <3>2, <3>3
  <2>3. ExportsInOrder'
    BY <1>5, <2>2 DEF ExportsInv, ExportsInOrder
  <2> QED  BY <1>1, <1>5, <2>3 DEF ExportsInv, NamesMatch, ToReport
<1>6. CASE Queue!CloseWindow
  BY <1>5, <1>6 DEF Queue!CloseWindow, Queue!CloseEvent, Queue!exports
<1>7. CASE Queue!ChooseWait
  BY <1>5, <1>7 DEF Queue!ChooseWait, Queue!exports
<1>8. CASE Queue!DismissFailure
  BY <1>5, <1>8 DEF Queue!DismissFailure, Queue!CloseIfIdle, Queue!CloseEvent, Queue!exports
<1>9. CASE Queue!ChooseCancel
  <2>1. /\ queue' = <<>> /\ lastId' = lastId /\ running' = running /\ posted' = posted
        /\ exportNames' = exportNames \ Queue!NewestOf(exportNames, Len(queue))
        /\ closed' = TRUE
    BY <1>9 DEF Queue!ChooseCancel
  <2> DEFINE gone == lastId - Len(queue) + 1 .. lastId
             others == ({running} \ {0}) \cup {posted[i].id : i \in 1 .. Len(posted)}
  <2>2. exportNames = gone \cup others
    BY <1>1 DEF ToReport
  <2>3. \A i \in 1 .. Len(posted) : posted[i].id \in 1 .. lastId - Len(queue)
    BY DEF ExportsInv, ExportsInOrder
  <2>4. \A id \in others : id \in 1 .. lastId - Len(queue)
    BY <1>1, <2>3
  <2>5. exportNames \in SUBSET (1 .. lastId) /\ \A id \in others : id \notin gone
    <3>1. \A id \in gone : id \in 1 .. lastId
      BY <1>1
    <3>2. \A id \in 1 .. lastId - Len(queue) : id \in 1 .. lastId /\ id \notin gone
      BY <1>1
    <3> HIDE DEF gone, others
    <3> QED  BY <2>2, <2>4, <3>1, <3>2
  <2>6. Queue!NewestOf(exportNames, Len(queue)) = gone
    <3>1. Len(queue) \in 0 .. lastId /\ gone \subseteq exportNames
      BY <1>1, <2>2
    <3> QED  BY <1>1, <2>5, <3>1, NewestAreLast
  <2>7. exportNames' = others
    BY <2>1, <2>2, <2>5, <2>6
  <2>8. Len(queue') = 0 /\ queue' \in Seq(Nat)
    BY <2>1
  <2>9. lastId' - Len(queue') + 1 .. lastId' = {}
    BY <1>1, <2>1, <2>8
  <2>10. ToReport' = others
    BY <2>1, <2>9 DEF ToReport
  <2>11. /\ running' \in 0 .. lastId' - Len(queue')
         /\ \A i \in 1 .. Len(posted') : posted'[i].id \in 1 .. lastId' - Len(queue')
         /\ \A i \in 1 .. Len(queue') : queue'[i] = lastId' - Len(queue') + i
    BY <1>1, <2>1, <2>3, <2>8
  <2>12. ExportsInOrder'
    BY <1>1, <2>1, <2>8, <2>11 DEF ExportsInv, ExportsInOrder
  <2> QED  BY <2>7, <2>10, <2>12 DEF ExportsInv, NamesMatch
<1>10. CASE Queue!ShowExportResult
  <2>1. /\ posted # <<>> /\ posted' = Tail(posted) /\ exportNames' = exportNames \ {Head(posted).id}
        /\ queue' = queue /\ lastId' = lastId /\ running' = running
        /\ closed' = closed \/ (exportNames' = {} /\ closed' = TRUE)
    BY <1>10 DEF Queue!ShowExportResult, Queue!CloseIfIdle, Queue!CloseEvent, Queue!exports
  <2>2. /\ Len(posted) >= 1 /\ Head(posted) = posted[1]
        /\ posted' \in Seq([kind : {"export"}, id : Nat, failed : BOOLEAN])
        /\ Len(posted') = Len(posted) - 1
        /\ \A i \in 1 .. Len(posted') : posted'[i] = posted[i + 1]
    BY <1>1, <2>1
  <2>3. /\ \A i \in 1 .. Len(posted') : i + 1 \in 1 .. Len(posted) /\ i \in Int
        /\ 1 \in 1 .. Len(posted)
        /\ \A i \in 1 .. Len(posted) : i = 1 \/ (i - 1 \in 1 .. Len(posted') /\ (i - 1) + 1 = i)
    BY <1>1, <2>2
  <2>4. /\ \A i \in 1 .. Len(posted') : posted'[i].id \in 1 .. lastId - Len(queue)
        /\ running # 0 => \A i \in 1 .. Len(posted') : posted'[i].id < running
    BY <2>2, <2>3 DEF ExportsInv, ExportsInOrder
  <2>5. \A i, j \in 1 .. Len(posted') : i < j => posted'[i].id < posted'[j].id
    <3> SUFFICES ASSUME NEW i \in 1 .. Len(posted'), NEW j \in 1 .. Len(posted'), i < j
                 PROVE  posted[i + 1].id < posted[j + 1].id
      BY <2>2
    <3>1. i + 1 < j + 1
      BY <2>3
    <3> QED  BY <2>3, <3>1 DEF ExportsInv, ExportsInOrder
  <2> DEFINE gone == posted[1].id
             rest == {posted'[i].id : i \in 1 .. Len(posted')}
             stay == (lastId - Len(queue) + 1 .. lastId) \cup ({running} \ {0})
  <2>6. gone \notin rest
    <3> SUFFICES ASSUME NEW i \in 1 .. Len(posted') PROVE posted'[i].id # gone
      OBVIOUS
    <3>1. 1 < i + 1
      BY <2>3
    <3>2. posted[1].id < posted[i + 1].id
      BY <2>3, <3>1 DEF ExportsInv, ExportsInOrder
    <3>3. posted[1].id \in Int
      BY <2>3 DEF ExportsInv, ExportsInOrder
    <3> QED  BY <2>2, <3>2, <3>3
  <2>7. gone \notin stay
    <3>1. gone \in 1 .. lastId - Len(queue) /\ (running # 0 => gone < running)
      BY <2>3 DEF ExportsInv, ExportsInOrder
    <3> QED  BY <1>1, <3>1
  <2>8. {posted[i].id : i \in 1 .. Len(posted)} = rest \cup {gone}
    <3>1. \A i \in 1 .. Len(posted) : posted[i].id \in rest \cup {gone}
      <4> SUFFICES ASSUME NEW i \in 1 .. Len(posted), i # 1 PROVE posted[i].id \in rest
        OBVIOUS
      <4>1. posted'[i - 1] = posted[i] /\ i - 1 \in 1 .. Len(posted')
        BY <2>2, <2>3
      <4> QED  BY <4>1
    <3>2. \A i \in 1 .. Len(posted') : posted'[i].id \in {posted[k].id : k \in 1 .. Len(posted)}
      BY <2>2, <2>3
    <3>3. gone \in {posted[k].id : k \in 1 .. Len(posted)}
      BY <2>3
    <3> QED  BY <3>1, <3>2, <3>3
  <2>9. exportNames = stay \cup rest \cup {gone} /\ ToReport' = stay \cup rest
    BY <1>1, <2>1, <2>8 DEF ToReport
  <2>10. exportNames' = ToReport'
    BY <2>1, <2>2, <2>6, <2>7, <2>9
  <2>11. exportNames' = {} => queue = <<>>
    <3> SUFFICES ASSUME exportNames' = {} PROVE queue = <<>>
      OBVIOUS
    <3>1. lastId \notin lastId - Len(queue) + 1 .. lastId
      BY <2>9, <2>10
    <3>2. Len(queue) = 0
      BY <1>1, <3>1
    <3> QED  BY <1>1, <3>2
  <2>12. closed' \in BOOLEAN /\ (closed' => queue' = <<>>)
    <3>1. queue' = queue /\ closed \in BOOLEAN /\ (closed => queue = <<>>)
      BY <2>1 DEF ExportsInv, ExportsInOrder
    <3>2. CASE closed' = closed
      BY Zenon, <3>1, <3>2
    <3>3. CASE exportNames' = {} /\ closed' = TRUE
      BY Zenon, <2>11, <3>1, <3>3
    <3> QED  BY <2>1, <3>2, <3>3
  <2>13. ExportsInOrder'
    BY <2>1, <2>2, <2>4, <2>5, <2>12 DEF ExportsInv, ExportsInOrder
  <2> QED  BY <2>10, <2>13 DEF ExportsInv, NamesMatch
<1>11. CASE UNCHANGED Queue!vars
  <2>1. UNCHANGED <<queue, lastId, running, posted, exportNames, closed>>
    BY <1>11 DEF Queue!vars, Queue!exports, Queue!closing
  <2> QED  BY <1>5, <2>1
<1> QED  BY <1>2, <1>3, <1>4, <1>6, <1>7, <1>8, <1>9, <1>10, <1>11
         DEF Queue!Next, Queue!ThreadStep, Queue!Thread

(* No export was asked for. *)
LEMMA ExportsStart == Queue!Init => ExportsInv
<1> SUFFICES ASSUME Queue!Init PROVE ExportsInv
  OBVIOUS
<1>1. /\ queue = <<>> /\ lastId = 0 /\ running = 0 /\ posted = <<>> /\ exportNames = {}
      /\ closed = FALSE
  BY DEF Queue!Init
<1>2. ExportsInOrder
  <2>1. Len(queue) = 0 /\ Len(posted) = 0 /\ 1 .. 0 = {} /\ 0 \in 0 .. 0 - 0
    BY <1>1
  <2>2. /\ queue \in Seq(Nat)
        /\ posted \in Seq([kind : {"export"}, id : Nat, failed : BOOLEAN])
    BY <1>1
  <2>3. \A i \in 1 .. 0 : FALSE
    BY <2>1
  <2>4. closed \in BOOLEAN /\ ~closed
    BY Zenon, <1>1
  <2>5. lastId \in Nat /\ lastId - Len(queue) = 0
    <3>1. lastId = 0 /\ Len(queue) = 0
      BY Zenon, <1>1, <2>1
    <3> QED  BY <3>1
  <2> QED  BY <1>1, <2>1, <2>2, <2>3, <2>4, <2>5 DEF ExportsInOrder
<1>3. 1 .. 0 = {} /\ 0 - 0 + 1 .. 0 = {}
  OBVIOUS
<1>4. ToReport = {}
  BY <1>1, <1>3 DEF ToReport
<1> QED  BY <1>1, <1>2, <1>4 DEF ExportsInv, NamesMatch

(* The window names exactly the exports that will still report, although a cancel tells it no more
   than how many were dropped. *)
THEOREM NamesStayOwed == Queue!Spec => []NamesAreOwed
<1>1. Queue!Init => ExportsInv
  BY ExportsStart
<1>2. ExportsInv => NamesAreOwed
  <2> SUFFICES ASSUME ExportsInv PROVE NamesAreOwed
    OBVIOUS
  <2>1. /\ queue \in Seq(Nat) /\ posted \in Seq([kind : {"export"}, id : Nat, failed : BOOLEAN])
        /\ lastId \in Nat /\ (closed => queue = <<>>)
    BY DEF ExportsInv, ExportsInOrder
  <2>2. Queue!ToSet(queue) = lastId - Len(queue) + 1 .. lastId
    <3>1. Queue!ToSet(queue) = {queue[i] : i \in 1 .. Len(queue)}
      BY <2>1 DEF Queue!ToSet
    <3> QED  BY <3>1, QueueIsInterval DEF ExportsInv
  <2>3. closed => Queue!ToSet(queue) = {}
    <3> SUFFICES ASSUME closed PROVE Queue!ToSet(queue) = {}
      OBVIOUS
    <3>1. Len(queue) = 0
      BY <2>1
    <3> QED  BY <2>1, <2>2, <3>1
  <2>4. {event.id : event \in {sent \in Queue!ToSet(posted) : sent.kind = "export"}} =
            {posted[i].id : i \in 1 .. Len(posted)}
    <3>1. Queue!ToSet(posted) = {posted[i] : i \in 1 .. Len(posted)}
      BY <2>1 DEF Queue!ToSet
    <3>2. \A i \in 1 .. Len(posted) : posted[i].kind = "export"
      <4> SUFFICES ASSUME NEW i \in 1 .. Len(posted) PROVE posted[i].kind = "export"
        OBVIOUS
      <4>1. posted[i] \in [kind : {"export"}, id : Nat, failed : BOOLEAN]
        BY <2>1, ElementOfSeq
      <4> QED  BY <4>1
    <3> QED  BY <3>1, <3>2
  <2>5. exportNames = Queue!ToSet(queue) \cup ({running} \ {0})
                         \cup {posted[i].id : i \in 1 .. Len(posted)}
    BY <2>2 DEF ExportsInv, NamesMatch, ToReport
  <2> QED  BY <2>3, <2>4, <2>5 DEF NamesAreOwed, Queue!NamesAreOwed
<1> QED  BY <1>1, <1>2, ExportsNext, PTL DEF Queue!Spec

-----------------------------------------------------------------------------
(* The histogram panel. *)

Counts == [serial : Nat, generation : Nat, picture : Nat]

(* Counts on their way to the window. *)
Reports == [kind : {"histogram"}, count : Counts, codes : {"all", "part"}]

PanelTyped ==
    /\ next \in Counts \cup {None} /\ counting \in Counts \cup {None}
    /\ lastSerial \in Nat /\ generation \in Nat /\ finished \in Nat
    /\ shownSerial \in Nat /\ pictures \in Nat
    /\ abandon \in BOOLEAN /\ inSight \in BOOLEAN
    /\ codes \in {"none", "all", "part", "failed"}
    /\ destroying \in {"no", "abandoned", "stopped"}
    /\ picture \in Nat \cup {None} /\ lastMeasured \in Nat \cup {None}
    /\ picture # None => picture <= pictures
    /\ lastMeasured # None => lastMeasured <= pictures
    /\ posted \in Seq(Reports)
    /\ shown \in [picture : Nat, codes : {"all", "part"}] \cup {None}

(* A picture submitted since the panel was emptied last is of the open photograph and no newer than
   the one on screen, and the one submitted last is the one measured last. *)
WasSubmitted(count) ==
    /\ count.serial <= lastSerial
    /\ count.generation <= generation
    /\ count.generation = generation =>
           /\ inSight /\ picture # None /\ count.picture <= picture
           /\ count.serial = lastSerial => count.picture = lastMeasured

(* Numbers go up from what was counted to what is being counted and what waits. *)
CountsHold ==
    /\ finished <= lastSerial
    /\ next # None => /\ WasSubmitted(next)
                      /\ next.serial = lastSerial /\ finished < lastSerial
                      /\ counting # None => counting.serial < lastSerial
    /\ counting # None => WasSubmitted(counting) /\ finished < counting.serial
    /\ \A i \in 1 .. Len(posted) : WasSubmitted(posted[i].count)

(* Part of a picture is counted only after the panel was emptied, or at the end. *)
PartsAreOfBefore ==
    /\ codes # "none" => counting # None
    /\ destroying = "no" =>
           /\ (abandon \/ codes = "part") /\ counting # None => counting.generation # generation
           /\ \A i \in 1 .. Len(posted) :
                  posted[i].codes = "part" => posted[i].count.generation # generation

(* Nothing is shown but of the open photograph. *)
ShownHolds ==
    shown # None => shown.codes = "all" /\ inSight /\ picture # None /\ shown.picture <= picture

(* The picture measured last waits, is being counted, or has been counted; it is what is shown when
   the newest count is. *)
MeasuredHolds ==
    /\ inSight /\ picture # None => lastMeasured = picture
    /\ lastMeasured # None /\ destroying = "no" =>
           \/ next # None
           \/ counting # None /\ counting.serial = lastSerial
           \/ finished = lastSerial
    /\ shownSerial <= lastSerial
    /\ lastMeasured # None /\ shownSerial = lastSerial =>
           shown # None /\ shown.picture = lastMeasured

PanelInv == PanelTyped /\ CountsHold /\ PartsAreOfBefore /\ ShownHolds /\ MeasuredHolds

(* What submitMeasured() leaves as it is, and the count it asks for. *)
LEMMA Measures ==
    ASSUME PanelInv, NEW pixels \in Nat \cup {None}, NEW seen \in BOOLEAN,
           Panel!SubmitMeasured(pixels, seen)
    PROVE  /\ generation' = generation /\ counting' = counting /\ codes' = codes
           /\ abandon' = abandon /\ destroying' = destroying /\ finished' = finished
           /\ \/ ~seen \/ pixels = None \/ pixels = lastMeasured
              \/ /\ lastSerial' = lastSerial + 1 /\ lastMeasured' = pixels
                 /\ next' \in Counts /\ next'.serial = lastSerial + 1
                 /\ next'.generation = generation /\ next'.picture = pixels
           /\ (~seen \/ pixels = None \/ pixels = lastMeasured) =>
                  next' = next /\ lastSerial' = lastSerial /\ lastMeasured' = lastMeasured
BY DEF Panel!SubmitMeasured, Panel!Counter!Submit, Panel!counter, PanelInv, PanelTyped, Counts

(* What is on its way to the window is counts. *)
LEMMA ReportsAreTyped ==
    ASSUME PanelInv, NEW i \in 1 .. Len(posted)
    PROVE  posted[i] \in Reports /\ posted[i].count \in Counts
<1>1. posted \in Seq(Reports)
  BY DEF PanelInv, PanelTyped
<1>2. posted[i] \in Reports
  BY <1>1, ElementOfSeq
<1> QED  BY <1>2 DEF Reports

(* Emptying the panel starts a generation of the counter. *)
LEMMA EmptyPanel ==
    ASSUME PanelInv, Panel!Empty, posted' = posted, pictures' = pictures,
           shownSerial' = shownSerial, picture' \in {picture, None}, inSight' \in {inSight, FALSE},
           destroying = "no", picture' = None \/ inSight' = FALSE
    PROVE  PanelInv'
<1>1. /\ next' = None /\ abandon' = TRUE /\ generation' = generation + 1
      /\ lastSerial' = lastSerial /\ counting' = counting /\ codes' = codes
      /\ destroying' = destroying /\ finished' = finished /\ lastMeasured' = None /\ shown' = None
  BY DEF Panel!Empty, Panel!Counter!Clear
<1>2. PanelTyped'
  <2>1. abandon' \in BOOLEAN /\ inSight' \in BOOLEAN
    BY Zenon, <1>1 DEF PanelInv, PanelTyped
  <2>2. generation' \in Nat
    BY <1>1 DEF PanelInv, PanelTyped
  <2> QED  BY <1>1, <2>1, <2>2 DEF PanelInv, PanelTyped
<1>3. ASSUME NEW count \in Counts, WasSubmitted(count)
      PROVE  WasSubmitted(count)' /\ count.generation # generation'
  <2>1. count.generation < generation' /\ count.generation <= generation'
    BY <1>1, <1>3 DEF WasSubmitted, Counts, PanelInv, PanelTyped
  <2>2. count.generation # generation' /\ count.serial <= lastSerial'
    BY <1>1, <1>3, <2>1 DEF WasSubmitted, Counts, PanelInv, PanelTyped
  <2> QED  BY Zenon, <2>1, <2>2 DEF WasSubmitted
<1>4. \A i \in 1 .. Len(posted) : posted[i].count \in Counts
  BY ReportsAreTyped
<1>5. CountsHold'
  BY <1>1, <1>3, <1>4 DEF PanelInv, CountsHold, PanelTyped
<1>6. PartsAreOfBefore'
  BY <1>1, <1>3, <1>4 DEF PanelInv, PartsAreOfBefore, CountsHold, PanelTyped
<1>7. ShownHolds'
  BY <1>1 DEF ShownHolds
<1>8. MeasuredHolds'
  <2>1. ~(inSight' /\ picture' # None)
    BY Zenon
  <2>2. shownSerial' <= lastSerial'
    BY <1>1 DEF PanelInv, MeasuredHolds
  <2> QED  BY <1>1, <2>1, <2>2 DEF MeasuredHolds
<1> QED  BY <1>2, <1>5, <1>6, <1>7, <1>8 DEF PanelInv

(* Each picture shown is measured while the panel is in sight; the counts of before go no further
   than the counter and the event queue. *)
LEMMA PanelNext ==
    ASSUME PanelInv, [Panel!Next]_(Panel!vars)
    PROVE  PanelInv'
<1>1. \A i \in 1 .. Len(posted) : posted[i] \in Reports /\ posted[i].count \in Counts
  BY ReportsAreTyped
<1>2. /\ lastSerial \in Nat /\ generation \in Nat /\ finished \in Nat /\ shownSerial \in Nat
      /\ pictures \in Nat /\ posted \in Seq(Reports) /\ Len(posted) \in Nat
  BY DEF PanelInv, PanelTyped
<1>3. None \notin Nat /\ None \notin Counts
  BY BoundsAssumption DEF Counts
<1>4. CASE Panel!ShowPicture
  <2>1. /\ destroying = "no" /\ pictures' = pictures + 1 /\ picture' = pictures + 1
        /\ Panel!SubmitMeasured(pictures + 1, inSight)
        /\ posted' = posted /\ inSight' = inSight /\ shownSerial' = shownSerial /\ shown' = shown
    BY <1>4 DEF Panel!ShowPicture
  <2>2. pictures + 1 \in Nat /\ pictures + 1 # None /\ pictures + 1 # lastMeasured
    BY <1>2, <1>3 DEF PanelInv, PanelTyped
  <2>3. inSight \in BOOLEAN
    BY Zenon DEF PanelInv, PanelTyped
  <2>4. CASE ~inSight
    <3>1. /\ next' = next /\ lastSerial' = lastSerial /\ lastMeasured' = lastMeasured
          /\ generation' = generation /\ counting' = counting /\ codes' = codes
          /\ abandon' = abandon /\ destroying' = destroying /\ finished' = finished
      BY <2>1, <2>2, <2>3, <2>4, Measures
    <3>2. ASSUME NEW count \in Counts, WasSubmitted(count) PROVE WasSubmitted(count)'
      BY <2>1, <2>4, <3>1, <3>2 DEF WasSubmitted
    <3>3. PanelTyped'
      BY <1>2, <1>3, <2>1, <2>2, <3>1 DEF PanelInv, PanelTyped
    <3>4. CountsHold'
      BY <1>1, <2>1, <3>1, <3>2 DEF PanelInv, PanelTyped, CountsHold
    <3>5. PartsAreOfBefore' /\ ShownHolds' /\ MeasuredHolds'
      BY <2>1, <2>4, <3>1 DEF PanelInv, PartsAreOfBefore, ShownHolds, MeasuredHolds
    <3> QED  BY <3>3, <3>4, <3>5 DEF PanelInv
  <2>5. CASE inSight
    <3>1. /\ lastSerial' = lastSerial + 1 /\ lastMeasured' = pictures + 1
          /\ next' \in Counts /\ next'.serial = lastSerial + 1
          /\ next'.generation = generation /\ next'.picture = pictures + 1
          /\ generation' = generation /\ counting' = counting /\ codes' = codes
          /\ abandon' = abandon /\ destroying' = destroying /\ finished' = finished
      BY <2>1, <2>2, <2>3, <2>5, Measures
    <3>2. ASSUME NEW count \in Counts, WasSubmitted(count) PROVE WasSubmitted(count)'
      BY <1>2, <1>3, <2>1, <2>2, <2>5, <3>1, <3>2 DEF WasSubmitted, Counts, PanelInv, PanelTyped
    <3>3. PanelTyped'
      BY <1>2, <1>3, <2>1, <2>2, <3>1 DEF PanelInv, PanelTyped
    <3>4. WasSubmitted(next)'
      BY <1>2, <1>3, <2>1, <2>2, <2>5, <3>1 DEF WasSubmitted, Counts
    <3>5. CountsHold'
      BY <1>1, <1>2, <2>1, <3>1, <3>2, <3>4 DEF PanelInv, PanelTyped, CountsHold, WasSubmitted, Counts
    <3>6. PartsAreOfBefore'
      BY <2>1, <2>5, <3>1 DEF PanelInv, PartsAreOfBefore
    <3>7. ShownHolds'
      BY <1>2, <1>3, <2>1, <2>2, <2>5, <3>1 DEF PanelInv, PanelTyped, ShownHolds
    <3>8. MeasuredHolds'
      BY <1>2, <1>3, <2>1, <2>2, <2>5, <3>1 DEF PanelInv, PanelTyped, MeasuredHolds
    <3> QED  BY <3>3, <3>5, <3>6, <3>7, <3>8 DEF PanelInv
  <2> QED  BY <2>4, <2>5
<1>5. CASE Panel!Reveal
  <2>1. /\ destroying = "no" /\ ~inSight /\ inSight' = TRUE /\ picture' = picture
        /\ Panel!SubmitMeasured(picture, TRUE)
        /\ posted' = posted /\ pictures' = pictures /\ shownSerial' = shownSerial /\ shown' = shown
    BY <1>5 DEF Panel!Reveal
  <2>2. picture \in Nat \cup {None} /\ TRUE \in BOOLEAN
    BY DEF PanelInv, PanelTyped
  <2>3. shown = None
    BY <2>1 DEF PanelInv, ShownHolds
  <2>4. ASSUME NEW count \in Counts, WasSubmitted(count)
        PROVE  count.generation # generation /\ count.serial <= lastSerial
                   /\ count.generation <= generation
    BY <2>1, <2>4 DEF WasSubmitted
  <2>5. /\ generation' = generation /\ counting' = counting /\ codes' = codes
        /\ abandon' = abandon /\ destroying' = destroying /\ finished' = finished
    BY <2>1, <2>2, Measures
  <2>6. CASE picture = None \/ picture = lastMeasured
    <3>1. next' = next /\ lastSerial' = lastSerial /\ lastMeasured' = lastMeasured
      BY <2>1, <2>2, <2>6, Measures
    <3>2. ASSUME NEW count \in Counts, WasSubmitted(count) PROVE WasSubmitted(count)'
      BY <2>1, <2>4, <2>5, <3>1, <3>2 DEF WasSubmitted
    <3>3. PanelTyped'
      BY <2>1, <2>5, <3>1 DEF PanelInv, PanelTyped
    <3>4. CountsHold'
      BY <1>1, <2>1, <2>5, <3>1, <3>2 DEF PanelInv, PanelTyped, CountsHold
    <3>5. PartsAreOfBefore' /\ ShownHolds'
      BY <2>1, <2>3, <2>5, <3>1 DEF PanelInv, PartsAreOfBefore, ShownHolds
    <3>6. MeasuredHolds'
      BY <2>1, <2>3, <2>5, <2>6, <3>1 DEF PanelInv, MeasuredHolds
    <3> QED  BY <3>3, <3>4, <3>5, <3>6 DEF PanelInv
  <2>7. CASE picture # None /\ picture # lastMeasured
    <3>1. /\ lastSerial' = lastSerial + 1 /\ lastMeasured' = picture
          /\ next' \in Counts /\ next'.serial = lastSerial + 1
          /\ next'.generation = generation /\ next'.picture = picture
      BY <2>1, <2>2, <2>7, Measures
    <3>2. ASSUME NEW count \in Counts, WasSubmitted(count) PROVE WasSubmitted(count)'
      BY <1>2, <2>1, <2>4, <2>5, <3>1, <3>2 DEF WasSubmitted, Counts
    <3>3. PanelTyped'
      BY <1>2, <2>1, <2>2, <2>5, <2>7, <3>1 DEF PanelInv, PanelTyped
    <3>4. WasSubmitted(next)'
      BY <1>2, <2>1, <2>2, <2>5, <2>7, <3>1 DEF WasSubmitted, Counts
    <3>5. CountsHold'
      BY <1>1, <1>2, <2>1, <2>4, <2>5, <3>1, <3>2, <3>4
         DEF PanelInv, PanelTyped, CountsHold, WasSubmitted, Counts
    <3>6. PartsAreOfBefore' /\ ShownHolds'
      BY <2>1, <2>3, <2>5 DEF PanelInv, PartsAreOfBefore, ShownHolds
    <3>7. MeasuredHolds'
      BY <1>2, <1>3, <2>1, <2>5, <2>7, <3>1 DEF PanelInv, PanelTyped, MeasuredHolds
    <3> QED  BY <3>3, <3>5, <3>6, <3>7 DEF PanelInv
  <2> QED  BY <2>6, <2>7
<1>6. CASE Panel!LeavePhoto
  <2>1. /\ Panel!Empty /\ posted' = posted /\ pictures' = pictures /\ shownSerial' = shownSerial
        /\ picture' = None /\ inSight' = inSight /\ destroying = "no"
    BY <1>6 DEF Panel!LeavePhoto
  <2> QED  BY <2>1, EmptyPanel
<1>7. CASE Panel!Hide
  <2>1. /\ Panel!Empty /\ posted' = posted /\ pictures' = pictures /\ shownSerial' = shownSerial
        /\ picture' = picture /\ inSight' = FALSE /\ destroying = "no"
    BY <1>7 DEF Panel!Hide
  <2> QED  BY <2>1, EmptyPanel
<1>8. CASE Panel!ShowHistogram
  <2> DEFINE count == posted[1].count
  <2>1. /\ destroying = "no" /\ posted # <<>> /\ posted' = Tail(posted) /\ Head(posted) = posted[1]
        /\ \/ UNCHANGED <<shownSerial, shown>>
           \/ /\ count.generation = generation /\ ~(count.serial < shownSerial)
              /\ shownSerial' = count.serial
              /\ shown' = [picture |-> count.picture, codes |-> posted[1].codes]
        /\ UNCHANGED <<Panel!counter, pictures, picture, inSight, lastMeasured>>
    BY <1>2, <1>8 DEF Panel!ShowHistogram
  <2>2. /\ next' = next /\ lastSerial' = lastSerial /\ generation' = generation
        /\ abandon' = abandon /\ counting' = counting /\ codes' = codes
        /\ destroying' = destroying /\ finished' = finished
        /\ pictures' = pictures /\ picture' = picture /\ inSight' = inSight
        /\ lastMeasured' = lastMeasured
    BY <2>1 DEF Panel!counter
  <2>3. /\ posted' \in Seq(Reports) /\ 1 \in 1 .. Len(posted) /\ Len(posted') = Len(posted) - 1
        /\ \A i \in 1 .. Len(posted') : i + 1 \in 1 .. Len(posted) /\ posted'[i] = posted[i + 1]
    BY <1>2, <2>1
  <2>4. count \in Counts /\ posted[1] \in Reports /\ WasSubmitted(count)
    BY <1>1, <2>3 DEF PanelInv, CountsHold
  <2>5. ASSUME NEW other \in Counts, WasSubmitted(other) PROVE WasSubmitted(other)'
    BY <2>2, <2>5 DEF WasSubmitted
  <2>6. count.generation = generation => posted[1].codes = "all"
    BY <2>1, <2>3, <2>4 DEF PanelInv, PartsAreOfBefore, Reports
  <2> HIDE DEF count
  <2>7. shownSerial' \in Nat /\ shown' \in [picture : Nat, codes : {"all", "part"}] \cup {None}
    <3>1. CASE UNCHANGED <<shownSerial, shown>>
      BY <3>1 DEF PanelInv, PanelTyped
    <3>2. CASE shownSerial' = count.serial
               /\ shown' = [picture |-> count.picture, codes |-> posted[1].codes]
      BY <2>4, <3>2 DEF Counts, Reports
    <3> QED  BY <2>1, <3>1, <3>2
  <2>8. PanelTyped'
    BY <2>2, <2>3, <2>7 DEF PanelInv, PanelTyped
  <2>9. CountsHold'
    BY <1>1, <2>2, <2>3, <2>5 DEF PanelInv, PanelTyped, CountsHold
  <2>10. PartsAreOfBefore'
    BY <2>2, <2>3 DEF PanelInv, PartsAreOfBefore
  <2>11. ShownHolds' /\ MeasuredHolds'
    <3>1. CASE UNCHANGED <<shownSerial, shown>>
      BY <2>2, <3>1 DEF PanelInv, ShownHolds, MeasuredHolds
    <3>2. CASE /\ count.generation = generation /\ ~(count.serial < shownSerial)
               /\ shownSerial' = count.serial
               /\ shown' = [picture |-> count.picture, codes |-> posted[1].codes]
      <4>1. shown'.codes = "all" /\ shown'.picture = count.picture /\ shown' # None
        BY <2>4, <2>6, <3>2, BoundsAssumption DEF Counts, Reports
      <4>2. /\ inSight /\ picture # None /\ count.picture <= picture /\ count.serial <= lastSerial
            /\ count.serial = lastSerial => count.picture = lastMeasured
        BY <2>4, <3>2 DEF WasSubmitted
      <4>3. ShownHolds'
        BY <2>2, <4>1, <4>2 DEF ShownHolds
      <4>4. MeasuredHolds'
        BY <2>2, <3>2, <4>1, <4>2 DEF PanelInv, MeasuredHolds
      <4> QED  BY <4>3, <4>4
    <3> QED  BY <2>1, <3>1, <3>2
  <2> QED  BY <2>8, <2>9, <2>10, <2>11 DEF PanelInv
<1> DEFINE PanelStays ==
             /\ pictures' = pictures /\ picture' = picture /\ inSight' = inSight
             /\ lastMeasured' = lastMeasured /\ shownSerial' = shownSerial /\ shown' = shown
<1>9. ASSUME PanelStays, lastSerial' = lastSerial, generation' = generation,
             NEW count \in Counts, WasSubmitted(count)
      PROVE  WasSubmitted(count)'
  BY <1>9 DEF WasSubmitted
<1>10. ASSUME PanelStays, shown # None PROVE ShownHolds'
  BY <1>10 DEF PanelInv, ShownHolds
<1>11. CASE Panel!Destroy
  <2>1. PanelStays
    BY <1>11 DEF Panel!Destroy, Panel!panel
  <2>2. /\ lastSerial' = lastSerial /\ generation' = generation /\ counting' = counting
        /\ codes' = codes /\ finished' = finished /\ posted' = posted
        /\ destroying' \in {"abandoned", "stopped"}
        /\ \/ next' = None /\ abandon' = TRUE
           \/ next' = next /\ abandon' = abandon
    BY <1>11 DEF Panel!Destroy, Panel!Counter!AbandonAll, Panel!Counter!RequestStop
  <2>3. abandon' \in BOOLEAN
    BY Zenon, <2>2 DEF PanelInv, PanelTyped
  <2>4. PanelTyped'
    BY <2>1, <2>2, <2>3 DEF PanelInv, PanelTyped
  <2>5. CountsHold'
    BY <1>1, <1>9, <2>1, <2>2 DEF PanelInv, PanelTyped, CountsHold
  <2>6. PartsAreOfBefore' /\ ShownHolds' /\ MeasuredHolds'
    BY <2>1, <2>2 DEF PanelInv, PartsAreOfBefore, ShownHolds, MeasuredHolds
  <2> QED  BY <2>4, <2>5, <2>6 DEF PanelInv
<1>12. CASE Panel!Counter!Take /\ UNCHANGED Panel!panel
  <2>1. PanelStays
    BY <1>12 DEF Panel!panel
  <2>2. /\ counting = None /\ next # None /\ counting' = next /\ next' = None /\ abandon' = FALSE
        /\ lastSerial' = lastSerial /\ generation' = generation /\ codes' = codes
        /\ destroying' = destroying /\ finished' = finished /\ posted' = posted
    BY <1>12 DEF Panel!Counter!Take
  <2>3. abandon' \in BOOLEAN
    BY Zenon, <2>2
  <2>4. PanelTyped'
    BY <2>1, <2>2, <2>3 DEF PanelInv, PanelTyped
  <2>5. CountsHold'
    BY <1>1, <1>9, <2>1, <2>2 DEF PanelInv, PanelTyped, CountsHold
  <2>6. PartsAreOfBefore' /\ ShownHolds' /\ MeasuredHolds'
    BY <2>1, <2>2 DEF PanelInv, PartsAreOfBefore, ShownHolds, MeasuredHolds, CountsHold
  <2> QED  BY <2>4, <2>5, <2>6 DEF PanelInv
<1>13. CASE (\E result \in {"all", "part", "failed"} : Panel!Counter!Count(result))
            /\ UNCHANGED Panel!panel
  <2>1. PanelStays
    BY <1>13 DEF Panel!panel
  <2>2. PICK result \in {"all", "part", "failed"} : Panel!Counter!Count(result)
    BY <1>13
  <2>3. /\ counting # None /\ codes' = result /\ (result = "part" => abandon)
        /\ next' = next /\ lastSerial' = lastSerial /\ generation' = generation
        /\ abandon' = abandon /\ counting' = counting /\ destroying' = destroying
        /\ finished' = finished /\ posted' = posted
    BY <2>2 DEF Panel!Counter!Count
  <2>4. PanelTyped'
    BY <2>1, <2>3 DEF PanelInv, PanelTyped
  <2>5. CountsHold'
    BY <1>1, <1>9, <2>1, <2>3 DEF PanelInv, PanelTyped, CountsHold
  <2>6. PartsAreOfBefore' /\ ShownHolds' /\ MeasuredHolds'
    BY <2>1, <2>3 DEF PanelInv, PartsAreOfBefore, ShownHolds, MeasuredHolds
  <2> QED  BY <2>4, <2>5, <2>6 DEF PanelInv
<1>14. CASE Panel!Counter!Deliver /\ UNCHANGED Panel!panel
  <2>1. PanelStays
    BY <1>14 DEF Panel!panel
  <2> DEFINE report == [kind |-> "histogram", count |-> counting, codes |-> codes]
  <2>2. /\ codes # "none" /\ finished' = counting.serial /\ counting' = None /\ codes' = "none"
        /\ next' = next /\ lastSerial' = lastSerial /\ generation' = generation
        /\ abandon' = abandon /\ destroying' = destroying
        /\ posted' = posted \/ (codes # "failed" /\ posted' = Append(posted, report))
    BY <1>14 DEF Panel!Counter!Deliver
  <2>3. /\ counting # None /\ counting \in Counts /\ WasSubmitted(counting)
        /\ finished < counting.serial /\ counting.serial \in Nat
    BY <2>2 DEF PanelInv, PanelTyped, CountsHold, PartsAreOfBefore, Counts
  <2>4. codes # "failed" => report \in Reports
    BY <2>2, <2>3 DEF PanelInv, PanelTyped, Reports
  <2> DEFINE Holds(event) == /\ event \in Reports
                             /\ WasSubmitted(event.count)
                             /\ destroying = "no" /\ event.codes = "part" =>
                                    event.count.generation # generation
  <2>5. \A i \in 1 .. Len(posted) : Holds(posted[i])
    BY <1>1, <1>9, <2>1, <2>2 DEF PanelInv, CountsHold, PartsAreOfBefore
  <2>6. codes # "failed" => Holds(report)
    <3> SUFFICES ASSUME codes # "failed" PROVE Holds(report)
      OBVIOUS
    <3>1. report.count = counting /\ report.codes = codes /\ report \in Reports
      BY <2>4
    <3>2. destroying = "no" /\ codes = "part" => counting.generation # generation
      BY <2>3 DEF PanelInv, PartsAreOfBefore
    <3> QED  BY <2>3, <3>1, <3>2
  <2>7. posted' \in Seq(Reports) /\ \A i \in 1 .. Len(posted') : Holds(posted'[i])
    <3>1. CASE posted' = posted
      <4> HIDE DEF Holds
      <4> QED  BY <1>2, <2>5, <3>1
    <3>2. CASE codes # "failed" /\ posted' = Append(posted, report)
      <4> HIDE DEF Holds, report
      <4>1. /\ posted' \in Seq(Reports) /\ Len(posted') = Len(posted) + 1
            /\ \A i \in 1 .. Len(posted) : posted'[i] = posted[i]
            /\ posted'[Len(posted) + 1] = report
        BY <1>2, <2>4, <3>2
      <4>2. \A i \in 1 .. Len(posted') : i \in 1 .. Len(posted) \/ i = Len(posted) + 1
        BY <1>2, <4>1
      <4> QED  BY <2>5, <2>6, <3>2, <4>1, <4>2
    <3> QED  BY <2>2, <3>1, <3>2
  <2> HIDE DEF report
  <2>8. PanelTyped'
    BY <2>1, <2>2, <2>3, <2>7 DEF PanelInv, PanelTyped
  <2>9. CountsHold'
    <3>1. next # None => /\ WasSubmitted(next)' /\ next.serial = lastSerial
                         /\ counting.serial < lastSerial
      BY <1>9, <2>1, <2>2, <2>3 DEF PanelInv, PanelTyped, CountsHold
    <3>2. counting.serial <= lastSerial
      BY <2>3 DEF WasSubmitted
    <3>3. \A i \in 1 .. Len(posted') : posted'[i] \in Reports /\ WasSubmitted(posted'[i].count)
      BY <2>7
    <3>4. (\A i \in 1 .. Len(posted) : WasSubmitted(posted[i].count))'
      <4> SUFFICES ASSUME NEW i \in 1 .. Len(posted') PROVE WasSubmitted(posted[i].count)'
        OBVIOUS
      <4>1. WasSubmitted(posted'[i].count)
        BY <3>3
      <4> QED  BY <2>1, <2>2, <4>1 DEF WasSubmitted
    <3> QED  BY <2>2, <2>3, <3>1, <3>2, <3>4 DEF CountsHold
  <2>10. PartsAreOfBefore'
    BY <2>2, <2>7 DEF PartsAreOfBefore
  <2>11. ShownHolds' /\ MeasuredHolds'
    <3>1. counting.serial <= lastSerial
      BY <2>3 DEF WasSubmitted
    <3> QED  BY <1>2, <2>1, <2>2, <2>3, <3>1 DEF PanelInv, ShownHolds, MeasuredHolds
  <2> QED  BY <2>8, <2>9, <2>10, <2>11 DEF PanelInv
<1>15. CASE UNCHANGED Panel!vars
  BY <1>15 DEF Panel!vars, Panel!counter, Panel!panel, PanelInv, PanelTyped, CountsHold,
               WasSubmitted, PartsAreOfBefore, ShownHolds, MeasuredHolds
<1> QED  BY <1>4, <1>5, <1>6, <1>7, <1>8, <1>11, <1>12, <1>13, <1>14, <1>15
         DEF Panel!Next, Panel!CounterStep, Panel!Counter!Thread

(* Nothing is on screen. *)
LEMMA PanelStarts == Panel!Init => PanelInv
<1> SUFFICES ASSUME Panel!Init PROVE PanelInv
  OBVIOUS
<1>1. /\ next = None /\ lastSerial = 0 /\ generation = 0 /\ abandon = FALSE /\ counting = None
      /\ codes = "none" /\ destroying = "no" /\ finished = 0 /\ posted = <<>> /\ pictures = 0
      /\ picture = None /\ inSight = FALSE /\ lastMeasured = None /\ shownSerial = 0
      /\ shown = None
  BY DEF Panel!Init, Panel!Counter!Init
<1>2. posted \in Seq(Reports) /\ Len(posted) = 0 /\ \A i \in 1 .. 0 : FALSE
  BY <1>1
<1>3. abandon \in BOOLEAN /\ inSight \in BOOLEAN
  BY Zenon, <1>1
<1>4. PanelTyped
  BY <1>1, <1>2, <1>3 DEF PanelTyped
<1> QED  BY <1>1, <1>2, <1>4
         DEF PanelInv, CountsHold, PartsAreOfBefore, ShownHolds, MeasuredHolds

(* The panel shows whole counts of a picture of the open photograph; at rest, of the one on screen:
   what was being counted or on its way when it was emptied never shows. *)
THEOREM HistogramStaysOfShown == Panel!Spec => []HistogramIsOfShown
<1>1. Panel!Init => PanelInv
  BY PanelStarts
<1>2. PanelInv => HistogramIsOfShown
  <2> SUFFICES ASSUME PanelInv PROVE HistogramIsOfShown
    OBVIOUS
  <2>1. None \notin Nat
    BY BoundsAssumption
  <2> QED  BY <2>1 DEF PanelInv, PanelTyped, ShownHolds, MeasuredHolds, HistogramIsOfShown,
                       Panel!HistogramIsOfShown, Panel!Counted
<1> QED  BY <1>1, <1>2, PanelNext, PTL DEF Panel!Spec

-----------------------------------------------------------------------------
(* The renderer, under calls in any order. *)

RendererTyped ==
    /\ source \in Loader!Decodes \cup {None}
    /\ sourceChanged \in BOOLEAN /\ cancelsShown \in BOOLEAN
    /\ wanted \in BOOLEAN /\ recount \in BOOLEAN
    /\ pending \in Requests \cup {None}
    /\ channel \in Channels \cup {None}
    /\ lastRequest \in Nat
    /\ stopping \in {"no", "requested", "cancelled"}
    /\ at \in {"wait", "start", "render", "standIn", "level0", "pause", "fallback",
              "renderFallback", "check", "startCount", "count", "ended"}
    /\ job \in Jobs \cup {None} /\ lastShown \in Jobs \cup {None}
    /\ background \in Images \cup {None} /\ counted \in Images \cup {None}
    /\ backgroundFor \in [source : Loader!Decodes \cup {None}, look : Looks \cup {None}]
    /\ uncounted \in Nat

(* A request is being rendered, or has been and the renderer uses the pause after it. *)
Rendering == at \in {"start", "render", "standIn", "level0"}

Pausing == at \in {"pause", "fallback", "renderFallback", "check", "startCount", "count"}

(* What the worker holds where; whatever it keeps is of one source, that of backgroundFor. *)
PlaceHolds ==
    /\ job = None <=> at \in {"wait", "ended"}
    /\ channel # None <=> at \in {"render", "standIn", "level0", "renderFallback", "count"}
    /\ Pausing => job = lastShown
    /\ job # None => job.source = backgroundFor.source
    /\ lastShown # None => lastShown.source = backgroundFor.source
    /\ background # None => background.source = backgroundFor.source
    /\ at \in {"check", "startCount", "count"} => backgroundFor.look = job.look

(* The request that waits is the newest, and newer than what the worker has. *)
RequestsHold ==
    /\ pending # None => pending.id = lastRequest /\ source # None
    /\ cancelsShown => pending # None
    /\ job # None => job.id <= lastRequest /\ (pending # None => job.id < lastRequest)
    /\ lastShown # None => lastShown.id <= lastRequest /\ (pending # None => lastShown.id < lastRequest)
    /\ Rendering /\ lastShown # None => lastShown.id < job.id
    /\ ~sourceChanged => backgroundFor.source \in {None, source}

(* Work is cancelled only for a newer request, another source or the end; and then it is. *)
CancelsHold ==
    /\ channel # None /\ channel.cancelled =>
           job.id < lastRequest \/ sourceChanged \/ stopping # "no"
    /\ stopping = "cancelled" /\ channel # None => channel.cancelled

(* A worker that waits has used the pause after the newest request. *)
PauseHolds ==
    /\ at = "wait" /\ stopping = "no" /\ ~recount /\ ~sourceChanged
    /\ lastShown # None /\ lastShown.id = lastRequest
    => /\ backgroundFor.look = lastShown.look
       /\ wanted /\ uncounted # lastShown.id =>
              counted = [source |-> source, look |-> lastShown.look]

RendererInv == RendererTyped /\ PlaceHolds /\ RequestsHold /\ CancelsHold /\ PauseHolds

(* None is no pixels, no picture and no request. *)
LEMMA NoneApart ==
    /\ None \notin Loader!Decodes /\ None \notin Looks /\ None \notin Options
    /\ None \notin Images /\ None \notin Requests /\ None \notin Jobs
    /\ None \notin Channels /\ None \notin Flights /\ None \notin Redecodes /\ None \notin Shown
BY NoneAssumption

(* A cancel changes nothing else of a channel. *)
LEMMA CancelledChannel ==
    ASSUME NEW of \in Channels \cup {None}
    PROVE  /\ Renderer!Cancelled(of) \in Channels \cup {None}
           /\ Renderer!Cancelled(of) # None <=> of # None
           /\ of # None => /\ Renderer!Cancelled(of).cancelled = TRUE
                           /\ Renderer!Cancelled(of).shown = of.shown
BY NoneApart DEF Renderer!Cancelled, Channels

(* setSource(), with other pixels or with none. *)
LEMMA SourceIsSet ==
    ASSUME RendererInv, NEW pixels \in Loader!Decodes \cup {None}, pixels = None \/ pixels # source,
           Renderer!SetSource(pixels)
    PROVE  RendererInv'
<1>1. /\ source' = pixels /\ pending' = None /\ cancelsShown' = FALSE
      /\ sourceChanged' = (sourceChanged \/ pixels # source)
      /\ channel' = Renderer!Cancelled(channel)
      /\ wanted' = wanted /\ recount' = recount /\ lastRequest' = lastRequest
      /\ stopping' = stopping /\ at' = at /\ job' = job /\ uncounted' = uncounted
      /\ lastShown' = lastShown /\ background' = background /\ backgroundFor' = backgroundFor
      /\ counted' = counted
  BY DEF Renderer!SetSource, Renderer!kept
<1>2. /\ channel' \in Channels \cup {None} /\ (channel' # None <=> channel # None)
      /\ channel # None => channel'.cancelled = TRUE
  BY <1>1, CancelledChannel DEF RendererInv, RendererTyped
<1>3. sourceChanged' \in BOOLEAN /\ cancelsShown' \in BOOLEAN
  BY Zenon, <1>1
<1>4. RendererTyped'
  BY <1>1, <1>2, <1>3 DEF RendererInv, RendererTyped
<1>5. PlaceHolds'
  BY <1>1, <1>2 DEF RendererInv, PlaceHolds, Pausing
<1>6. ~sourceChanged' => ~sourceChanged /\ source' = source
  BY <1>1
<1>7. RequestsHold'
  BY <1>1, <1>6 DEF RendererInv, RequestsHold, Rendering
<1>8. channel # None /\ ~sourceChanged => source # None
  <2> SUFFICES ASSUME channel # None, ~sourceChanged PROVE source # None
    OBVIOUS
  <2>1. job # None /\ job.source = backgroundFor.source /\ backgroundFor.source \in {None, source}
    BY DEF RendererInv, PlaceHolds, RequestsHold
  <2>2. job.source # None
    BY <2>1, NoneApart DEF RendererInv, RendererTyped, Jobs
  <2> QED  BY <2>1, <2>2
<1>9. channel # None => sourceChanged'
  BY <1>1, <1>8
<1>10. CancelsHold'
  BY <1>1, <1>2, <1>9 DEF RendererInv, CancelsHold
<1>11. PauseHolds'
  BY <1>1, <1>6 DEF RendererInv, PauseHolds
<1> QED  BY <1>4, <1>5, <1>7, <1>10, <1>11 DEF RendererInv

(* request(). *)
LEMMA RequestIsMade ==
    ASSUME RendererInv, source # None, NEW of \in Looks, NEW whole \in BOOLEAN,
           NEW queue_ \in BOOLEAN, Renderer!Request(of, whole, queue_)
    PROVE  RendererInv'
<1>1. /\ lastRequest' = lastRequest + 1
      /\ pending' = [id |-> lastRequest + 1, look |-> of, whole |-> whole]
      /\ cancelsShown' = (cancelsShown \/ ~queue_)
      /\ channel' \in {channel, Renderer!Cancelled(channel)}
      /\ source' = source /\ sourceChanged' = sourceChanged /\ wanted' = wanted
      /\ recount' = recount /\ stopping' = stopping /\ at' = at /\ job' = job
      /\ uncounted' = uncounted /\ lastShown' = lastShown /\ background' = background
      /\ backgroundFor' = backgroundFor /\ counted' = counted
  BY DEF Renderer!Request, Renderer!kept
<1>2. /\ channel' \in Channels \cup {None} /\ (channel' # None <=> channel # None)
      /\ channel # None /\ channel.cancelled => channel'.cancelled
  BY <1>1, CancelledChannel DEF RendererInv, RendererTyped
<1>3. cancelsShown' \in BOOLEAN
  BY Zenon, <1>1
<1>4. lastRequest \in Nat /\ pending' \in Requests /\ pending'.id = lastRequest + 1 /\ pending' # None
  BY <1>1, NoneApart DEF RendererInv, RendererTyped, Requests
<1>5. RendererTyped'
  BY <1>1, <1>2, <1>3, <1>4 DEF RendererInv, RendererTyped
<1>6. PlaceHolds'
  BY <1>1, <1>2 DEF RendererInv, PlaceHolds, Pausing
<1>7. /\ job # None => job.id \in Nat /\ job.id <= lastRequest
      /\ lastShown # None => lastShown.id \in Nat /\ lastShown.id <= lastRequest
  BY DEF RendererInv, RendererTyped, RequestsHold, Jobs
<1>8. RequestsHold'
  BY <1>1, <1>4, <1>7 DEF RendererInv, RequestsHold, Rendering
<1>9. channel # None => job # None
  BY DEF RendererInv, PlaceHolds
<1>10. CancelsHold'
  BY <1>1, <1>2, <1>4, <1>7, <1>9 DEF RendererInv, CancelsHold
<1>11. PauseHolds'
  BY <1>1, <1>4, <1>7 DEF RendererInv, PauseHolds
<1> QED  BY <1>5, <1>6, <1>8, <1>10, <1>11 DEF RendererInv

(* The worker's loop. *)
LEMMA WorkerWorks ==
    ASSUME RendererInv, Renderer!Worker
    PROVE  RendererInv'
<1> USE DEF Rendering, Pausing
<1>1. /\ source \in Loader!Decodes \cup {None}
      /\ pending \in Requests \cup {None} /\ channel \in Channels \cup {None}
      /\ job \in Jobs \cup {None} /\ lastShown \in Jobs \cup {None}
      /\ lastRequest \in Nat /\ uncounted \in Nat
      /\ background \in Images \cup {None} /\ counted \in Images \cup {None}
      /\ backgroundFor \in [source : Loader!Decodes \cup {None}, look : Looks \cup {None}]
  BY DEF RendererInv, RendererTyped
<1>2. /\ None \notin Loader!Decodes /\ None \notin Looks /\ None \notin Images
      /\ None \notin Requests /\ None \notin Jobs /\ None \notin Channels
  BY NoneApart
<1>3. PlaceHolds /\ RequestsHold /\ CancelsHold /\ PauseHolds
  BY DEF RendererInv
<1>4. job # None => Renderer!Picture \in Images /\ Renderer!Picture.source = job.source
                        /\ Renderer!Picture.look = job.look
  BY <1>1 DEF Renderer!Picture, Jobs, Images
<1> DEFINE Calm == /\ source' = source /\ sourceChanged' = sourceChanged /\ wanted' = wanted
                   /\ pending' = pending /\ cancelsShown' = cancelsShown
                   /\ lastRequest' = lastRequest /\ stopping' = stopping
           Kept == /\ lastShown' = lastShown /\ background' = background
                   /\ backgroundFor' = backgroundFor /\ counted' = counted
(* A step of the loop that changes neither the requests nor what the worker keeps. *)
<1>5. ASSUME Calm, Kept, uncounted' = uncounted, recount' \in BOOLEAN,
             channel' \in Channels \cup {None}, job' \in Jobs \cup {None},
             at' \in {"wait", "start", "render", "standIn", "level0", "pause", "fallback",
                      "renderFallback", "check", "startCount", "count", "ended"}
      PROVE  RendererTyped'
  BY <1>5 DEF RendererInv, RendererTyped
<1>6. CASE Renderer!Exit
  <2>1. /\ Calm /\ Kept /\ uncounted' = uncounted /\ recount' = recount /\ channel' = channel
        /\ at' = "ended" /\ job' = None /\ at \in {"wait", "pause", "check"}
    BY <1>6 DEF Renderer!Exit, Renderer!Go, Renderer!shared, Renderer!kept, Renderer!WorkerOwn
  <2>2. RendererTyped'
    BY <1>1, <1>5, <2>1 DEF RendererInv, RendererTyped
  <2>3. PlaceHolds'
    BY <1>3, <2>1 DEF PlaceHolds
  <2>4. RequestsHold' /\ PauseHolds'
    BY <1>3, <2>1 DEF RequestsHold, PauseHolds
  <2>5. CancelsHold'
    BY <1>3, <2>1 DEF CancelsHold, PlaceHolds
  <2> QED  BY <2>2, <2>3, <2>4, <2>5 DEF RendererInv
<1>7. CASE Renderer!TakeRequest
  <2> DEFINE same == ~sourceChanged /\ source = backgroundFor.source
             linesUp == \/ backgroundFor.look = None
                        \/ backgroundFor.look.geometry = pending.look.geometry
  <2>1. /\ at = "wait" /\ stopping = "no" /\ pending # None
        /\ job' = [id |-> pending.id, look |-> pending.look, whole |-> pending.whole,
                   source |-> source]
        /\ lastShown' = (IF sourceChanged THEN None ELSE lastShown)
        /\ background' = (IF same /\ linesUp THEN background ELSE None)
        /\ backgroundFor' = [source |-> source,
                             look |-> IF same /\ linesUp THEN backgroundFor.look ELSE None]
        /\ counted' = (IF same THEN counted ELSE None)
        /\ pending' = None /\ cancelsShown' = FALSE /\ sourceChanged' = FALSE /\ at' = "start"
        /\ source' = source /\ channel' = channel /\ wanted' = wanted /\ recount' = recount
        /\ lastRequest' = lastRequest /\ stopping' = stopping /\ uncounted' = uncounted
    BY <1>7 DEF Renderer!TakeRequest, Renderer!Keep, Renderer!WorkerOwn
  <2> HIDE DEF same, linesUp
  <2>2. source \in Loader!Decodes /\ job = None /\ channel = None /\ pending.id = lastRequest
    BY <1>1, <1>3, <2>1 DEF PlaceHolds, RequestsHold
  <2>3. job' \in Jobs /\ job'.id = lastRequest /\ job'.source = source /\ job' # None
    BY <1>1, <1>2, <2>1, <2>2 DEF Requests, Jobs
  <2>4. /\ backgroundFor' \in [source : Loader!Decodes \cup {None}, look : Looks \cup {None}]
        /\ backgroundFor'.source = source
    BY <1>1, <2>1
  <2>5. /\ background' \in Images \cup {None} /\ counted' \in Images \cup {None}
        /\ lastShown' \in Jobs \cup {None}
    BY <1>1, <2>1
  <2>6. sourceChanged' \in BOOLEAN /\ cancelsShown' \in BOOLEAN
    BY Zenon, <2>1
  <2>7. RendererTyped'
    BY <2>1, <2>3, <2>4, <2>5, <2>6 DEF RendererInv, RendererTyped
  <2>8. background' # None => background' = background /\ source = backgroundFor.source
    BY <2>1 DEF same
  <2>9. lastShown' # None => lastShown' = lastShown /\ ~sourceChanged
    BY <2>1
  <2>10. lastShown' # None => lastShown'.source = source
    <3> SUFFICES ASSUME lastShown' # None PROVE lastShown.source = source
      BY <2>9
    <3>1. lastShown \in Jobs /\ lastShown.source = backgroundFor.source
      BY <1>1, <1>3, <2>9 DEF PlaceHolds
    <3>2. backgroundFor.source \in {None, source} /\ lastShown.source # None
      BY <1>2, <1>3, <2>9, <3>1 DEF RequestsHold, Jobs
    <3> QED  BY <3>1, <3>2
  <2>11. PlaceHolds'
    BY <1>3, <2>1, <2>2, <2>3, <2>4, <2>8, <2>10 DEF PlaceHolds
  <2>12. RequestsHold'
    BY <1>1, <1>3, <2>1, <2>2, <2>3, <2>4, <2>9 DEF RequestsHold
  <2>13. CancelsHold' /\ PauseHolds'
    BY <2>1, <2>2 DEF CancelsHold, PauseHolds
  <2> QED  BY <2>7, <2>11, <2>12, <2>13 DEF RendererInv
<1>8. CASE Renderer!TakeRecount
  <2>1. /\ at = "wait" /\ stopping = "no" /\ pending = None /\ (recount \/ sourceChanged)
        /\ \/ /\ recount /\ ~sourceChanged /\ lastShown # None /\ lastShown.source = source
              /\ job' = lastShown /\ at' = "pause"
           \/ /\ ~(recount /\ ~sourceChanged /\ lastShown # None /\ lastShown.source = source)
              /\ job' = job /\ at' = at
        /\ recount' = FALSE /\ sourceChanged' = FALSE
        /\ sourceChanged => /\ lastShown' = None /\ background' = None /\ counted' = None
                            /\ backgroundFor' = [source |-> None, look |-> None]
        /\ ~sourceChanged => Kept
        /\ source' = source /\ pending' = pending /\ cancelsShown' = cancelsShown
        /\ channel' = channel /\ wanted' = wanted /\ lastRequest' = lastRequest
        /\ stopping' = stopping /\ uncounted' = uncounted
    BY <1>8 DEF Renderer!TakeRecount, Renderer!kept, Renderer!WorkerOwn, Renderer!NoBackground
  <2>2. recount' \in BOOLEAN /\ sourceChanged' \in BOOLEAN
    BY Zenon, <2>1
  <2>3. job = None /\ channel = None
    BY <1>3, <2>1 DEF PlaceHolds
  <2>4. /\ lastShown' \in Jobs \cup {None} /\ background' \in Images \cup {None}
        /\ counted' \in Images \cup {None} /\ job' \in Jobs \cup {None}
        /\ backgroundFor' \in [source : Loader!Decodes \cup {None}, look : Looks \cup {None}]
        /\ at' \in {"wait", "pause"}
    BY <1>1, <2>1
  <2>5. RendererTyped'
    BY <2>1, <2>2, <2>4 DEF RendererInv, RendererTyped
  <2>6. CASE sourceChanged
    <3>1. job' = job /\ at' = at
      BY <2>1, <2>6
    <3>2. PlaceHolds' /\ RequestsHold' /\ CancelsHold' /\ PauseHolds'
      BY <1>3, <2>1, <2>3, <2>6, <3>1 DEF PlaceHolds, RequestsHold, CancelsHold, PauseHolds
    <3> QED  BY <2>5, <3>2 DEF RendererInv
  <2>7. CASE ~sourceChanged
    <3>1. recount /\ Kept
      BY <2>1, <2>7
    <3>2. lastShown # None => lastShown.source = source
      <4> SUFFICES ASSUME lastShown # None PROVE lastShown.source = source
        OBVIOUS
      <4>1. /\ lastShown \in Jobs /\ lastShown.source = backgroundFor.source
            /\ backgroundFor.source \in {None, source}
        BY <1>1, <1>3, <2>7 DEF PlaceHolds, RequestsHold
      <4>2. lastShown.source # None
        BY <1>2, <4>1 DEF Jobs
      <4> QED  BY <4>1, <4>2
    <3>3. CASE lastShown = None
      <4>1. job' = job /\ at' = at
        BY <2>1, <3>3
      <4> QED  BY <1>3, <2>1, <2>3, <2>5, <2>7, <3>1, <3>3, <4>1
               DEF RendererInv, PlaceHolds, RequestsHold, CancelsHold, PauseHolds
    <3>4. CASE lastShown # None
      <4>1. job' = lastShown /\ at' = "pause"
        BY <2>1, <2>7, <3>1, <3>2, <3>4
      <4>2. PlaceHolds'
        BY <1>3, <2>1, <2>3, <3>1, <3>4, <4>1 DEF PlaceHolds
      <4>3. RequestsHold' /\ CancelsHold' /\ PauseHolds'
        BY <1>3, <2>1, <2>3, <2>7, <3>1, <3>4, <4>1 DEF RequestsHold, CancelsHold, PauseHolds
      <4> QED  BY <2>5, <4>2, <4>3 DEF RendererInv
    <3> QED  BY <3>3, <3>4
  <2> QED  BY <2>6, <2>7
(* startChannel(). *)
<1>9. ASSUME NEW forShown \in BOOLEAN, Renderer!StartChannel(forShown), job # None, Calm
      PROVE  /\ channel' \in Channels /\ channel' # None
             /\ channel'.cancelled => job.id < lastRequest \/ sourceChanged \/ stopping # "no"
             /\ stopping # "no" => channel'.cancelled
  <2> DEFINE cancel == \/ IF forShown THEN cancelsShown ELSE pending # None
                       \/ source # job.source
                       \/ stopping # "no"
  <2>1. channel' = [shown |-> forShown, cancelled |-> cancel]
    BY <1>9 DEF Renderer!StartChannel
  <2>2. cancel \in BOOLEAN
    <3>1. cancelsShown \in BOOLEAN
      BY Zenon DEF RendererInv, RendererTyped
    <3> QED  BY Zenon, <3>1
  <2>3. cancel => job.id < lastRequest \/ sourceChanged \/ stopping # "no"
    <3>1. (IF forShown THEN cancelsShown ELSE pending # None) => pending # None
      BY <1>3 DEF RequestsHold
    <3>2. pending # None => job.id < lastRequest
      BY <1>3, <1>9 DEF RequestsHold
    <3>3. source # job.source => sourceChanged
      <4>1. job.source = backgroundFor.source /\ job.source # None
        BY <1>1, <1>2, <1>3, <1>9 DEF PlaceHolds, Jobs
      <4> QED  BY <1>3, <4>1 DEF RequestsHold
    <3> QED  BY Zenon, <3>1, <3>2, <3>3
  <2>4. stopping # "no" => cancel
    OBVIOUS
  <2> HIDE DEF cancel
  <2>5. channel' \in Channels /\ channel'.cancelled = cancel
    BY <1>9, <2>1, <2>2 DEF Channels
  <2> QED  BY <1>2, <2>3, <2>4, <2>5
<1>10. ASSUME Calm, Kept, uncounted' = uncounted, recount' = recount, job' = job, job # None,
              \E forShown \in BOOLEAN : Renderer!StartChannel(forShown),
              \/ at = "start" /\ at' = "render"
              \/ at = "fallback" /\ at' = "renderFallback"
              \/ at = "startCount" /\ at' = "count"
       PROVE  RendererInv'
  <2>1. /\ channel' \in Channels /\ channel' # None
        /\ channel'.cancelled => job.id < lastRequest \/ sourceChanged \/ stopping # "no"
        /\ stopping # "no" => channel'.cancelled
    BY <1>9, <1>10
  <2>2. RendererTyped'
    BY <1>1, <1>5, <1>10, <2>1 DEF RendererInv, RendererTyped
  <2>3. PlaceHolds'
    BY <1>3, <1>10, <2>1 DEF PlaceHolds
  <2>4. RequestsHold'
    BY <1>3, <1>10 DEF RequestsHold
  <2>5. CancelsHold'
    BY <1>10, <2>1 DEF CancelsHold
  <2>6. PauseHolds'
    BY <1>10 DEF PauseHolds
  <2> QED  BY <2>2, <2>3, <2>4, <2>5, <2>6 DEF RendererInv
<1>11. CASE Renderer!StartRender
  <2>1. /\ at = "start" /\ Renderer!StartChannel(TRUE) /\ at' = "render" /\ job' = job
        /\ Calm /\ Kept /\ recount' = recount /\ uncounted' = uncounted
    BY <1>11 DEF Renderer!StartRender, Renderer!Go, Renderer!kept, Renderer!WorkerOwn
  <2>2. job # None /\ TRUE \in BOOLEAN
    BY <1>3, <2>1 DEF PlaceHolds
  <2> QED  BY <1>10, <2>1, <2>2
<1>12. CASE Renderer!StartFallback
  <2>1. /\ at = "fallback" /\ Renderer!StartChannel(FALSE) /\ at' = "renderFallback" /\ job' = job
        /\ Calm /\ Kept /\ recount' = recount /\ uncounted' = uncounted
    BY <1>12 DEF Renderer!StartFallback, Renderer!Go, Renderer!kept, Renderer!WorkerOwn
  <2>2. job # None /\ FALSE \in BOOLEAN
    BY <1>3, <2>1 DEF PlaceHolds
  <2> QED  BY <1>10, <2>1, <2>2
<1>13. CASE Renderer!StartCount
  <2>1. /\ at = "startCount" /\ Renderer!StartChannel(FALSE) /\ at' = "count" /\ job' = job
        /\ Calm /\ Kept /\ recount' = recount /\ uncounted' = uncounted
    BY <1>13 DEF Renderer!StartCount, Renderer!Go, Renderer!kept, Renderer!WorkerOwn
  <2>2. job # None /\ FALSE \in BOOLEAN
    BY <1>3, <2>1 DEF PlaceHolds
  <2> QED  BY <1>10, <2>1, <2>2
<1>14. CASE Renderer!MakeStandIn \/ Renderer!DeliverStandIn
  <2>1. /\ at \in {"render", "standIn"} /\ at' \in {"standIn", "level0"} /\ job' = job
        /\ Calm /\ Kept /\ recount' = recount /\ uncounted' = uncounted /\ channel' = channel
    BY <1>14 DEF Renderer!MakeStandIn, Renderer!DeliverStandIn, Renderer!Go, Renderer!kept,
                 Renderer!WorkerOwn, Renderer!shared
  <2>2. RendererTyped'
    BY <1>1, <1>5, <2>1 DEF RendererInv, RendererTyped
  <2>3. PlaceHolds' /\ RequestsHold'
    BY <1>3, <2>1 DEF PlaceHolds, RequestsHold
  <2>4. CancelsHold' /\ PauseHolds'
    BY <1>3, <2>1 DEF CancelsHold, PauseHolds
  <2> QED  BY <2>2, <2>3, <2>4 DEF RendererInv
<1>15. CASE \E outcome \in {"none", "failure", "picture"} : Renderer!Render(outcome)
  <2>1. PICK outcome \in {"none", "failure", "picture"} : Renderer!Render(outcome)
    BY <1>15
  <2>2. /\ at \in {"render", "level0"} /\ channel' = None /\ Calm
        /\ recount' = recount /\ counted' = counted /\ uncounted' = uncounted
    BY <2>1 DEF Renderer!Render
  <2>3. job # None /\ job \in Jobs
    BY <1>1, <1>3, <2>2 DEF PlaceHolds
  <2>4. CASE outcome # "picture"
    <3>1. at' = "wait" /\ job' = None /\ Kept
      BY <2>1, <2>2, <2>4 DEF Renderer!Render, Renderer!Go
    <3>2. RendererTyped'
      BY <1>5, <2>2, <3>1 DEF RendererInv, RendererTyped
    <3>3. PlaceHolds' /\ RequestsHold' /\ CancelsHold'
      BY <1>3, <2>2, <3>1 DEF PlaceHolds, RequestsHold, CancelsHold
    <3>4. lastShown # None => lastShown.id # lastRequest
      BY <1>1, <1>3, <2>2, <2>3 DEF RequestsHold, Jobs
    <3>5. PauseHolds'
      BY <2>2, <3>1, <3>4 DEF PauseHolds
    <3> QED  BY <3>2, <3>3, <3>5 DEF RendererInv
  <2>5. CASE outcome = "picture"
    <3>1. /\ at' = "pause" /\ job' = job /\ lastShown' = job
          /\ background' = (IF job.whole THEN Renderer!Picture ELSE background)
          /\ backgroundFor' = (IF job.whole THEN [source |-> job.source, look |-> job.look]
                                            ELSE backgroundFor)
      BY <2>1, <2>5 DEF Renderer!Render, Renderer!Go
    <3>2. /\ background' \in Images \cup {None}
          /\ backgroundFor' \in [source : Loader!Decodes \cup {None}, look : Looks \cup {None}]
          /\ backgroundFor'.source = job.source
          /\ background' # None => background'.source = job.source
      BY <1>1, <1>3, <1>4, <2>3, <3>1 DEF PlaceHolds, Jobs
    <3>3. RendererTyped'
      BY <1>1, <2>2, <2>3, <3>1, <3>2 DEF RendererInv, RendererTyped
    <3>4. PlaceHolds'
      BY <2>2, <2>3, <3>1, <3>2 DEF PlaceHolds
    <3>5. RequestsHold'
      BY <1>3, <2>2, <2>3, <3>1, <3>2 DEF RequestsHold, PlaceHolds
    <3>6. CancelsHold' /\ PauseHolds'
      BY <2>2, <3>1 DEF CancelsHold, PauseHolds
    <3> QED  BY <3>3, <3>4, <3>5, <3>6 DEF RendererInv
  <2> QED  BY <2>4, <2>5
(* The pause ends for a newer request or another source. *)
<1>16. ASSUME job # None, lastShown = job, pending # None \/ source # job.source
       PROVE  lastShown.id # lastRequest \/ sourceChanged
  <2>1. job \in Jobs /\ job.source = backgroundFor.source /\ job.source # None
    BY <1>1, <1>2, <1>3, <1>16 DEF PlaceHolds, Jobs
  <2>2. pending # None => lastShown.id # lastRequest
    BY <1>1, <1>3, <1>16, <2>1 DEF RequestsHold, Jobs
  <2> QED  BY <1>3, <1>16, <2>1, <2>2 DEF RequestsHold
<1>17. CASE Renderer!Interrupted \/ Renderer!Pause
  <2>1. /\ at = "pause" /\ Calm /\ Kept /\ recount' = recount /\ uncounted' = uncounted
        /\ channel' = channel
        /\ \/ /\ pending # None \/ source # job.source
              /\ at' = "wait" /\ job' = None
           \/ at' = "check" /\ backgroundFor.look = job.look /\ job' = job
           \/ at' = "fallback" /\ job' = job
    BY <1>17 DEF Renderer!Interrupted, Renderer!Pause, Renderer!Go, Renderer!shared,
                 Renderer!kept, Renderer!WorkerOwn
  <2>2. job # None /\ lastShown = job /\ channel = None
    BY <1>3, <2>1 DEF PlaceHolds
  <2>3. RendererTyped'
    BY <1>1, <1>5, <2>1 DEF RendererInv, RendererTyped
  <2>4. PlaceHolds'
    BY <1>3, <2>1, <2>2 DEF PlaceHolds
  <2>5. RequestsHold' /\ CancelsHold'
    BY <1>3, <2>1, <2>2 DEF RequestsHold, CancelsHold
  <2>6. at' = "wait" => lastShown.id # lastRequest \/ sourceChanged
    BY <1>16, <2>1, <2>2
  <2>7. PauseHolds'
    BY <2>1, <2>6 DEF PauseHolds
  <2> QED  BY <2>3, <2>4, <2>5, <2>7 DEF RendererInv
<1>18. CASE \E outcome \in {"none", "failure", "picture"} : Renderer!RenderFallback(outcome)
  <2>1. PICK outcome \in {"none", "failure", "picture"} : Renderer!RenderFallback(outcome)
    BY <1>18
  <2>2. /\ at = "renderFallback" /\ channel' = None /\ Calm
        /\ recount' = recount /\ counted' = counted /\ uncounted' = uncounted
        /\ lastShown' = lastShown /\ (outcome = "none" => channel.cancelled)
    BY <2>1 DEF Renderer!RenderFallback
  <2>3. job # None /\ job \in Jobs /\ lastShown = job /\ channel # None
    BY <1>1, <1>3, <2>2 DEF PlaceHolds
  <2>4. CASE outcome = "none"
    <3>1. at' = "wait" /\ job' = None /\ background' = background
          /\ backgroundFor' = backgroundFor
      BY <2>1, <2>4 DEF Renderer!RenderFallback, Renderer!Go
    <3>2. RendererTyped'
      BY <1>1, <1>5, <2>2, <3>1 DEF RendererInv, RendererTyped
    <3>3. PlaceHolds' /\ RequestsHold' /\ CancelsHold'
      BY <1>3, <2>2, <3>1 DEF PlaceHolds, RequestsHold, CancelsHold
    <3>4. lastShown.id # lastRequest \/ sourceChanged \/ stopping # "no"
      BY <1>1, <1>3, <2>2, <2>3, <2>4 DEF CancelsHold, Jobs
    <3>5. PauseHolds'
      BY <2>2, <3>1, <3>4 DEF PauseHolds
    <3> QED  BY <3>2, <3>3, <3>5 DEF RendererInv
  <2>5. CASE outcome # "none"
    <3>1. /\ at' = "check" /\ job' = job
          /\ backgroundFor' = [source |-> backgroundFor.source, look |-> job.look]
          /\ background' = (IF outcome = "picture" THEN Renderer!Picture ELSE None)
      BY <2>1, <2>5 DEF Renderer!RenderFallback, Renderer!Go
    <3>2. /\ background' \in Images \cup {None}
          /\ backgroundFor' \in [source : Loader!Decodes \cup {None}, look : Looks \cup {None}]
          /\ backgroundFor'.source = backgroundFor.source /\ backgroundFor'.look = job.look
          /\ background' # None => background'.source = job.source
      BY <1>1, <1>4, <2>3, <3>1 DEF Jobs
    <3>3. RendererTyped'
      BY <1>1, <2>2, <2>3, <3>1, <3>2 DEF RendererInv, RendererTyped
    <3>4. PlaceHolds'
      BY <1>3, <2>2, <2>3, <3>1, <3>2 DEF PlaceHolds
    <3>5. RequestsHold' /\ CancelsHold' /\ PauseHolds'
      BY <1>3, <2>2, <2>3, <3>1, <3>2 DEF RequestsHold, CancelsHold, PauseHolds
    <3> QED  BY <3>3, <3>4, <3>5 DEF RendererInv
  <2> QED  BY <2>4, <2>5
<1>19. CASE Renderer!Check
  <2>1. /\ at = "check" /\ stopping = "no" /\ Calm /\ Kept /\ uncounted' = uncounted
        /\ channel' = channel
        /\ \/ /\ pending # None \/ source # job.source
              /\ at' = "wait" /\ job' = None /\ recount' = recount
           \/ /\ ~(pending # None \/ source # job.source) /\ recount' = FALSE
              /\ \/ wanted /\ at' = "startCount" /\ job' = job
                 \/ ~wanted /\ at' = "wait" /\ job' = None
    BY <1>19 DEF Renderer!Check, Renderer!Go, Renderer!kept, Renderer!WorkerOwn
  <2>2. job # None /\ lastShown = job /\ channel = None /\ backgroundFor.look = job.look
    BY <1>3, <2>1 DEF PlaceHolds
  <2>3. recount' \in BOOLEAN
    <3>1. recount \in BOOLEAN
      BY Zenon DEF RendererInv, RendererTyped
    <3>2. recount' = recount \/ recount' = FALSE
      BY <2>1
    <3> QED  BY Zenon, <3>1, <3>2
  <2>4. RendererTyped'
    BY <1>1, <1>5, <2>1, <2>3 DEF RendererInv, RendererTyped
  <2>5. PlaceHolds'
    BY <1>3, <2>1, <2>2 DEF PlaceHolds
  <2>6. RequestsHold' /\ CancelsHold'
    BY <1>3, <2>1, <2>2 DEF RequestsHold, CancelsHold
  <2>7. at' = "wait" => ~wanted \/ lastShown.id # lastRequest \/ sourceChanged
    BY <1>16, <2>1, <2>2
  <2>8. PauseHolds'
    BY <2>1, <2>2, <2>7 DEF PauseHolds
  <2> QED  BY <2>4, <2>5, <2>6, <2>8 DEF RendererInv
<1>20. CASE \E outcome \in {"none", "current", "failed", "counted"} : Renderer!Count(outcome)
  <2>1. PICK outcome \in {"none", "current", "failed", "counted"} : Renderer!Count(outcome)
    BY <1>20
  <2>2. /\ at = "count" /\ channel' = None /\ at' = "wait" /\ job' = None /\ Calm
        /\ recount' = recount /\ (outcome = "none" => channel.cancelled)
        /\ (outcome = "current" => counted = Renderer!Picture)
        /\ lastShown' = lastShown /\ background' = background /\ backgroundFor' = backgroundFor
        /\ counted' = (IF outcome = "counted" THEN Renderer!Picture ELSE counted)
        /\ uncounted' = (IF outcome = "failed" THEN job.id ELSE uncounted)
    BY <2>1 DEF Renderer!Count, Renderer!Go
  <2>3. /\ job # None /\ job \in Jobs /\ lastShown = job /\ channel # None
        /\ backgroundFor.look = job.look /\ backgroundFor.source = job.source
    BY <1>1, <1>3, <2>2 DEF PlaceHolds
  <2>4. counted' \in Images \cup {None} /\ uncounted' \in Nat
    BY <1>1, <1>4, <2>2, <2>3 DEF Jobs
  <2>5. RendererTyped'
    BY <2>2, <2>4 DEF RendererInv, RendererTyped
  <2>6. PlaceHolds' /\ RequestsHold' /\ CancelsHold'
    BY <1>3, <2>2 DEF PlaceHolds, RequestsHold, CancelsHold
  <2>7. outcome = "none" => lastShown.id # lastRequest \/ sourceChanged \/ stopping # "no"
    BY <1>1, <1>3, <2>2, <2>3 DEF CancelsHold, Jobs
  <2>8. ~sourceChanged => Renderer!Picture = [source |-> source, look |-> lastShown.look]
    <3>1. job.source # None
      BY <1>2, <2>3 DEF Jobs
    <3> QED  BY <1>3, <2>3, <3>1 DEF RequestsHold, Renderer!Picture
  <2>9. PauseHolds'
    BY <2>2, <2>3, <2>7, <2>8 DEF PauseHolds
  <2> QED  BY <2>5, <2>6, <2>9 DEF RendererInv
<1> QED  BY <1>6, <1>7, <1>8, <1>11, <1>12, <1>13, <1>14, <1>15, <1>17, <1>18, <1>19, <1>20
         DEF Renderer!Worker

(* The renderer before its first request. *)
LEMMA RendererStarts == Renderer!Init => RendererInv
<1> SUFFICES ASSUME Renderer!Init PROVE RendererInv
  OBVIOUS
<1>1. /\ source = None /\ sourceChanged = FALSE /\ pending = None /\ cancelsShown = FALSE
      /\ channel = None /\ wanted = FALSE /\ recount = FALSE /\ lastRequest = 0
      /\ stopping = "no" /\ at = "wait" /\ job = None /\ lastShown = None /\ background = None
      /\ backgroundFor = [source |-> None, look |-> None] /\ counted = None /\ uncounted = 0
  BY DEF Renderer!Init, Renderer!NoBackground
<1>2. /\ sourceChanged \in BOOLEAN /\ cancelsShown \in BOOLEAN
      /\ wanted \in BOOLEAN /\ recount \in BOOLEAN
  BY Zenon, <1>1
<1>3. RendererTyped
  BY <1>1, <1>2 DEF RendererTyped
<1> QED  BY <1>1, <1>3 DEF RendererInv, PlaceHolds, RequestsHold, CancelsHold, PauseHolds,
                           Rendering, Pausing

(* The renderer under calls in any order. *)
LEMMA RendererNext ==
    ASSUME RendererInv, [Renderer!Next]_(Renderer!vars)
    PROVE  RendererInv'
<1>1. CASE Renderer!Worker
  BY <1>1, WorkerWorks
<1>2. CASE \E pixels \in Renderer!Fresh \cup {None} : Renderer!SetSource(pixels)
  <2>1. PICK pixels \in Renderer!Fresh \cup {None} : Renderer!SetSource(pixels)
    BY <1>2
  <2>2. pixels \in Loader!Decodes \cup {None} /\ (pixels = None \/ pixels # source)
    BY <2>1 DEF Renderer!Fresh
  <2> QED  BY <2>1, <2>2, SourceIsSet
<1>3. CASE source # None /\ \E of \in Looks, whole, queue_ \in BOOLEAN :
                                Renderer!Request(of, whole, queue_)
  BY <1>3, RequestIsMade
<1>4. CASE stopping = "no" /\ \E now \in BOOLEAN : Renderer!SetCurveHistogramWanted(now)
  <2>1. PICK now \in BOOLEAN : Renderer!SetCurveHistogramWanted(now)
    BY <1>4
  <2>2. /\ wanted' = now /\ recount' = (recount \/ (now /\ ~wanted))
        /\ UNCHANGED <<source, sourceChanged, pending, cancelsShown, channel, lastRequest,
                       stopping, at, job, uncounted, lastShown, background, backgroundFor,
                       counted>>
    BY <2>1 DEF Renderer!SetCurveHistogramWanted, Renderer!kept
  <2>3. wanted' \in BOOLEAN /\ recount' \in BOOLEAN
    BY Zenon, <2>1, <2>2
  <2>4. RendererTyped'
    BY <2>2, <2>3 DEF RendererInv, RendererTyped
  <2>5. PlaceHolds' /\ RequestsHold' /\ CancelsHold'
    BY <2>2 DEF RendererInv, PlaceHolds, RequestsHold, CancelsHold, Rendering, Pausing
  <2>6. ~recount' => ~recount /\ (wanted' => wanted)
    BY Zenon, <2>2
  <2>7. PauseHolds'
    BY <2>2, <2>6 DEF RendererInv, PauseHolds
  <2> QED  BY <2>4, <2>5, <2>7 DEF RendererInv
<1>5. CASE Renderer!RequestStop \/ Renderer!CancelForStop
  <2>1. /\ stopping' \in {"requested", "cancelled"}
        /\ \/ channel' = channel /\ stopping' = "requested"
           \/ channel' = Renderer!Cancelled(channel)
        /\ UNCHANGED <<source, sourceChanged, pending, cancelsShown, wanted, recount,
                       lastRequest, at, job, uncounted, lastShown, background, backgroundFor,
                       counted>>
    BY <1>5 DEF Renderer!RequestStop, Renderer!CancelForStop, Renderer!kept
  <2>2. /\ channel' \in Channels \cup {None} /\ (channel' # None <=> channel # None)
        /\ channel # None /\ stopping' = "cancelled" => channel'.cancelled
    BY <2>1, CancelledChannel DEF RendererInv, RendererTyped
  <2>3. RendererTyped'
    BY <2>1, <2>2 DEF RendererInv, RendererTyped
  <2>4. PlaceHolds' /\ RequestsHold'
    BY <2>1, <2>2 DEF RendererInv, PlaceHolds, RequestsHold, Rendering, Pausing
  <2>5. CancelsHold' /\ PauseHolds'
    BY <2>1, <2>2 DEF RendererInv, CancelsHold, PauseHolds
  <2> QED  BY <2>3, <2>4, <2>5 DEF RendererInv
<1>6. CASE UNCHANGED Renderer!vars
  BY <1>6 DEF Renderer!vars, Renderer!unposted, Renderer!shared, Renderer!kept, RendererInv,
              RendererTyped, PlaceHolds, RequestsHold, CancelsHold, PauseHolds, Rendering, Pausing
<1> QED  BY <1>1, <1>2, <1>3, <1>4, <1>5, <1>6 DEF Renderer!Next, Renderer!Calls

(* What a newer request or another source interrupted is taken up again in the next pause, and a
   renderer that is closing renders nothing to its end. *)
THEOREM InterruptedIsResumed == Renderer!Spec => []RendererEnds
<1>1. Renderer!Init => RendererInv
  BY RendererStarts
<1>2. RendererInv => RendererEnds
  <2> SUFFICES ASSUME RendererInv PROVE RendererEnds
    OBVIOUS
  <2>1. Renderer!ClosingCancels
    BY DEF RendererInv, CancelsHold, Renderer!ClosingCancels
  <2>2. Renderer!PauseIsUsed
    <3> SUFFICES ASSUME Renderer!Resting, lastShown # None, lastShown.id = lastRequest
                 PROVE  /\ backgroundFor = [source |-> source, look |-> lastShown.look]
                        /\ wanted /\ uncounted # lastShown.id =>
                               counted = [source |-> source, look |-> lastShown.look]
      BY DEF Renderer!PauseIsUsed
    <3>1. at = "wait" /\ stopping = "no" /\ ~recount /\ ~sourceChanged
      BY DEF Renderer!Resting
    <3>2. lastShown \in Jobs /\ lastShown.source = backgroundFor.source
      BY DEF RendererInv, RendererTyped, PlaceHolds
    <3>3. lastShown.source # None
      BY <3>2, NoneApart DEF Jobs
    <3>4. backgroundFor.source = source
      BY <3>1, <3>2, <3>3 DEF RendererInv, RequestsHold
    <3>5. backgroundFor \in [source : Loader!Decodes \cup {None}, look : Looks \cup {None}]
      BY DEF RendererInv, RendererTyped
    <3> QED  BY <3>1, <3>4, <3>5 DEF RendererInv, PauseHolds
  <2> QED  BY <2>1, <2>2 DEF RendererEnds
<1> QED  BY <1>1, <1>2, RendererNext, PTL DEF Renderer!Spec
-----------------------------------------------------------------------------
(* The window of a photograph. *)

(* The events on their way to the window. *)
DecodeEvents == [kind : {"decoded"}, job : Loader!Decodes, decoded : BOOLEAN]

PictureEvents ==
    [kind : {"picture"}, id : Nat, image : Images, whole : BOOLEAN,
     background : Images \cup {None}, provisional : BOOLEAN]

FailureEvents == [kind : {"failure"}, id : Nat]

FallbackEvents == [kind : {"fallback"}, id : Nat, background : Images]

Events == DecodeEvents \cup PictureEvents \cup FailureEvents \cup FallbackEvents

At(kinds) == {i \in 1 .. Len(posted) : posted[i].kind \in kinds}

Decoded == At({"decoded"})

Results == At({"picture", "failure"})

Fallbacks == At({"fallback"})

(* The events that bring pixels onto the screen, and the pixels. *)
Carriers == At({"picture", "fallback"})

Pixels(event) == IF event.kind = "picture" THEN event.image.source ELSE event.background.source

(* The last result of a request. *)
Final(event) == event.kind = "picture" => ~event.provisional

WindowTyped ==
    /\ posted \in Seq(Events)
    /\ lastDecode \in Nat /\ delivered \in Nat /\ dropped \in Nat
    /\ waiting \in Loader!Decodes \cup {None}
    /\ inFlight \in Flights \cup {None}
    /\ opened \in Nat /\ open \in 0 .. opened
    /\ decoded \in Loader!Decodes \cup {None}
    /\ options \in Options \cup {None}
    /\ decodeRequest \in Nat
    /\ redecode \in Redecodes \cup {None}
    /\ failedOptions \in Options \cup {None}
    /\ firstRequest \in Nat /\ firstRequest <= lastRequest + 1
    /\ latestShown \in Nat /\ latestShown <= lastRequest
    /\ image \in Shown \cup {None}
    /\ beneath \in Images \cup {None}
    /\ zoomed \in BOOLEAN /\ provisional \in BOOLEAN /\ busy \in BOOLEAN
    /\ reporting \in BOOLEAN /\ landing \in BOOLEAN

(* The window does not close, has no use for the curve histogram, and gives the renderer the
   pixels it holds. *)
WindowAlone ==
    /\ stopping = "no"
    /\ ~wanted /\ ~recount
    /\ at \notin {"startCount", "count", "ended"}
    /\ source = decoded

(* The lane: what waits is the newest decode, and what was delivered is older than what it has. *)
LaneHolds ==
    /\ delivered <= lastDecode /\ dropped <= lastDecode
    /\ waiting # None => waiting.id = lastDecode /\ dropped < lastDecode /\ delivered < lastDecode
    /\ inFlight # None => delivered < inFlight.job.id /\ inFlight.job.id <= lastDecode
    /\ inFlight # None /\ waiting # None => inFlight.job.id < lastDecode
    /\ inFlight # None /\ inFlight.cancelled =>
           inFlight.job.id < lastDecode \/ dropped = lastDecode
    /\ \A i \in Decoded : posted[i].job.id <= delivered
    /\ \A i, j \in Decoded : i < j => posted[i].job.id < posted[j].job.id

(* Pixels that the window, the renderer or an event has. *)
Held(pixels) ==
    /\ pixels # None
    /\ \/ pixels = decoded
       \/ pixels = backgroundFor.source
       \/ image # None /\ pixels = image.source
       \/ \E i \in Carriers : pixels = Pixels(posted[i])

(* They came from decodes before those on their way, each from its own. *)
HeldAreOfBefore ==
    /\ \A pixels \in Loader!Decodes : Held(pixels) =>
           /\ pixels.id <= delivered
           /\ \A i \in Decoded : pixels.id < posted[i].job.id
           /\ pixels.document <= opened
    /\ \A one, other \in Loader!Decodes :
           Held(one) /\ Held(other) /\ one.id = other.id => one = other

(* The decode that the window awaits, or 0. *)
Awaited == IF decodeRequest # 0 THEN decodeRequest ELSE IF redecode # None THEN redecode.id ELSE 0

(* A decode under way or on its way is of a photograph that was opened; the one awaited is of the
   open one. *)
IsOfPhotograph(of) == of.document <= opened /\ (of.id = Awaited => of.document = open)

(* The awaited decode is the newest and on its way. *)
AwaitedComes ==
    /\ waiting # None => IsOfPhotograph(waiting)
    /\ inFlight # None => IsOfPhotograph(inFlight.job)
    /\ \A i \in Decoded : IsOfPhotograph(posted[i].job)
    /\ Awaited # 0 =>
           /\ Awaited = lastDecode /\ dropped < lastDecode
           /\ \/ waiting # None
              \/ inFlight # None /\ inFlight.job.id = lastDecode
              \/ \E i \in Decoded : posted[i].job.id = lastDecode

(* The photograph, its pixels, and what its negative waits for. *)
DocumentHolds ==
    /\ decoded # None => decoded.document = open
    /\ open = 0 => decoded = None /\ decodeRequest = 0
    /\ open # 0 /\ decoded = None => decodeRequest # 0
    /\ open # 0 => options \in Options /\ look \in Looks
    /\ decodeRequest # 0 => decoded = None
    /\ redecode # None => decoded # None /\ redecode.options = options /\ redecode.id # 0
    /\ failedOptions # None => redecode = None
    /\ decoded # None /\ redecode = None => options \in {decoded.options, failedOptions}
    /\ landing => decoded # None

(* Results come in the order of their requests, a stand-in before the picture. *)
Precedes(id, final, laterId, laterFinal) == id < laterId \/ (id = laterId /\ ~final /\ laterFinal)

(* The renderer is past a result. *)
Passed(id, final) ==
    /\ id <= lastRequest /\ (pending # None => id < lastRequest)
    /\ Rendering => id <= job.id /\ (id = job.id => at = "level0" /\ ~final)
    /\ Pausing => id <= job.id

ResultsInOrder ==
    /\ \A i \in Results :
           /\ Passed(posted[i].id, Final(posted[i]))
           /\ Precedes(latestShown, ~provisional, posted[i].id, Final(posted[i]))
    /\ \A i \in Fallbacks : Passed(posted[i].id, TRUE) /\ latestShown <= posted[i].id
    /\ Passed(latestShown, ~provisional)
    /\ \A i, j \in Results :
           i < j => Precedes(posted[i].id, Final(posted[i]), posted[j].id, Final(posted[j]))
    /\ \A i \in Results, j \in Fallbacks : i < j => posted[i].id <= posted[j].id
    /\ \A i \in Fallbacks, j \in Results : i < j => posted[i].id < posted[j].id

(* Of the open photograph are the results from its first request on. *)
OfOpen(id, pixels) == id >= firstRequest <=> pixels.document = open

LeftBehind ==
    /\ \A i \in Carriers : OfOpen(posted[i].id, Pixels(posted[i]))
    /\ job # None => OfOpen(job.id, job.source)
    /\ pending # None => pending.id >= firstRequest

(* Pixels on screen or on their way there are no newer than those the worker has, nor these than
   those the window has. *)
PixelsInOrder ==
    /\ \A i, j \in Carriers : i < j => Pixels(posted[i]).id <= Pixels(posted[j]).id
    /\ image # None => \A i \in Carriers : image.source.id <= Pixels(posted[i]).id
    /\ backgroundFor.source # None =>
           /\ \A i \in Carriers : Pixels(posted[i]).id <= backgroundFor.source.id
           /\ image # None => image.source.id <= backgroundFor.source.id
    /\ decoded # None =>
           /\ \A i \in Carriers : Pixels(posted[i]).id <= decoded.id
           /\ image # None => image.source.id <= decoded.id
           /\ backgroundFor.source # None => backgroundFor.source.id <= decoded.id

(* What lies beneath is of the pixels of the picture that is on screen by then. *)
Follows(id, pixels, i) ==
    \/ image # None /\ image.source = pixels
    \/ \E j \in Results : /\ j < i /\ posted[j].kind = "picture" /\ Final(posted[j])
                          /\ posted[j].id = id /\ posted[j].image.source = pixels

BeneathFollows ==
    /\ \A i \in Fallbacks :
           posted[i].id >= firstRequest => Follows(posted[i].id, Pixels(posted[i]), i)
    /\ Pausing /\ job.id >= firstRequest => Follows(job.id, job.source, Len(posted) + 1)
    /\ \A i \in Results : posted[i].kind = "picture" /\ posted[i].background # None =>
           posted[i].background.source = posted[i].image.source

(* The newest request has yet to be rendered, or its result to be shown. *)
Owed ==
    \/ pending # None
    \/ Rendering /\ job.id = lastRequest /\ ~sourceChanged
    \/ \E i \in Results : Final(posted[i]) /\ posted[i].id = lastRequest

BusyHolds ==
    /\ Awaited # 0 => busy
    /\ busy => Awaited # 0 \/ landing \/ Owed
    /\ decoded # None /\ ~landing =>
           /\ lastRequest >= firstRequest
           /\ Owed \/ (latestShown = lastRequest /\ ~provisional)

(* The newest request is of the pixels and the look of now. *)
IsNewest(pixels, of) == pixels = decoded /\ of = look

NewestHolds ==
    /\ image # None => image.id <= lastRequest
    /\ decoded # None /\ ~landing =>
           /\ pending # None => pending.look = look
           /\ job # None /\ job.id = lastRequest => IsNewest(job.source, job.look)
           /\ \A i \in Results : posted[i].kind = "picture" /\ posted[i].id = lastRequest =>
                  IsNewest(posted[i].image.source, posted[i].image.look)
           /\ image # None /\ image.id = lastRequest => IsNewest(image.source, image.look)

(* What the renderer keeps for what a pan uncovers is what lies beneath, or comes last. *)
BeneathHolds ==
    background # None /\ decoded # None /\ background.source = decoded =>
        \/ \E i \in Carriers : /\ posted[i].background = background
                               /\ \A k \in Carriers : k <= i
        \/ beneath = background /\ \A k \in Carriers : posted[k].id < firstRequest

WindowInv ==
    /\ RendererInv
    /\ WindowTyped
    /\ WindowAlone
    /\ LaneHolds
    /\ HeldAreOfBefore
    /\ AwaitedComes
    /\ DocumentHolds
    /\ ResultsInOrder
    /\ LeftBehind
    /\ PixelsInOrder
    /\ BeneathFollows
    /\ BusyHolds
    /\ NewestHolds
    /\ BeneathHolds
    /\ ShownIsOfOpenPhoto

-----------------------------------------------------------------------------
(* Decodes are numbered, and of photographs that are. *)
LEMMA DecodeFields ==
    ASSUME NEW of \in Loader!Decodes
    PROVE  of.id \in Nat /\ of.id # 0 /\ of.document \in Nat /\ of.document # 0
               /\ of.options \in Options /\ of # None
BY NoneApart, WindowAssumption DEF Loader!Decodes, Documents

(* The kinds of events and what each holds. *)
LEMMA EventFields ==
    ASSUME WindowTyped
    PROVE  /\ posted \in Seq(Events) /\ Len(posted) \in Nat
           /\ \A i \in Decoded : /\ posted[i] \in DecodeEvents /\ posted[i].job \in Loader!Decodes
                                 /\ i \in 1 .. Len(posted) /\ posted[i].kind = "decoded"
           /\ \A i \in Results : /\ posted[i] \in PictureEvents \cup FailureEvents
                                 /\ i \in 1 .. Len(posted) /\ posted[i].id \in Nat
                                 /\ posted[i].kind \in {"picture", "failure"}
                                 /\ posted[i].kind = "picture" <=> i \in Carriers
           /\ \A i \in Fallbacks : /\ posted[i] \in FallbackEvents /\ i \in Carriers
                                   /\ i \in 1 .. Len(posted) /\ posted[i].id \in Nat
                                   /\ posted[i].kind = "fallback"
                                   /\ posted[i].background \in Images
           /\ \A i \in Carriers : /\ i \in 1 .. Len(posted) /\ posted[i].id \in Nat
                                  /\ Pixels(posted[i]) \in Loader!Decodes
                                  /\ posted[i].background \in Images \cup {None}
                                  /\ i \in Results \/ i \in Fallbacks
                                  /\ i \in Results => /\ posted[i].kind = "picture"
                                                      /\ posted[i].image \in Images
                                                      /\ posted[i].image.source = Pixels(posted[i])
                                  /\ i \in Fallbacks => Pixels(posted[i]) = posted[i].background.source
           /\ \A i \in 1 .. Len(posted) :
                  \/ i \in Decoded /\ i \notin Results /\ i \notin Fallbacks /\ i \notin Carriers
                  \/ i \in Results /\ i \notin Decoded /\ i \notin Fallbacks
                  \/ i \in Fallbacks /\ i \notin Decoded /\ i \notin Results
<1>1. posted \in Seq(Events) /\ Len(posted) \in Nat
  BY DEF WindowTyped
<1>2. ASSUME NEW i \in 1 .. Len(posted)
      PROVE  posted[i] \in DecodeEvents \cup PictureEvents \cup FailureEvents \cup FallbackEvents
  BY <1>1, ElementOfSeq DEF Events
<1>3. ASSUME NEW i \in 1 .. Len(posted), posted[i].kind = "decoded"
      PROVE  posted[i] \in DecodeEvents /\ posted[i].job \in Loader!Decodes
  BY <1>2, <1>3 DEF DecodeEvents, PictureEvents, FailureEvents, FallbackEvents
<1>4. ASSUME NEW i \in 1 .. Len(posted), posted[i].kind = "picture"
      PROVE  /\ posted[i] \in PictureEvents /\ posted[i].id \in Nat /\ posted[i].image \in Images
             /\ posted[i].background \in Images \cup {None}
             /\ posted[i].image.source \in Loader!Decodes
             /\ Pixels(posted[i]) = posted[i].image.source
  BY <1>2, <1>4 DEF DecodeEvents, PictureEvents, FailureEvents, FallbackEvents, Pixels, Images
<1>5. ASSUME NEW i \in 1 .. Len(posted), posted[i].kind = "failure"
      PROVE  posted[i] \in FailureEvents /\ posted[i].id \in Nat
  BY <1>2, <1>5 DEF DecodeEvents, PictureEvents, FailureEvents, FallbackEvents
<1>6. ASSUME NEW i \in 1 .. Len(posted), posted[i].kind = "fallback"
      PROVE  /\ posted[i] \in FallbackEvents /\ posted[i].id \in Nat
             /\ posted[i].background \in Images
             /\ posted[i].background.source \in Loader!Decodes
             /\ Pixels(posted[i]) = posted[i].background.source
  BY <1>2, <1>6 DEF DecodeEvents, PictureEvents, FailureEvents, FallbackEvents, Pixels, Images
<1>7. ASSUME NEW i \in 1 .. Len(posted)
      PROVE  posted[i].kind \in {"decoded", "picture", "failure", "fallback"}
  BY <1>2 DEF DecodeEvents, PictureEvents, FailureEvents, FallbackEvents
<1> USE DEF Decoded, Results, Fallbacks, Carriers, At
<1>8. \A i \in Decoded : /\ posted[i] \in DecodeEvents /\ posted[i].job \in Loader!Decodes
                         /\ i \in 1 .. Len(posted) /\ posted[i].kind = "decoded"
  BY <1>3
<1>9. \A i \in Results : /\ posted[i] \in PictureEvents \cup FailureEvents
                         /\ i \in 1 .. Len(posted) /\ posted[i].id \in Nat
                         /\ posted[i].kind \in {"picture", "failure"}
                         /\ posted[i].kind = "picture" <=> i \in Carriers
  BY <1>4, <1>5
<1>10. \A i \in Fallbacks : /\ posted[i] \in FallbackEvents /\ i \in Carriers
                            /\ i \in 1 .. Len(posted) /\ posted[i].id \in Nat
                            /\ posted[i].kind = "fallback"
                            /\ posted[i].background \in Images
  BY <1>6
<1>11. \A i \in Carriers : /\ i \in 1 .. Len(posted) /\ posted[i].id \in Nat
                           /\ Pixels(posted[i]) \in Loader!Decodes
                           /\ posted[i].background \in Images \cup {None}
                           /\ i \in Results \/ i \in Fallbacks
                           /\ i \in Results => /\ posted[i].kind = "picture"
                                               /\ posted[i].image \in Images
                                               /\ posted[i].image.source = Pixels(posted[i])
                           /\ i \in Fallbacks => Pixels(posted[i]) = posted[i].background.source
  <2> SUFFICES ASSUME NEW i \in Carriers
               PROVE  /\ i \in 1 .. Len(posted) /\ posted[i].id \in Nat
                      /\ Pixels(posted[i]) \in Loader!Decodes
                      /\ posted[i].background \in Images \cup {None}
                      /\ i \in Results \/ i \in Fallbacks
                      /\ i \in Results => /\ posted[i].kind = "picture"
                                          /\ posted[i].image \in Images
                                          /\ posted[i].image.source = Pixels(posted[i])
                      /\ i \in Fallbacks => Pixels(posted[i]) = posted[i].background.source
    OBVIOUS
  <2>1. CASE posted[i].kind = "picture"
    BY <1>4, <2>1
  <2>2. CASE posted[i].kind = "fallback"
    BY <1>6, <2>2
  <2> QED  BY <2>1, <2>2
<1>12. \A i \in 1 .. Len(posted) :
           \/ i \in Decoded /\ i \notin Results /\ i \notin Fallbacks /\ i \notin Carriers
           \/ i \in Results /\ i \notin Decoded /\ i \notin Fallbacks
           \/ i \in Fallbacks /\ i \notin Decoded /\ i \notin Results
  BY <1>7
<1> QED  BY <1>1, <1>8, <1>9, <1>10, <1>11, <1>12

(* The first events are gone from the queue, if any is. *)
Shrinks(gone) ==
    /\ posted' \in Seq(Events)
    /\ Len(posted') = Len(posted) - gone
    /\ \A i \in 1 .. Len(posted') : posted'[i] = posted[i + gone]

(* No event comes or goes. *)
LEMMA QueueStays ==
    ASSUME WindowTyped, posted' = posted
    PROVE  Shrinks(0)
<1>1. posted \in Seq(Events) /\ Len(posted) \in Nat /\ \A i \in 1 .. Len(posted) : i + 0 = i
  BY DEF WindowTyped
<1> QED  BY <1>1 DEF Shrinks

(* The first event is taken. *)
LEMMA QueueShrinks ==
    ASSUME WindowTyped, posted # <<>>, posted' = Tail(posted)
    PROVE  Shrinks(1) /\ Event = posted[1] /\ 1 \in 1 .. Len(posted)
<1>1. posted \in Seq(Events)
  BY DEF WindowTyped
<1> QED  BY <1>1 DEF Shrinks, Event

(* What becomes of the kinds of events in a queue that shrinks. *)
LEMMA KindsShrink ==
    ASSUME WindowTyped, NEW gone \in {0, 1}, Shrinks(gone)
    PROVE  /\ \A i \in Decoded' : i + gone \in Decoded /\ posted'[i] = posted[i + gone]
           /\ \A i \in Results' : i + gone \in Results /\ posted'[i] = posted[i + gone]
           /\ \A i \in Fallbacks' : i + gone \in Fallbacks /\ posted'[i] = posted[i + gone]
           /\ \A i \in Carriers' : i + gone \in Carriers /\ posted'[i] = posted[i + gone]
           /\ \A i \in Decoded : i <= gone \/ (i - gone \in Decoded' /\ posted'[i - gone] = posted[i])
           /\ \A i \in Results : i <= gone \/ (i - gone \in Results' /\ posted'[i - gone] = posted[i])
           /\ \A i \in Carriers : i <= gone \/ (i - gone \in Carriers' /\ posted'[i - gone] = posted[i])
           /\ \A i \in Decoded' \cup Results' \cup Fallbacks' \cup Carriers' : i \in Int
           /\ \A i \in Decoded \cup Results \cup Fallbacks \cup Carriers : i \in Int /\ i >= 1
<1>1. posted \in Seq(Events) /\ posted' \in Seq(Events) /\ Len(posted) \in Nat /\ Len(posted') \in Nat
  BY DEF WindowTyped, Shrinks
<1>2. \A i \in 1 .. Len(posted') : i + gone \in 1 .. Len(posted) /\ i \in Int
          /\ posted'[i] = posted[i + gone]
  BY <1>1 DEF Shrinks
<1>3. \A i \in 1 .. Len(posted) :
          i <= gone \/ (i - gone \in 1 .. Len(posted') /\ (i - gone) + gone = i)
  BY <1>1 DEF Shrinks
<1>4. \A i \in 1 .. Len(posted) : i \in Int /\ i >= 1
  BY <1>1
<1> QED  BY <1>2, <1>3, <1>4 DEF Decoded, Results, Fallbacks, Carriers, At

(* An event joins the queue. *)
LEMMA QueueGrows ==
    ASSUME WindowTyped, NEW event \in Events, posted' = Append(posted, event)
    PROVE  /\ posted' \in Seq(Events) /\ Len(posted') = Len(posted) + 1 /\ Len(posted) \in Nat
           /\ posted'[Len(posted) + 1] = event
           /\ \A i \in 1 .. Len(posted) : posted'[i] = posted[i] /\ i < Len(posted) + 1
           /\ Decoded' = Decoded \cup (IF event.kind = "decoded" THEN {Len(posted) + 1} ELSE {})
           /\ Results' = Results \cup
                  (IF event.kind \in {"picture", "failure"} THEN {Len(posted) + 1} ELSE {})
           /\ Fallbacks' = Fallbacks \cup (IF event.kind = "fallback" THEN {Len(posted) + 1} ELSE {})
           /\ Carriers' = Carriers \cup
                  (IF event.kind \in {"picture", "fallback"} THEN {Len(posted) + 1} ELSE {})
<1>1. /\ posted' \in Seq(Events) /\ Len(posted') = Len(posted) + 1 /\ Len(posted) \in Nat
      /\ posted'[Len(posted) + 1] = event
      /\ \A i \in 1 .. Len(posted) : posted'[i] = posted[i]
  BY DEF WindowTyped
<1>2. \A i \in 1 .. Len(posted) : i < Len(posted) + 1
  BY <1>1
<1>3. 1 .. Len(posted') = 1 .. Len(posted) \cup {Len(posted) + 1}
  BY <1>1
<1>4. ASSUME NEW kinds
      PROVE  At(kinds)' = At(kinds) \cup (IF event.kind \in kinds THEN {Len(posted) + 1} ELSE {})
  <2>1. At(kinds)' = {i \in 1 .. Len(posted) \cup {Len(posted) + 1} : posted'[i].kind \in kinds}
    BY <1>3 DEF At
  <2> QED  BY <1>1, <2>1 DEF At
<1> QED  BY <1>1, <1>2, <1>4 DEF Decoded, Results, Fallbacks, Carriers

-----------------------------------------------------------------------------
(* Steps of the renderer. *)

(* What the renderer's steps leave alone. *)
WindowStays ==
    /\ lastDecode' = lastDecode /\ waiting' = waiting /\ inFlight' = inFlight
    /\ delivered' = delivered /\ dropped' = dropped
    /\ opened' = opened /\ open' = open /\ options' = options /\ look' = look
    /\ decoded' = decoded /\ decodeRequest' = decodeRequest /\ redecode' = redecode
    /\ failedOptions' = failedOptions /\ firstRequest' = firstRequest
    /\ latestShown' = latestShown /\ provisional' = provisional /\ zoomed' = zoomed
    /\ image' = image /\ beneath' = beneath /\ busy' = busy /\ reporting' = reporting
    /\ landing' = landing

(* Pixels held at most pass from one hand to another. *)
LEMMA HeldKept ==
    ASSUME WindowInv, WindowTyped',
           \A pixels \in Loader!Decodes : Held(pixels)' => Held(pixels),
           \A i \in Decoded' : \E k \in Decoded : posted'[i].job = posted[k].job,
           delivered' = delivered, opened' >= opened
    PROVE  HeldAreOfBefore'
<1>1. HeldAreOfBefore /\ opened \in Nat /\ opened' \in Nat
  BY DEF WindowInv, WindowTyped
<1>2. ASSUME NEW pixels \in Loader!Decodes, Held(pixels)'
      PROVE  /\ pixels.id <= delivered'
             /\ \A i \in Decoded' : pixels.id < posted'[i].job.id
             /\ pixels.document <= opened'
  <2>1. /\ pixels.id <= delivered
        /\ \A i \in Decoded : pixels.id < posted[i].job.id
        /\ pixels.document <= opened
    BY <1>1, <1>2 DEF HeldAreOfBefore
  <2> QED  BY <1>1, <2>1, DecodeFields
<1>3. \A one, other \in Loader!Decodes :
          Held(one)' /\ Held(other)' /\ one.id = other.id => one = other
  BY <1>1 DEF HeldAreOfBefore
<1> QED  BY <1>2, <1>3 DEF HeldAreOfBefore

(* What the renderer's steps do not touch. *)
LEMMA RendererCommon ==
    ASSUME WindowInv, RendererInv', WindowStays, wanted' = wanted, recount' = FALSE,
           stopping' = stopping, source' = source, lastRequest' = lastRequest,
           at' \notin {"startCount", "count", "ended"},
           backgroundFor'.source \in {backgroundFor.source, decoded, None},
           \/ posted' = posted
           \/ \E event \in PictureEvents \cup FailureEvents \cup FallbackEvents :
                  /\ posted' = Append(posted, event)
                  /\ event.kind \in {"picture", "fallback"} => Pixels(event) = backgroundFor.source
    PROVE  /\ RendererInv' /\ WindowTyped' /\ WindowAlone' /\ LaneHolds' /\ HeldAreOfBefore'
           /\ AwaitedComes' /\ DocumentHolds' /\ ShownIsOfOpenPhoto'
<1>1. /\ WindowTyped /\ WindowAlone /\ LaneHolds /\ HeldAreOfBefore /\ AwaitedComes
      /\ DocumentHolds /\ ShownIsOfOpenPhoto
  BY DEF WindowInv
<1>2. /\ posted' \in Seq(Events) /\ Decoded' = Decoded
      /\ \A i \in Decoded : posted'[i] = posted[i]
      /\ \A i \in Carriers' : \/ i \in Carriers /\ posted'[i] = posted[i]
                              \/ Pixels(posted'[i]) = backgroundFor.source
  <2>1. CASE posted' = posted
    BY <1>1, <2>1 DEF WindowTyped, Decoded, Carriers, At
  <2>2. CASE \E event \in PictureEvents \cup FailureEvents \cup FallbackEvents :
                 /\ posted' = Append(posted, event)
                 /\ event.kind \in {"picture", "fallback"} => Pixels(event) = backgroundFor.source
    <3>1. PICK event \in PictureEvents \cup FailureEvents \cup FallbackEvents :
                 /\ posted' = Append(posted, event)
                 /\ event.kind \in {"picture", "fallback"} => Pixels(event) = backgroundFor.source
      BY <2>2
    <3>2. event \in Events /\ event.kind # "decoded"
      BY <3>1 DEF Events, PictureEvents, FailureEvents, FallbackEvents
    <3>3. /\ posted' \in Seq(Events) /\ Decoded' = Decoded
          /\ \A i \in 1 .. Len(posted) : posted'[i] = posted[i]
          /\ posted'[Len(posted) + 1] = event
          /\ Carriers' = Carriers \cup
                  (IF event.kind \in {"picture", "fallback"} THEN {Len(posted) + 1} ELSE {})
      BY <1>1, <3>1, <3>2, QueueGrows
    <3>4. /\ \A i \in Decoded : i \in 1 .. Len(posted)
          /\ \A i \in Carriers : i \in 1 .. Len(posted)
      BY DEF Decoded, Carriers, At
    <3> QED  BY <3>1, <3>3, <3>4
  <2> QED  BY <2>1, <2>2
<1>3. /\ zoomed' \in BOOLEAN /\ provisional' \in BOOLEAN /\ busy' \in BOOLEAN
      /\ reporting' \in BOOLEAN /\ landing' \in BOOLEAN
  BY Zenon, <1>1 DEF WindowStays, WindowTyped
<1>4. WindowTyped'
  BY <1>1, <1>2, <1>3 DEF WindowTyped, WindowStays
<1>5. WindowAlone'
  BY <1>1 DEF WindowAlone, WindowStays
<1>6. LaneHolds'
  BY <1>1, <1>2 DEF LaneHolds, WindowStays
<1>7. HeldAreOfBefore'
  <2>1. \A pixels \in Loader!Decodes : Held(pixels)' => Held(pixels)
    BY <1>2, DecodeFields DEF Held, WindowStays
  <2> QED  BY <1>1, <1>2, <1>4, <2>1, HeldKept DEF WindowStays, WindowTyped
<1>8. Awaited' = Awaited
  BY DEF Awaited, WindowStays
<1>9. AwaitedComes'
  BY <1>1, <1>2, <1>8 DEF AwaitedComes, IsOfPhotograph, WindowStays
<1>10. DocumentHolds'
  BY <1>1 DEF DocumentHolds, WindowStays
<1>11. ShownIsOfOpenPhoto'
  BY <1>1 DEF ShownIsOfOpenPhoto, WindowStays
<1> QED  BY <1>4, <1>5, <1>6, <1>7, <1>9, <1>10, <1>11

(* Of the invariant, what the renderer's steps have to keep. *)
Ordered ==
    /\ ResultsInOrder /\ LeftBehind /\ PixelsInOrder /\ BeneathFollows
    /\ BusyHolds /\ NewestHolds /\ BeneathHolds

(* Steps that go on, or give up, with what the worker has. *)
LEMMA WorkerMoves ==
    ASSUME WindowInv, RendererInv', WindowStays, posted' = posted, lastRequest' = lastRequest,
           pending' = pending, sourceChanged' = sourceChanged, job' \in {job, None},
           Rendering' => Rendering /\ at # "level0" /\ job' = job,
           Pausing' => Pausing /\ job' = job,
           Rendering => Rendering' \/ job.id < lastRequest \/ sourceChanged,
           background' \in {background, None}, backgroundFor'.source = backgroundFor.source
    PROVE  Ordered'
<1>1. /\ ResultsInOrder /\ LeftBehind /\ PixelsInOrder /\ BeneathFollows /\ RendererTyped
      /\ BusyHolds /\ NewestHolds /\ BeneathHolds /\ WindowTyped /\ RendererInv
  BY DEF WindowInv, RendererInv
<1>2. Results' = Results /\ Fallbacks' = Fallbacks /\ Carriers' = Carriers
  BY DEF Results, Fallbacks, Carriers, At
<1>3. \A id, final : Passed(id, final) /\ id \in Nat => Passed(id, final)'
  BY <1>1 DEF Passed
<1>4. /\ \A i \in Results : posted[i].id \in Nat
      /\ \A i \in Fallbacks : posted[i].id \in Nat
      /\ latestShown \in Nat
  BY <1>1, EventFields DEF WindowTyped
<1>5. Owed => Owed'
  <2>1. CASE pending # None
    BY <2>1 DEF Owed
  <2>2. CASE Rendering /\ job.id = lastRequest /\ ~sourceChanged
    <3>1. job \in Jobs
      BY <1>1, <2>2, NoneApart DEF RendererInv, RendererTyped, PlaceHolds, Rendering
    <3>2. ~(job.id < lastRequest)
      BY <2>2, <3>1 DEF Jobs
    <3> QED  BY <2>2, <3>2 DEF Owed
  <2>3. CASE \E i \in Results : Final(posted[i]) /\ posted[i].id = lastRequest
    BY <1>2, <2>3 DEF Owed, Final
  <2> QED  BY <2>1, <2>2, <2>3 DEF Owed
<1>6. ResultsInOrder'
  <2>1. Passed(latestShown, ~provisional)'
    BY <1>1, <1>3, <1>4 DEF ResultsInOrder, Passed, WindowStays
  <2>2. \A i \in Results : Passed(posted[i].id, Final(posted[i]))'
    BY <1>1, <1>3, <1>4 DEF ResultsInOrder, Passed, Final
  <2>3. \A i \in Fallbacks : Passed(posted[i].id, TRUE)'
    BY <1>1, <1>3, <1>4 DEF ResultsInOrder, Passed
  <2> QED  BY <1>1, <1>2, <2>1, <2>2, <2>3 DEF ResultsInOrder, WindowStays, Precedes, Final
<1>7. LeftBehind'
  BY <1>1, <1>2 DEF LeftBehind, OfOpen, WindowStays, Pixels
<1>8. PixelsInOrder'
  BY <1>1, <1>2 DEF PixelsInOrder, WindowStays, Pixels
<1>9. BeneathFollows'
  BY <1>1, <1>2 DEF BeneathFollows, Follows, WindowStays, Pixels, Final
<1>10. BusyHolds'
  BY <1>1, <1>5 DEF BusyHolds, WindowStays, Awaited
<1>11. NewestHolds'
  BY <1>1, <1>2 DEF NewestHolds, IsNewest, WindowStays
<1>12. BeneathHolds'
  BY <1>1, <1>2 DEF BeneathHolds, WindowStays
<1> QED  BY <1>6, <1>7, <1>8, <1>9, <1>10, <1>11, <1>12 DEF Ordered

(* The worker takes the newest request, or notices that the source has changed. *)
LEMMA WorkerTakes ==
    ASSUME WindowInv, RendererInv', WindowStays, posted' = posted, lastRequest' = lastRequest,
           at = "wait", ~sourceChanged', background' \in {background, None},
           \/ /\ pending # None /\ pending' = None /\ at' = "start"
              /\ job' \in Jobs /\ job'.id = pending.id /\ job'.look = pending.look
              /\ job'.source = source /\ backgroundFor'.source = source
           \/ /\ pending = None /\ pending' = None /\ at' = "wait" /\ job' = job
              /\ backgroundFor'.source \in {None, backgroundFor.source}
    PROVE  Ordered'
<1>1. /\ ResultsInOrder /\ LeftBehind /\ PixelsInOrder /\ BeneathFollows /\ RendererTyped
      /\ BusyHolds /\ NewestHolds /\ BeneathHolds /\ WindowTyped /\ RequestsHold /\ WindowAlone
      /\ DocumentHolds /\ HeldAreOfBefore /\ PlaceHolds
  BY DEF WindowInv, RendererInv
<1>2. Results' = Results /\ Fallbacks' = Fallbacks /\ Carriers' = Carriers
  BY DEF Results, Fallbacks, Carriers, At
<1>3. job = None /\ ~Rendering /\ ~Pausing /\ ~Pausing' /\ lastRequest \in Nat
  BY <1>1 DEF PlaceHolds, Rendering, Pausing, RendererTyped
<1>4. CASE /\ pending # None /\ pending' = None /\ at' = "start"
           /\ job' \in Jobs /\ job'.id = pending.id /\ job'.look = pending.look
           /\ job'.source = source /\ backgroundFor'.source = source
  <2>1. /\ pending.id = lastRequest /\ source = decoded /\ decoded # None
        /\ decoded.document = open
    BY <1>1, <1>4 DEF RequestsHold, WindowAlone, DocumentHolds
  <2>2. \A id, final : id \in Nat /\ Passed(id, final) => Passed(id, final)'
    BY <1>3, <1>4, <2>1 DEF Passed, Rendering, Pausing
  <2>3. Owed'
    BY <1>4, <2>1 DEF Owed, Rendering
  <2>4. ResultsInOrder'
    <3>1. /\ \A i \in Results : posted[i].id \in Nat
          /\ \A i \in Fallbacks : posted[i].id \in Nat
          /\ latestShown \in Nat
      BY <1>1, EventFields DEF WindowTyped
    <3>2. Passed(latestShown, ~provisional)'
      BY <1>1, <2>2, <3>1 DEF ResultsInOrder, Passed, WindowStays
    <3>3. \A i \in Results : Passed(posted[i].id, Final(posted[i]))'
      BY <1>1, <2>2, <3>1 DEF ResultsInOrder, Passed, Final
    <3>4. \A i \in Fallbacks : Passed(posted[i].id, TRUE)'
      BY <1>1, <2>2, <3>1 DEF ResultsInOrder, Passed
    <3> QED  BY <1>1, <1>2, <3>2, <3>3, <3>4 DEF ResultsInOrder, WindowStays, Precedes, Final
  <2>5. LeftBehind'
    BY <1>1, <1>2, <1>4, <2>1 DEF LeftBehind, OfOpen, WindowStays, Pixels
  <2>6. PixelsInOrder'
    <3>1. backgroundFor'.source = decoded' /\ decoded' = decoded /\ decoded \in Loader!Decodes
          /\ decoded.id \in Nat
      BY <1>1, <1>4, <2>1, DecodeFields DEF WindowStays, WindowTyped
    <3> QED  BY <1>1, <1>2, <2>1, <3>1 DEF PixelsInOrder, WindowStays, Pixels
  <2>7. BeneathFollows'
    BY <1>1, <1>2, <1>3 DEF BeneathFollows, Follows, WindowStays, Pixels, Final
  <2>8. BusyHolds'
    BY <1>1, <2>3 DEF BusyHolds, WindowStays, Awaited
  <2>9. NewestHolds'
    BY <1>1, <1>2, <1>4, <2>1 DEF NewestHolds, IsNewest, WindowStays
  <2>10. BeneathHolds'
    BY <1>1, <1>2 DEF BeneathHolds, WindowStays
  <2> QED  BY <2>4, <2>5, <2>6, <2>7, <2>8, <2>9, <2>10 DEF Ordered
<1>5. CASE /\ pending = None /\ pending' = None /\ at' = "wait" /\ job' = job
           /\ backgroundFor'.source \in {None, backgroundFor.source}
  <2>1. ResultsInOrder'
    BY <1>1, <1>2, <1>3, <1>5 DEF ResultsInOrder, WindowStays, Passed, Precedes, Final, Rendering,
                                  Pausing
  <2>2. Owed => Owed'
    BY <1>2, <1>3, <1>5 DEF Owed, Final
  <2>3. LeftBehind' /\ PixelsInOrder' /\ BeneathFollows'
    BY <1>1, <1>2, <1>3, <1>5 DEF LeftBehind, OfOpen, PixelsInOrder, BeneathFollows, Follows,
                                  WindowStays, Pixels, Final
  <2>4. BusyHolds' /\ NewestHolds' /\ BeneathHolds'
    BY <1>1, <1>2, <1>3, <1>5, <2>2 DEF BusyHolds, NewestHolds, BeneathHolds, IsNewest,
                                        WindowStays, Awaited
  <2> QED  BY <2>1, <2>3, <2>4 DEF Ordered
<1> QED  BY <1>4, <1>5

(* The result of a render, or its stand-in, is posted. *)
LEMMA ResultPosts ==
    ASSUME WindowInv, RendererInv', WindowStays, lastRequest' = lastRequest, pending' = pending,
           sourceChanged' = sourceChanged, backgroundFor'.source = backgroundFor.source,
           NEW event \in PictureEvents \cup FailureEvents, posted' = Append(posted, event),
           event.id = job.id,
           event.kind = "picture" => /\ event.image.source = job.source
                                     /\ event.image.look = job.look
                                     /\ event.background = background',
           event.kind = "failure" => background' = background /\ at' = "wait",
           \/ at = "standIn" /\ ~Final(event) /\ at' = "level0" /\ job' = job
           \/ at \in {"render", "level0"} /\ Final(event) /\ at' = "wait" /\ job' = None
           \/ at \in {"render", "level0"} /\ Final(event) /\ at' = "pause" /\ job' = job
    PROVE  Ordered'
<1>1. /\ ResultsInOrder /\ LeftBehind /\ PixelsInOrder /\ BeneathFollows /\ RendererTyped
      /\ BusyHolds /\ NewestHolds /\ BeneathHolds /\ WindowTyped /\ RequestsHold /\ PlaceHolds
      /\ WindowAlone /\ DocumentHolds
  BY DEF WindowInv, RendererInv
<1>2. /\ Rendering /\ ~Pausing /\ job # None /\ job \in Jobs /\ job.id \in Nat
      /\ job.id <= lastRequest /\ (pending # None => job.id < lastRequest)
      /\ job.source = backgroundFor.source /\ job.source \in Loader!Decodes
      /\ job.source.id \in Nat
  <2>1. Rendering /\ ~Pausing /\ job # None
    BY <1>1 DEF Rendering, Pausing, PlaceHolds
  <2>2. job \in Jobs /\ job.id \in Nat /\ job.source \in Loader!Decodes
    BY <1>1, <2>1 DEF RendererTyped, Jobs
  <2> QED  BY <1>1, <2>1, <2>2, DecodeFields DEF RequestsHold, PlaceHolds
<1>3. event \in Events /\ event.kind \in {"picture", "failure"}
  BY DEF Events, PictureEvents, FailureEvents
<1> DEFINE last == Len(posted) + 1
<1>4. /\ last \in Nat /\ posted'[last] = event /\ Len(posted') = last
      /\ \A i \in 1 .. Len(posted) : posted'[i] = posted[i] /\ i < last
      /\ Results' = Results \cup {last} /\ Fallbacks' = Fallbacks
      /\ Carriers' = Carriers \cup (IF event.kind = "picture" THEN {last} ELSE {})
  BY <1>1, <1>3, QueueGrows
<1>5. /\ \A i \in Results : i \in 1 .. Len(posted) /\ posted[i].id \in Nat
      /\ \A i \in Fallbacks : i \in 1 .. Len(posted) /\ posted[i].id \in Nat
      /\ \A i \in Carriers : /\ i \in 1 .. Len(posted) /\ posted[i].id \in Nat
                             /\ Pixels(posted[i]) \in Loader!Decodes
      /\ latestShown \in Nat
  BY <1>1, EventFields DEF WindowTyped
<1> HIDE DEF last
<1>6. /\ \A i \in Results : posted'[i] = posted[i] /\ i < last /\ i \in Nat
      /\ \A i \in Fallbacks : posted'[i] = posted[i] /\ i < last /\ i \in Nat
      /\ \A i \in Carriers : posted'[i] = posted[i] /\ i < last /\ i \in Nat
  BY <1>4, <1>5
<1>7. lastRequest \in Nat
  BY <1>1 DEF RendererTyped
(* Whatever the worker has passed comes before the result of its job. *)
<1>8. ASSUME NEW id \in Nat, NEW final, Passed(id, final)
      PROVE  Passed(id, final)' /\ Precedes(id, final, job.id, Final(event))
  <2>1. id <= job.id /\ (id = job.id => at = "level0" /\ ~final)
    BY <1>2, <1>8 DEF Passed
  <2>2. Passed(id, final)'
    BY <1>8, <2>1 DEF Passed, Rendering, Pausing
  <2> QED  BY <1>2, <2>1, <2>2 DEF Precedes
<1>11. ResultsInOrder'
  <2>1. /\ \A i \in Results : /\ Passed(posted[i].id, Final(posted[i]))'
                              /\ Precedes(posted[i].id, Final(posted[i]), job.id, Final(event))
        /\ \A i \in Fallbacks : Passed(posted[i].id, TRUE)' /\ posted[i].id < job.id
        /\ Passed(latestShown, ~provisional)'
        /\ Precedes(latestShown, ~provisional, job.id, Final(event))
    <3>1. ASSUME NEW i \in Results
          PROVE  /\ Passed(posted[i].id, Final(posted[i]))'
                 /\ Precedes(posted[i].id, Final(posted[i]), job.id, Final(event))
      <4>1. Passed(posted[i].id, Final(posted[i]))
        BY <1>1 DEF ResultsInOrder
      <4>2. posted'[i] = posted[i]
        BY <1>6
      <4>3. PICK id, final : id = posted[i].id /\ final = Final(posted[i])
        OBVIOUS
      <4>4. id \in Nat /\ Passed(id, final)
        BY <1>5, <4>1, <4>3
      <4>5. Passed(id, final)' /\ Precedes(id, final, job.id, Final(event))
        BY <1>8, <4>4
      <4> QED  BY <4>2, <4>3, <4>5 DEF Passed, Final
    <3>2. ASSUME NEW i \in Fallbacks
          PROVE  Passed(posted[i].id, TRUE)' /\ posted[i].id < job.id
      <4>1. Passed(posted[i].id, TRUE)
        BY <1>1 DEF ResultsInOrder
      <4>2. posted'[i] = posted[i] /\ posted[i].id \in Nat
        BY <1>5, <1>6
      <4>3. PICK id : id = posted[i].id
        OBVIOUS
      <4>4. id \in Nat /\ Passed(id, TRUE)
        BY <4>1, <4>2, <4>3
      <4>5. Passed(id, TRUE)' /\ Precedes(id, TRUE, job.id, Final(event))
        BY <1>8, <4>4
      <4> QED  BY <4>2, <4>3, <4>5 DEF Passed, Precedes
    <3>3. /\ Passed(latestShown, ~provisional)'
          /\ Precedes(latestShown, ~provisional, job.id, Final(event))
      <4>1. Passed(latestShown, ~provisional)
        BY <1>1 DEF ResultsInOrder
      <4>2. PICK id, final : id = latestShown /\ final = ~provisional
        OBVIOUS
      <4>3. id \in Nat /\ Passed(id, final)
        BY <1>5, <4>1, <4>2
      <4>4. Passed(id, final)' /\ Precedes(id, final, job.id, Final(event))
        BY <1>8, <4>3
      <4> QED  BY <4>2, <4>4 DEF WindowStays, Passed
    <3> QED  BY <3>1, <3>2, <3>3
  <2>2. \A i \in Results' : Passed(posted[i].id, Final(posted[i]))'
    <3> SUFFICES ASSUME NEW i \in Results' PROVE Passed(posted[i].id, Final(posted[i]))'
      OBVIOUS
    <3>1. CASE i \in Results
      BY <2>1, <3>1
    <3>2. CASE i = last
      <4>1. posted'[i] = event
        BY <1>4, <3>2
      <4>2. job.id = posted'[i].id /\ Final(event) = Final(posted'[i])
        BY <4>1
      <4>3. Passed(event.id, Final(event))'
        BY <1>2, <1>7 DEF Passed, Rendering, Pausing
      <4> QED  BY <4>1, <4>3 DEF Passed, Final
    <3> QED  BY <1>4, <3>1, <3>2
  <2>3. \A i \in Results' :
            Precedes(latestShown', ~provisional', posted'[i].id, Final(posted'[i]))
    <3>1. \A i \in Results : Precedes(latestShown, ~provisional, posted[i].id, Final(posted[i]))
      BY <1>1 DEF ResultsInOrder
    <3> QED  BY <1>4, <1>6, <2>1, <3>1 DEF WindowStays
  <2>4. \A i \in Fallbacks' : Passed(posted[i].id, TRUE)' /\ latestShown' <= posted'[i].id
    BY <1>1, <1>4, <1>6, <2>1 DEF ResultsInOrder, WindowStays
  <2>5. ASSUME NEW i \in Results', NEW j \in Results', i < j
        PROVE  Precedes(posted'[i].id, Final(posted'[i]), posted'[j].id, Final(posted'[j]))
    <3>1. CASE i \in Results /\ j \in Results
      BY <1>1, <1>6, <2>5, <3>1 DEF ResultsInOrder
    <3>2. CASE i \in Results /\ j = last
      BY <1>4, <1>6, <2>1, <3>2
    <3>3. CASE i = last
      BY <1>4, <1>6, <2>5, <3>3
    <3> QED  BY <1>4, <3>1, <3>2, <3>3
  <2>6. \A i \in Results', j \in Fallbacks' : i < j => posted'[i].id <= posted'[j].id
    <3> SUFFICES ASSUME NEW i \in Results', NEW j \in Fallbacks', i < j
                 PROVE  posted'[i].id <= posted'[j].id
      OBVIOUS
    <3>1. j \in Fallbacks /\ j < last /\ j \in Nat
      BY <1>4, <1>6
    <3>2. i \in Results
      BY <1>4, <3>1
    <3> QED  BY <1>1, <1>6, <3>1, <3>2 DEF ResultsInOrder
  <2>7. \A i \in Fallbacks', j \in Results' : i < j => posted'[i].id < posted'[j].id
    BY <1>1, <1>4, <1>6, <2>1 DEF ResultsInOrder
  <2> QED  BY <2>1, <2>2, <2>3, <2>4, <2>5, <2>6, <2>7 DEF ResultsInOrder, Precedes, Final
<1>12. event.kind = "picture" => Pixels(event) = job.source
  BY DEF Pixels
<1>13. LeftBehind'
  <2>1. \A i \in Carriers' : OfOpen(posted'[i].id, Pixels(posted'[i]))
    BY <1>1, <1>2, <1>4, <1>6, <1>12 DEF LeftBehind
  <2> QED  BY <1>1, <2>1 DEF LeftBehind, OfOpen, WindowStays, Pixels
<1>14. PixelsInOrder'
  <2>1. \A i \in Carriers : Pixels(posted[i]).id \in Nat /\ Pixels(posted[i]).id <= job.source.id
    BY <1>1, <1>2, <1>5, DecodeFields DEF PixelsInOrder
  <2>2. \A i \in Carriers' : \/ i \in Carriers /\ Pixels(posted'[i]) = Pixels(posted[i]) /\ i < last
                             \/ i = last /\ Pixels(posted'[i]) = job.source
    BY <1>4, <1>6, <1>12
  <2>3. job.source # None
    BY <1>2, DecodeFields
  <2>4. \A i, j \in Carriers' : i < j => Pixels(posted'[i]).id <= Pixels(posted'[j]).id
    <3> SUFFICES ASSUME NEW i \in Carriers', NEW j \in Carriers', i < j
                 PROVE  Pixels(posted'[i]).id <= Pixels(posted'[j]).id
      OBVIOUS
    <3>1. i \in Carriers /\ Pixels(posted'[i]) = Pixels(posted[i])
      <4>1. j \in Nat /\ j <= last
        BY <1>4, <1>6, <2>2
      <4>2. i # last
        BY <1>4, <4>1
      <4> QED  BY <2>2, <4>2
    <3>2. CASE j \in Carriers /\ Pixels(posted'[j]) = Pixels(posted[j])
      BY <1>1, <3>1, <3>2 DEF PixelsInOrder
    <3>3. CASE Pixels(posted'[j]) = job.source
      BY <2>1, <3>1, <3>3
    <3> QED  BY <2>2, <3>2, <3>3
  <2>5. /\ image # None => \A i \in Carriers' : image.source.id <= Pixels(posted'[i]).id
        /\ \A i \in Carriers' : Pixels(posted'[i]).id <= backgroundFor.source.id
        /\ decoded # None => \A i \in Carriers' : Pixels(posted'[i]).id <= decoded.id
    <3>1. /\ image # None => \A i \in Carriers : image.source.id <= Pixels(posted[i]).id
          /\ image # None => image.source.id <= job.source.id
          /\ decoded # None => /\ \A i \in Carriers : Pixels(posted[i]).id <= decoded.id
                               /\ job.source.id <= decoded.id
      BY <1>1, <1>2, <2>3 DEF PixelsInOrder
    <3>2. ASSUME NEW i \in Carriers'
          PROVE  \/ i \in Carriers /\ Pixels(posted'[i]) = Pixels(posted[i])
                 \/ Pixels(posted'[i]) = backgroundFor.source
      BY <1>2, <2>2
    <3>3. \A i \in Carriers' : Pixels(posted'[i]).id <= backgroundFor.source.id
      <4>1. backgroundFor.source.id \in Nat /\ backgroundFor.source.id <= backgroundFor.source.id
        BY <1>2
      <4> QED  BY <1>2, <2>1, <3>2, <4>1
    <3>4. image # None => \A i \in Carriers' : image.source.id <= Pixels(posted'[i]).id
      BY <1>2, <3>1, <3>2
    <3>5. decoded # None => \A i \in Carriers' : Pixels(posted'[i]).id <= decoded.id
      BY <1>2, <3>1, <3>2
    <3> QED  BY <3>3, <3>4, <3>5
  <2> QED  BY <1>1, <2>4, <2>5 DEF PixelsInOrder, WindowStays, Pixels
<1>15. BeneathFollows'
  <2>1. ASSUME NEW i \in Fallbacks', posted'[i].id >= firstRequest'
        PROVE  Follows(posted[i].id, Pixels(posted[i]), i)'
    <3>1. i \in Fallbacks /\ posted'[i] = posted[i] /\ firstRequest' = firstRequest
      BY <1>4, <1>6 DEF WindowStays
    <3>2. Follows(posted[i].id, Pixels(posted[i]), i)
      BY <1>1, <2>1, <3>1 DEF BeneathFollows
    <3>3. CASE image # None /\ image.source = Pixels(posted[i])
      BY <3>1, <3>3 DEF Follows, WindowStays, Pixels
    <3>4. CASE \E j \in Results :
                   /\ j < i /\ posted[j].kind = "picture" /\ Final(posted[j])
                   /\ posted[j].id = posted[i].id /\ posted[j].image.source = Pixels(posted[i])
      <4>1. PICK j \in Results :
                   /\ j < i /\ posted[j].kind = "picture" /\ Final(posted[j])
                   /\ posted[j].id = posted[i].id /\ posted[j].image.source = Pixels(posted[i])
        BY <3>4
      <4>2. j \in Results' /\ posted'[j] = posted[j]
        BY <1>4, <1>6
      <4> QED  BY <3>1, <4>1, <4>2 DEF Follows, Final, Pixels
    <3> QED  BY <3>2, <3>3, <3>4 DEF Follows
  <2>2. ASSUME Pausing' PROVE Follows(job.id, job.source, Len(posted) + 1)'
    <3>1. /\ at' = "pause" /\ job' = job /\ Final(event)
          /\ event.kind = "picture" /\ event.image.source = job.source
      BY <1>3, <2>2 DEF Pausing
    <3>2. last < last + 1 /\ last \in Results' /\ posted'[last] = event /\ Len(posted') = last
      BY <1>4
    <3> QED  BY <3>1, <3>2 DEF Follows, Final
  <2>3. \A i \in Results' : posted'[i].kind = "picture" /\ posted'[i].background # None =>
            posted'[i].background.source = posted'[i].image.source
    <3>1. background' # None => background'.source = job.source
      BY <1>2 DEF RendererInv, PlaceHolds
    <3> SUFFICES ASSUME NEW i \in Results', posted'[i].kind = "picture",
                        posted'[i].background # None
                 PROVE  posted'[i].background.source = posted'[i].image.source
      OBVIOUS
    <3>2. CASE i \in Results
      BY <1>1, <1>6, <3>2 DEF BeneathFollows
    <3>3. CASE i = last
      BY <1>4, <3>1, <3>3
    <3> QED  BY <1>4, <3>2, <3>3
  <2> QED  BY <2>1, <2>2, <2>3 DEF BeneathFollows, Follows, Pixels
<1>16. Owed => Owed'
  <2>1. CASE pending # None
    BY <2>1 DEF Owed
  <2>2. CASE Rendering /\ job.id = lastRequest /\ ~sourceChanged
    <3>1. CASE at' = "level0" /\ job' = job
      BY <2>2, <3>1 DEF Owed, Rendering
    <3>2. CASE Final(event)
      BY <1>4, <2>2, <3>2 DEF Owed, Final
    <3> QED  BY <3>1, <3>2
  <2>3. CASE \E i \in Results : Final(posted[i]) /\ posted[i].id = lastRequest
    BY <1>4, <1>6, <2>3 DEF Owed, Final
  <2> QED  BY <2>1, <2>2, <2>3 DEF Owed
<1>17. BusyHolds'
  BY <1>1, <1>16 DEF BusyHolds, WindowStays, Awaited
<1>18. NewestHolds'
  <2>1. \A i \in Results' : \/ i \in Results /\ posted'[i] = posted[i]
                            \/ posted'[i] = event
    BY <1>4, <1>6
  <2>2. job' \in {job, None}
    OBVIOUS
  <2> QED  BY <1>1, <1>2, <2>1, <2>2 DEF NewestHolds, IsNewest, WindowStays
<1>19. BeneathHolds'
  <2>1. CASE event.kind = "picture"
    <3>1. /\ last \in Carriers' /\ posted'[last].background = background'
          /\ \A k \in Carriers' : k <= last
      BY <1>4, <1>6, <2>1
    <3> QED  BY <3>1 DEF BeneathHolds
  <2>2. CASE event.kind = "failure"
    <3>1. Carriers' = Carriers /\ background' = background
      BY <1>4, <2>2
    <3> QED  BY <1>1, <1>6, <3>1 DEF BeneathHolds, WindowStays
  <2> QED  BY <1>3, <2>1, <2>2
<1> QED  BY <1>11, <1>13, <1>14, <1>15, <1>17, <1>18, <1>19 DEF Ordered

(* The whole frame beneath a region is posted. *)
LEMMA FallbackPosts ==
    ASSUME WindowInv, RendererInv', WindowStays, lastRequest' = lastRequest, pending' = pending,
           sourceChanged' = sourceChanged, backgroundFor'.source = backgroundFor.source,
           at = "renderFallback", at' = "check", job' = job,
           NEW event \in FallbackEvents, posted' = Append(posted, event), event.id = job.id,
           event.background = background', event.background.source = job.source
    PROVE  Ordered'
<1>1. /\ ResultsInOrder /\ LeftBehind /\ PixelsInOrder /\ BeneathFollows /\ RendererTyped
      /\ BusyHolds /\ NewestHolds /\ BeneathHolds /\ WindowTyped /\ RequestsHold /\ PlaceHolds
      /\ WindowAlone /\ DocumentHolds
  BY DEF WindowInv, RendererInv
<1>2. /\ ~Rendering /\ Pausing /\ ~Rendering' /\ Pausing' /\ job # None /\ job \in Jobs
      /\ job.id \in Nat
      /\ job.id <= lastRequest /\ (pending # None => job.id < lastRequest)
      /\ job.source = backgroundFor.source /\ job.source \in Loader!Decodes
      /\ job.source.id \in Nat
  <2>1. ~Rendering /\ Pausing /\ job # None /\ ~Rendering' /\ Pausing'
    BY <1>1 DEF Rendering, Pausing, PlaceHolds
  <2>2. job \in Jobs /\ job.id \in Nat /\ job.source \in Loader!Decodes
    BY <1>1, <2>1 DEF RendererTyped, Jobs
  <2> QED  BY <1>1, <2>1, <2>2, DecodeFields DEF RequestsHold, PlaceHolds
<1>3. event \in Events /\ event.kind = "fallback" /\ Pixels(event) = job.source
  BY DEF Events, FallbackEvents, Pixels
<1> DEFINE last == Len(posted) + 1
<1>4. /\ last \in Nat /\ posted'[last] = event /\ Len(posted') = last
      /\ \A i \in 1 .. Len(posted) : posted'[i] = posted[i] /\ i < last
      /\ Results' = Results /\ Fallbacks' = Fallbacks \cup {last}
      /\ Carriers' = Carriers \cup {last}
  <2>1. /\ last \in Nat /\ posted'[last] = event /\ Len(posted') = last
        /\ \A i \in 1 .. Len(posted) : posted'[i] = posted[i] /\ i < last
        /\ Results' = Results \cup
               (IF event.kind \in {"picture", "failure"} THEN {last} ELSE {})
        /\ Fallbacks' = Fallbacks \cup (IF event.kind = "fallback" THEN {last} ELSE {})
        /\ Carriers' = Carriers \cup
               (IF event.kind \in {"picture", "fallback"} THEN {last} ELSE {})
    BY <1>1, <1>3, QueueGrows
  <2> HIDE DEF last
  <2> QED  BY <1>3, <2>1
<1>5. /\ \A i \in Results : i \in 1 .. Len(posted) /\ posted[i].id \in Nat
      /\ \A i \in Fallbacks : i \in 1 .. Len(posted) /\ posted[i].id \in Nat
      /\ \A i \in Carriers : /\ i \in 1 .. Len(posted) /\ posted[i].id \in Nat
                             /\ Pixels(posted[i]) \in Loader!Decodes
      /\ latestShown \in Nat
  BY <1>1, EventFields DEF WindowTyped
<1> HIDE DEF last
<1>6. /\ \A i \in Results : posted'[i] = posted[i] /\ i < last /\ i \in Nat
      /\ \A i \in Fallbacks : posted'[i] = posted[i] /\ i < last /\ i \in Nat
      /\ \A i \in Carriers : posted'[i] = posted[i] /\ i < last /\ i \in Nat
  BY <1>4, <1>5
<1>7. lastRequest \in Nat
  BY <1>1 DEF RendererTyped
<1>8. ASSUME NEW id \in Nat, NEW final, Passed(id, final)
      PROVE  Passed(id, final)' /\ id <= job.id
  BY <1>2, <1>8 DEF Passed
<1>9. ASSUME NEW final PROVE Passed(event.id, final)'
  BY <1>2, <1>7 DEF Passed
<1>10. ResultsInOrder'
  <2>1. ASSUME NEW i \in Results
        PROVE  Passed(posted[i].id, Final(posted[i]))' /\ posted[i].id <= job.id
    <3>1. Passed(posted[i].id, Final(posted[i])) /\ posted'[i] = posted[i]
      BY <1>1, <1>6 DEF ResultsInOrder
    <3>2. PICK id, final : id = posted[i].id /\ final = Final(posted[i])
      OBVIOUS
    <3>3. Passed(id, final)' /\ id <= job.id
      BY <1>5, <1>8, <3>1, <3>2
    <3> QED  BY <3>1, <3>2, <3>3 DEF Passed, Final
  <2>2. ASSUME NEW i \in Fallbacks
        PROVE  Passed(posted[i].id, TRUE)'
    <3>1. Passed(posted[i].id, TRUE) /\ posted'[i] = posted[i]
      BY <1>1, <1>6 DEF ResultsInOrder
    <3>2. PICK id : id = posted[i].id
      OBVIOUS
    <3>3. Passed(id, TRUE)'
      BY <1>5, <1>8, <3>1, <3>2
    <3> QED  BY <3>1, <3>2, <3>3 DEF Passed, Final
  <2>3. Passed(latestShown, ~provisional)' /\ latestShown <= job.id
    <3>1. Passed(latestShown, ~provisional)
      BY <1>1 DEF ResultsInOrder
    <3>2. PICK id, final : id = latestShown /\ final = ~provisional
      OBVIOUS
    <3>3. Passed(id, final)' /\ id <= job.id
      BY <1>5, <1>8, <3>1, <3>2
    <3> QED  BY <3>1, <3>2, <3>3 DEF Passed, WindowStays
  <2>4. \A i \in Fallbacks' : Passed(posted[i].id, TRUE)' /\ latestShown' <= posted'[i].id
    <3> SUFFICES ASSUME NEW i \in Fallbacks'
                 PROVE  Passed(posted[i].id, TRUE)' /\ latestShown' <= posted'[i].id
      OBVIOUS
    <3>1. CASE i \in Fallbacks
      BY <1>1, <1>6, <2>2, <3>1 DEF ResultsInOrder, WindowStays
    <3>2. CASE i = last
      <4>1. posted'[i] = event /\ Passed(event.id, TRUE)'
        BY <1>4, <1>9, <3>2
      <4> QED  BY <2>3, <4>1 DEF Passed, WindowStays
    <3> QED  BY <1>4, <3>1, <3>2
  <2>5. \A i \in Results', j \in Fallbacks' : i < j => posted'[i].id <= posted'[j].id
    <3> SUFFICES ASSUME NEW i \in Results', NEW j \in Fallbacks', i < j
                 PROVE  posted'[i].id <= posted'[j].id
      OBVIOUS
    <3>1. CASE j \in Fallbacks
      BY <1>1, <1>4, <1>6, <3>1 DEF ResultsInOrder
    <3>2. CASE j = last
      BY <1>4, <1>6, <2>1, <3>2
    <3> QED  BY <1>4, <3>1, <3>2
  <2>6. \A i \in Fallbacks', j \in Results' : i < j => posted'[i].id < posted'[j].id
    <3> SUFFICES ASSUME NEW i \in Fallbacks', NEW j \in Results', i < j
                 PROVE  posted'[i].id < posted'[j].id
      OBVIOUS
    <3>1. j \in Results /\ j < last /\ j \in Nat
      BY <1>4, <1>6
    <3>2. i # last
      BY <1>4, <3>1
    <3>3. i \in Fallbacks
      BY <1>4, <3>2
    <3> QED  BY <1>1, <1>6, <3>1, <3>3 DEF ResultsInOrder
  <2>7. \A i \in Results' :
            /\ Passed(posted[i].id, Final(posted[i]))'
            /\ Precedes(latestShown', ~provisional', posted'[i].id, Final(posted'[i]))
    BY <1>1, <1>4, <1>6, <2>1 DEF ResultsInOrder, WindowStays
  <2>8. \A i, j \in Results' :
            i < j => Precedes(posted'[i].id, Final(posted'[i]), posted'[j].id, Final(posted'[j]))
    BY <1>1, <1>4, <1>6 DEF ResultsInOrder
  <2> QED  BY <2>3, <2>4, <2>5, <2>6, <2>7, <2>8 DEF ResultsInOrder, Precedes, Final
<1>11. LeftBehind'
  <2>1. \A i \in Carriers' : OfOpen(posted'[i].id, Pixels(posted'[i]))
    BY <1>1, <1>2, <1>3, <1>4, <1>6 DEF LeftBehind
  <2> QED  BY <1>1, <2>1 DEF LeftBehind, OfOpen, WindowStays, Pixels
<1>12. PixelsInOrder'
  <2>1. \A i \in Carriers : Pixels(posted[i]).id \in Nat /\ Pixels(posted[i]).id <= job.source.id
    BY <1>1, <1>2, <1>5, DecodeFields DEF PixelsInOrder
  <2>2. \A i \in Carriers' : \/ i \in Carriers /\ Pixels(posted'[i]) = Pixels(posted[i]) /\ i < last
                             \/ i = last /\ Pixels(posted'[i]) = job.source
    BY <1>3, <1>4, <1>6
  <2>3. job.source # None
    BY <1>2, DecodeFields
  <2>4. \A i, j \in Carriers' : i < j => Pixels(posted'[i]).id <= Pixels(posted'[j]).id
    <3> SUFFICES ASSUME NEW i \in Carriers', NEW j \in Carriers', i < j
                 PROVE  Pixels(posted'[i]).id <= Pixels(posted'[j]).id
      OBVIOUS
    <3>1. i \in Carriers /\ Pixels(posted'[i]) = Pixels(posted[i])
      <4>1. j \in Nat /\ j <= last
        BY <1>4, <1>6, <2>2
      <4>2. i # last
        BY <1>4, <4>1
      <4> QED  BY <2>2, <4>2
    <3>2. CASE j \in Carriers /\ Pixels(posted'[j]) = Pixels(posted[j])
      BY <1>1, <3>1, <3>2 DEF PixelsInOrder
    <3>3. CASE Pixels(posted'[j]) = job.source
      BY <2>1, <3>1, <3>3
    <3> QED  BY <2>2, <3>2, <3>3
  <2>5. /\ image # None => \A i \in Carriers' : image.source.id <= Pixels(posted'[i]).id
        /\ \A i \in Carriers' : Pixels(posted'[i]).id <= backgroundFor.source.id
        /\ decoded # None => \A i \in Carriers' : Pixels(posted'[i]).id <= decoded.id
    <3>1. /\ image # None => \A i \in Carriers : image.source.id <= Pixels(posted[i]).id
          /\ image # None => image.source.id <= job.source.id
          /\ decoded # None => /\ \A i \in Carriers : Pixels(posted[i]).id <= decoded.id
                               /\ job.source.id <= decoded.id
      BY <1>1, <1>2, <2>3 DEF PixelsInOrder
    <3>2. ASSUME NEW i \in Carriers'
          PROVE  \/ i \in Carriers /\ Pixels(posted'[i]) = Pixels(posted[i])
                 \/ Pixels(posted'[i]) = backgroundFor.source
      BY <1>2, <2>2
    <3>3. \A i \in Carriers' : Pixels(posted'[i]).id <= backgroundFor.source.id
      <4>1. backgroundFor.source.id \in Nat /\ backgroundFor.source.id <= backgroundFor.source.id
        BY <1>2
      <4> QED  BY <1>2, <2>1, <3>2, <4>1
    <3>4. image # None => \A i \in Carriers' : image.source.id <= Pixels(posted'[i]).id
      BY <1>2, <3>1, <3>2
    <3>5. decoded # None => \A i \in Carriers' : Pixels(posted'[i]).id <= decoded.id
      BY <1>2, <3>1, <3>2
    <3> QED  BY <3>3, <3>4, <3>5
  <2> QED  BY <1>1, <2>4, <2>5 DEF PixelsInOrder, WindowStays, Pixels
<1>13. ASSUME NEW id, NEW pixels, NEW i \in Nat, NEW k \in Nat, i <= k, Follows(id, pixels, i)
       PROVE  Follows(id, pixels, k)'
  <2>1. CASE image # None /\ image.source = pixels
    BY <2>1 DEF Follows, WindowStays
  <2>2. CASE \E j \in Results : /\ j < i /\ posted[j].kind = "picture" /\ Final(posted[j])
                                /\ posted[j].id = id /\ posted[j].image.source = pixels
    <3>1. PICK j \in Results : /\ j < i /\ posted[j].kind = "picture" /\ Final(posted[j])
                               /\ posted[j].id = id /\ posted[j].image.source = pixels
      BY <2>2
    <3>2. j \in Results' /\ posted'[j] = posted[j] /\ j < k
        <4>1. j \in Nat /\ j < i /\ j \in Results' /\ posted'[j] = posted[j]
          BY <1>4, <1>6, <3>1
        <4>2. i <= k
          BY <1>13
        <4> QED  BY <4>1, <4>2
    <3> QED  BY <3>1, <3>2 DEF Follows, Final
  <2> QED  BY <1>13, <2>1, <2>2 DEF Follows
<1>14. BeneathFollows'
  <2>1. job.id >= firstRequest => Follows(job.id, job.source, last)
    BY <1>1, <1>2 DEF BeneathFollows, last
  <2>2. ASSUME NEW i \in Fallbacks', posted'[i].id >= firstRequest'
        PROVE  Follows(posted[i].id, Pixels(posted[i]), i)'
    <3>1. CASE i \in Fallbacks
      <4>1. i \in Nat /\ i <= i /\ posted'[i] = posted[i] /\ firstRequest' = firstRequest
        <5>1. i \in Nat
          BY <1>6, <3>1
        <5>2. i <= i
          BY <5>1
        <5>3. posted'[i] = posted[i]
          BY <1>6, <3>1
        <5>4. firstRequest' = firstRequest
          BY DEF WindowStays
        <5> QED  BY <5>1, <5>2, <5>3, <5>4
      <4>2. PICK id, pixels : id = posted[i].id /\ pixels = Pixels(posted[i])
        OBVIOUS
      <4>3. Follows(id, pixels, i)
        BY <1>1, <2>2, <3>1, <4>1, <4>2 DEF BeneathFollows
      <4>4. Follows(id, pixels, i)'
        BY <1>13, <4>1, <4>3
      <4> QED  BY <4>1, <4>2, <4>4 DEF Follows, Pixels
    <3>2. CASE i = last
      <4>1. /\ i \in Nat /\ i <= i /\ posted'[i] = event /\ firstRequest' = firstRequest
            /\ Pixels(event) = job.source
        BY <1>3, <1>4, <3>2 DEF WindowStays
      <4>2. PICK id, pixels : id = event.id /\ pixels = Pixels(event)
        OBVIOUS
      <4>3. Follows(id, pixels, i)
        BY <2>1, <2>2, <3>2, <4>1, <4>2
      <4>4. Follows(id, pixels, i)'
        BY <1>13, <4>1, <4>3
      <4> QED  BY <4>1, <4>2, <4>4 DEF Follows, Pixels
    <3> QED  BY <1>4, <3>1, <3>2
  <2>3. job.id >= firstRequest => Follows(job.id, job.source, Len(posted) + 1)'
    <3> SUFFICES ASSUME job.id >= firstRequest PROVE Follows(job.id, job.source, Len(posted) + 1)'
      OBVIOUS
    <3>1. PICK id, pixels : id = job.id /\ pixels = job.source
      OBVIOUS
    <3>2. Follows(id, pixels, last) /\ last + 1 \in Nat /\ last <= last + 1 /\ last \in Nat
      BY <1>4, <2>1, <3>1
    <3>3. PICK k : k = last + 1
      OBVIOUS
    <3>4. Follows(id, pixels, k)'
      BY <1>13, <3>2, <3>3
    <3> QED  BY <1>4, <3>1, <3>3, <3>4 DEF Follows
  <2>4. \A i \in Results' : posted'[i].kind = "picture" /\ posted'[i].background # None =>
            posted'[i].background.source = posted'[i].image.source
    BY <1>1, <1>4, <1>6 DEF BeneathFollows
  <2>5. firstRequest' = firstRequest
    BY DEF WindowStays
  <2> QED  BY <2>2, <2>3, <2>4, <2>5 DEF BeneathFollows
<1>15. Owed => Owed'
  BY <1>2, <1>4, <1>6 DEF Owed, Final
<1>16. BusyHolds'
  BY <1>1, <1>15 DEF BusyHolds, WindowStays, Awaited
<1>17. NewestHolds'
  BY <1>1, <1>4, <1>6 DEF NewestHolds, IsNewest, WindowStays
<1>18. BeneathHolds'
  <2>1. /\ last \in Carriers' /\ posted'[last].background = background'
        /\ \A k \in Carriers' : k <= last
    BY <1>4, <1>6
  <2> QED  BY <2>1 DEF BeneathHolds
<1> QED  BY <1>10, <1>11, <1>12, <1>14, <1>16, <1>17, <1>18 DEF Ordered

(* A step of the renderer's worker. *)
LEMMA RendererSteps ==
    ASSUME WindowInv, RendererStep
    PROVE  WindowInv'
<1>1. WindowStays /\ Renderer!Worker
  BY DEF RendererStep, WindowStays, loader, window, document, decoding, view
<1>2. RendererInv /\ RendererTyped /\ PlaceHolds /\ RequestsHold /\ CancelsHold /\ WindowAlone
      /\ DocumentHolds /\ WindowTyped
  BY DEF WindowInv, RendererInv
<1>3. RendererInv'
  BY <1>1, <1>2, WorkerWorks
<1>4. recount = FALSE /\ wanted = FALSE /\ stopping = "no" /\ at \notin {"startCount", "count", "ended"}
      /\ source = decoded
  BY <1>2 DEF WindowAlone, RendererTyped
<1> DEFINE Calm == /\ source' = source /\ wanted' = wanted /\ recount' = FALSE
                   /\ lastRequest' = lastRequest /\ stopping' = stopping
           Alike == /\ sourceChanged' = sourceChanged /\ pending' = pending
                    /\ backgroundFor'.source = backgroundFor.source
           Common == /\ RendererInv' /\ WindowTyped' /\ WindowAlone' /\ LaneHolds'
                     /\ HeldAreOfBefore' /\ AwaitedComes' /\ DocumentHolds' /\ ShownIsOfOpenPhoto'
<1>5. Common /\ Ordered' => WindowInv'
  BY DEF WindowInv, Ordered
(* With nothing posted, it is enough that the parts of the worker keep in order. *)
<1>6. ASSUME Calm, at' \notin {"startCount", "count", "ended"}, posted' = posted,
             backgroundFor'.source \in {backgroundFor.source, decoded, None}
      PROVE  Common
  BY <1>1, <1>3, <1>6, RendererCommon
<1>7. ASSUME Calm, Alike, at' \notin {"startCount", "count", "ended"}, posted' = posted,
             job' \in {job, None}, Rendering' => Rendering /\ at # "level0" /\ job' = job,
             Pausing' => Pausing /\ job' = job,
             Rendering => Rendering' \/ job.id < lastRequest \/ sourceChanged,
             background' \in {background, None}
      PROVE  WindowInv'
  <2>1. Common
    BY <1>6, <1>7
  <2>2. Ordered'
    BY <1>1, <1>3, <1>7, WorkerMoves
  <2> QED  BY <1>5, <2>1, <2>2
<1>8. ASSUME NEW event \in PictureEvents \cup FailureEvents \cup FallbackEvents,
             posted' = Append(posted, event), Calm, at' \notin {"startCount", "count", "ended"},
             backgroundFor'.source = backgroundFor.source,
             event.kind \in {"picture", "fallback"} => Pixels(event) = backgroundFor.source
      PROVE  Common
  BY <1>1, <1>3, <1>8, RendererCommon
<1>9. job # None => /\ job \in Jobs /\ job.id \in Nat /\ job.whole \in BOOLEAN
                    /\ Renderer!Picture \in Images
                    /\ Renderer!Picture.source = job.source /\ Renderer!Picture.look = job.look
  BY <1>2 DEF RendererTyped, Jobs, Images, Renderer!Picture
<1>10. ASSUME channel # None, channel.cancelled, job # None
       PROVE  job.id < lastRequest \/ sourceChanged
  BY <1>2, <1>4, <1>10 DEF CancelsHold
<1> HIDE DEF Common
<1>11. CASE Renderer!Exit
  BY <1>4, <1>11 DEF Renderer!Exit
<1>12. CASE Renderer!TakeRequest
  <2>1. /\ at = "wait" /\ pending # None /\ pending' = None /\ at' = "start" /\ ~sourceChanged'
        /\ job' = [id |-> pending.id, look |-> pending.look, whole |-> pending.whole,
                   source |-> source]
        /\ backgroundFor'.source = source /\ background' \in {background, None}
        /\ posted' = posted /\ Calm
    BY <1>4, <1>12 DEF Renderer!TakeRequest, Renderer!Keep, Renderer!WorkerOwn
  <2>2. job' \in Jobs
    <3>1. pending \in Requests /\ source \in Loader!Decodes
      BY <1>2, <2>1 DEF RendererTyped, RequestsHold
    <3> QED  BY <2>1, <3>1 DEF Requests, Jobs
  <2>3. Common
    BY <1>4, <1>6, <2>1
  <2>4. Ordered'
    <3>1. job'.id = pending.id /\ job'.look = pending.look /\ job'.source = source
      BY <2>1
    <3> QED  BY <1>1, <1>3, <2>1, <2>2, <3>1, WorkerTakes
  <2> QED  BY <1>5, <2>3, <2>4
<1>13. CASE Renderer!TakeRecount
  <2>1. /\ at = "wait" /\ pending = None /\ sourceChanged /\ pending' = None /\ at' = "wait"
        /\ job' = job /\ backgroundFor'.source = None /\ background' = None
        /\ posted' = posted /\ Calm /\ ~sourceChanged'
    BY <1>4, <1>13 DEF Renderer!TakeRecount, Renderer!NoBackground, Renderer!WorkerOwn
  <2>2. Common
    BY <1>6, <2>1
  <2>3. Ordered'
    BY <1>1, <1>3, <2>1, WorkerTakes
  <2> QED  BY <1>5, <2>2, <2>3
<1>14. CASE Renderer!StartRender \/ Renderer!MakeStandIn
  <2>1. /\ at \in {"start", "render"} /\ at' \in {"render", "standIn"} /\ job' = job /\ Calm
        /\ Alike /\ posted' = posted /\ background' = background
    BY <1>4, <1>14 DEF Renderer!StartRender, Renderer!MakeStandIn, Renderer!Go, Renderer!shared,
                       Renderer!kept, Renderer!WorkerOwn
  <2> QED  BY <1>7, <2>1 DEF Rendering, Pausing
<1>15. CASE Renderer!DeliverStandIn
  <2> DEFINE event == [kind |-> "picture", id |-> job.id, image |-> Renderer!Picture,
                       whole |-> job.whole, background |-> background, provisional |-> TRUE]
  <2>1. /\ at = "standIn" /\ at' = "level0" /\ job' = job /\ Calm /\ Alike
        /\ posted' = Append(posted, event) /\ background' = background
    BY <1>4, <1>15 DEF Renderer!DeliverStandIn, Renderer!Post, Renderer!Go, Renderer!shared,
                       Renderer!kept
  <2>2. job # None /\ job.source = backgroundFor.source
    BY <1>2, <2>1 DEF PlaceHolds
  <2>3. event \in PictureEvents
    BY <1>2, <1>9, <2>2 DEF PictureEvents, RendererTyped
  <2>4. /\ event.kind = "picture" /\ event.id = job.id /\ event.image.source = job.source
        /\ event.image.look = job.look /\ event.background = background' /\ ~Final(event)
        /\ Pixels(event) = backgroundFor.source
    BY <1>9, <2>1, <2>2 DEF Final, Pixels
  <2> HIDE DEF event
  <2>5. Common
    BY <1>8, <2>1, <2>3, <2>4
  <2>6. Ordered'
    BY <1>1, <1>3, <2>1, <2>3, <2>4, ResultPosts
  <2> QED  BY <1>5, <2>5, <2>6
<1>16. CASE Renderer!Render("none")
  <2>1. /\ at \in {"render", "level0"} /\ channel.cancelled /\ at' = "wait" /\ job' = None /\ Calm
        /\ Alike /\ posted' = posted /\ background' = background
    BY <1>4, <1>16 DEF Renderer!Render, Renderer!Go
  <2>2. job.id < lastRequest \/ sourceChanged
    BY <1>2, <1>10, <2>1 DEF PlaceHolds
  <2> QED  BY <1>7, <2>1, <2>2 DEF Rendering, Pausing
<1>17. CASE Renderer!Render("failure")
  <2> DEFINE event == [kind |-> "failure", id |-> job.id]
  <2>1. /\ at \in {"render", "level0"} /\ at' = "wait" /\ job' = None /\ Calm /\ Alike
        /\ posted' = Append(posted, event) /\ background' = background
    BY <1>4, <1>17 DEF Renderer!Render, Renderer!Post, Renderer!Go
  <2>2. job # None
    BY <1>2, <2>1 DEF PlaceHolds
  <2>3. /\ event \in FailureEvents /\ event.kind = "failure" /\ event.id = job.id /\ Final(event)
    BY <1>9, <2>2 DEF FailureEvents, Final
  <2> HIDE DEF event
  <2>4. Common
    BY <1>8, <2>1, <2>3
  <2>5. Ordered'
    BY <1>1, <1>3, <2>1, <2>3, ResultPosts
  <2> QED  BY <1>5, <2>4, <2>5
<1>18. CASE Renderer!Render("picture")
  <2> DEFINE beneath_ == IF job.whole THEN Renderer!Picture ELSE background
             event == [kind |-> "picture", id |-> job.id, image |-> Renderer!Picture,
                       whole |-> job.whole, background |-> beneath_, provisional |-> FALSE]
  <2>1. /\ at \in {"render", "level0"} /\ at' = "pause" /\ job' = job /\ Calm
        /\ sourceChanged' = sourceChanged /\ pending' = pending
        /\ posted' = Append(posted, event) /\ background' = beneath_
        /\ backgroundFor' = IF job.whole THEN [source |-> job.source, look |-> job.look]
                                         ELSE backgroundFor
    BY <1>4, <1>18 DEF Renderer!Render, Renderer!Post, Renderer!Go
  <2>2. job # None /\ job.source = backgroundFor.source
    BY <1>2, <2>1 DEF PlaceHolds
  <2>3. backgroundFor'.source = backgroundFor.source
    BY <2>1, <2>2
  <2>4. beneath_ \in Images \cup {None}
    BY <1>2, <1>9, <2>2 DEF RendererTyped
  <2> HIDE DEF beneath_
  <2>5. event \in PictureEvents
    BY <1>9, <2>2, <2>4 DEF PictureEvents
  <2>6. /\ event.kind = "picture" /\ event.id = job.id /\ event.image.source = job.source
        /\ event.image.look = job.look /\ event.background = background' /\ Final(event)
        /\ Pixels(event) = backgroundFor.source
    BY <1>9, <2>1, <2>2 DEF Final, Pixels
  <2> HIDE DEF event
  <2>7. Common
    BY <1>8, <2>1, <2>3, <2>5, <2>6
  <2>8. Ordered'
    BY <1>1, <1>3, <2>1, <2>3, <2>5, <2>6, ResultPosts
  <2> QED  BY <1>5, <2>7, <2>8
<1>19. CASE Renderer!Interrupted \/ Renderer!Pause \/ Renderer!Check
  <2>1. /\ at \in {"pause", "check"} /\ at' \in {"wait", "check", "fallback"}
        /\ (at' # "wait" => job' = job) /\ job' \in {job, None}
        /\ Calm /\ Alike /\ posted' = posted /\ background' = background
    BY <1>4, <1>19 DEF Renderer!Interrupted, Renderer!Pause, Renderer!Check, Renderer!Go,
                       Renderer!shared, Renderer!kept, Renderer!WorkerOwn
  <2> QED  BY <1>7, <2>1 DEF Rendering, Pausing
<1>20. CASE Renderer!StartFallback
  <2>1. /\ at = "fallback" /\ at' = "renderFallback" /\ job' = job
        /\ Calm /\ Alike /\ posted' = posted /\ background' = background
    BY <1>4, <1>20 DEF Renderer!StartFallback, Renderer!Go, Renderer!kept, Renderer!WorkerOwn
  <2> QED  BY <1>7, <2>1 DEF Rendering, Pausing
<1>21. CASE Renderer!RenderFallback("none") \/ Renderer!RenderFallback("failure")
  <2>1. /\ at = "renderFallback" /\ at' \in {"wait", "check"} /\ job' \in {job, None}
        /\ (at' = "check" => job' = job) /\ Calm /\ Alike /\ posted' = posted
        /\ background' \in {background, None}
    BY <1>4, <1>21 DEF Renderer!RenderFallback, Renderer!Go
  <2> QED  BY <1>7, <2>1 DEF Rendering, Pausing
<1>22. CASE Renderer!RenderFallback("picture")
  <2> DEFINE event == [kind |-> "fallback", id |-> job.id, background |-> Renderer!Picture]
  <2>1. /\ at = "renderFallback" /\ at' = "check" /\ job' = job /\ Calm /\ Alike
        /\ posted' = Append(posted, event) /\ background' = Renderer!Picture
    BY <1>4, <1>22 DEF Renderer!RenderFallback, Renderer!Post, Renderer!Go
  <2>2. job # None /\ job.source = backgroundFor.source
    BY <1>2, <2>1 DEF PlaceHolds
  <2>3. /\ event \in FallbackEvents /\ event.kind = "fallback" /\ event.id = job.id
        /\ event.background = background' /\ event.background.source = job.source
        /\ Pixels(event) = backgroundFor.source
    BY <1>9, <2>1, <2>2 DEF FallbackEvents, Pixels
  <2> HIDE DEF event
  <2>4. Common
    BY <1>8, <2>1, <2>3
  <2>5. Ordered'
    BY <1>1, <1>3, <2>1, <2>3, FallbackPosts
  <2> QED  BY <1>5, <2>4, <2>5
<1>23. CASE Renderer!StartCount \/ \E outcome \in {"none", "current", "failed", "counted"} :
                                       Renderer!Count(outcome)
  BY <1>4, <1>23 DEF Renderer!StartCount, Renderer!Count
<1> QED  BY <1>1, <1>11, <1>12, <1>13, <1>14, <1>15, <1>16, <1>17, <1>18, <1>19, <1>20, <1>21,
            <1>22, <1>23 DEF Renderer!Worker

-----------------------------------------------------------------------------
(* Steps of the loader. *)

(* What the lane of decodes leaves alone. *)
RendererStays ==
    /\ source' = source /\ sourceChanged' = sourceChanged /\ pending' = pending
    /\ cancelsShown' = cancelsShown /\ channel' = channel /\ wanted' = wanted
    /\ recount' = recount /\ lastRequest' = lastRequest /\ stopping' = stopping /\ at' = at
    /\ job' = job /\ lastShown' = lastShown /\ background' = background
    /\ backgroundFor' = backgroundFor /\ counted' = counted /\ uncounted' = uncounted

ScreenStays ==
    /\ opened' = opened /\ open' = open /\ options' = options /\ look' = look
    /\ decoded' = decoded /\ decodeRequest' = decodeRequest /\ redecode' = redecode
    /\ failedOptions' = failedOptions /\ firstRequest' = firstRequest
    /\ latestShown' = latestShown /\ provisional' = provisional /\ zoomed' = zoomed
    /\ image' = image /\ beneath' = beneath /\ busy' = busy /\ reporting' = reporting
    /\ landing' = landing

(* A renderer that does nothing. *)
LEMMA RendererKept ==
    ASSUME RendererInv, RendererStays
    PROVE  RendererInv'
<1>1. RendererTyped'
  BY DEF RendererInv, RendererTyped, RendererStays
<1>2. PlaceHolds'
  BY DEF RendererInv, PlaceHolds, Pausing, RendererStays
<1>3. RequestsHold' /\ CancelsHold'
  BY DEF RendererInv, RequestsHold, CancelsHold, Rendering, RendererStays
<1>4. PauseHolds'
  BY DEF RendererInv, PauseHolds, RendererStays
<1> QED  BY <1>1, <1>2, <1>3, <1>4 DEF RendererInv

(* A decode that goes on, or lands, leaves what is on its way from the renderer in order. *)
LEMMA OrderedKept ==
    ASSUME WindowInv, RendererStays, ScreenStays,
           \/ posted' = posted
           \/ \E event \in DecodeEvents : posted' = Append(posted, event)
    PROVE  /\ Ordered' /\ posted' \in Seq(Events) /\ Carriers' = Carriers
           /\ \A i \in Carriers : posted'[i] = posted[i]
<1>1. Ordered /\ WindowTyped
  BY DEF WindowInv, Ordered
<1>2. /\ posted' \in Seq(Events) /\ Len(posted) \in Nat /\ Len(posted') \in Nat
      /\ Len(posted) <= Len(posted')
      /\ Results' = Results /\ Fallbacks' = Fallbacks /\ Carriers' = Carriers
      /\ \A i \in 1 .. Len(posted) : posted'[i] = posted[i]
  <2>1. CASE posted' = posted
    <3>1. posted \in Seq(Events) /\ Len(posted) \in Nat
      BY <1>1 DEF WindowTyped
    <3> QED  BY <2>1, <3>1 DEF Results, Fallbacks, Carriers, At
  <2>2. CASE \E event \in DecodeEvents : posted' = Append(posted, event)
    <3>1. PICK event \in DecodeEvents : posted' = Append(posted, event)
      BY <2>2
    <3>2. event \in Events /\ event.kind = "decoded"
      BY <3>1 DEF Events, DecodeEvents
    <3>3. /\ posted' \in Seq(Events) /\ Len(posted') = Len(posted) + 1 /\ Len(posted) \in Nat
          /\ \A i \in 1 .. Len(posted) : posted'[i] = posted[i]
          /\ Results' = Results \cup
               (IF event.kind \in {"picture", "failure"} THEN {Len(posted) + 1} ELSE {})
          /\ Fallbacks' = Fallbacks \cup
               (IF event.kind = "fallback" THEN {Len(posted) + 1} ELSE {})
          /\ Carriers' = Carriers \cup
               (IF event.kind \in {"picture", "fallback"} THEN {Len(posted) + 1} ELSE {})
      BY <1>1, <3>1, <3>2, QueueGrows
    <3>4. Results' = Results /\ Fallbacks' = Fallbacks /\ Carriers' = Carriers
      BY <3>2, <3>3
    <3> QED  BY <3>3, <3>4
  <2> QED  BY <2>1, <2>2
<1>3. /\ \A i \in Results : posted'[i] = posted[i] /\ i \in Nat
      /\ \A i \in Fallbacks : posted'[i] = posted[i] /\ i \in Nat
      /\ \A i \in Carriers : posted'[i] = posted[i] /\ i \in Nat
  BY <1>2 DEF Results, Fallbacks, Carriers, At
<1>4. /\ lastRequest' = lastRequest /\ at' = at /\ job' = job /\ pending' = pending
      /\ sourceChanged' = sourceChanged /\ background' = background
      /\ backgroundFor' = backgroundFor
  BY DEF RendererStays
<1>5. Rendering' = Rendering /\ Pausing' = Pausing
  BY <1>4 DEF Rendering, Pausing
<1>6. ResultsInOrder'
  BY <1>1, <1>2, <1>3, <1>4, <1>5 DEF Ordered, ResultsInOrder, Passed, Precedes, Final, ScreenStays
<1>7. LeftBehind'
  BY <1>1, <1>2, <1>3, <1>4 DEF Ordered, LeftBehind, OfOpen, Pixels, ScreenStays
<1>8. PixelsInOrder'
  <2>1. \A i \in Carriers' : i \in Carriers /\ Pixels(posted'[i]) = Pixels(posted[i])
    BY <1>2, <1>3
  <2>2. \A i, j \in Carriers' : i < j => Pixels(posted'[i]).id <= Pixels(posted'[j]).id
    BY <1>1, <2>1 DEF Ordered, PixelsInOrder
  <2>3. /\ image # None => \A i \in Carriers' : image.source.id <= Pixels(posted'[i]).id
        /\ backgroundFor.source # None =>
               \A i \in Carriers' : Pixels(posted'[i]).id <= backgroundFor.source.id
        /\ decoded # None => \A i \in Carriers' : Pixels(posted'[i]).id <= decoded.id
    BY <1>1, <2>1 DEF Ordered, PixelsInOrder
  <2> QED  BY <1>1, <1>4, <2>2, <2>3 DEF Ordered, PixelsInOrder, Pixels, ScreenStays
<1>9. BeneathFollows'
  <2>1. ASSUME NEW id, NEW pixels, NEW i \in Nat, NEW k \in Nat, i <= k, Follows(id, pixels, i)
        PROVE  Follows(id, pixels, k)'
    <3>1. CASE image # None /\ image.source = pixels
      BY <3>1 DEF Follows, ScreenStays
    <3>2. CASE \E j \in Results : /\ j < i /\ posted[j].kind = "picture" /\ Final(posted[j])
                                  /\ posted[j].id = id /\ posted[j].image.source = pixels
      <4>1. PICK j \in Results : /\ j < i /\ posted[j].kind = "picture" /\ Final(posted[j])
                                 /\ posted[j].id = id /\ posted[j].image.source = pixels
        BY <3>2
      <4>2. j \in Results' /\ posted'[j] = posted[j] /\ j \in Nat /\ j < i
        BY <1>2, <1>3, <4>1
      <4>3. j < k
        BY <2>1, <4>2
      <4> QED  BY <4>1, <4>2, <4>3 DEF Follows, Final
    <3> QED  BY <2>1, <3>1, <3>2 DEF Follows
  <2>2. ASSUME NEW i \in Fallbacks', posted'[i].id >= firstRequest'
        PROVE  Follows(posted[i].id, Pixels(posted[i]), i)'
    <3>1. i \in Nat /\ posted'[i] = posted[i] /\ i \in Fallbacks
      BY <1>2, <1>3
    <3>2. i <= i /\ firstRequest' = firstRequest
      BY <3>1 DEF ScreenStays
    <3>3. PICK id, pixels : id = posted[i].id /\ pixels = Pixels(posted[i])
      OBVIOUS
    <3>4. Follows(id, pixels, i)
      BY <1>1, <2>2, <3>1, <3>2, <3>3 DEF Ordered, BeneathFollows
    <3>5. Follows(id, pixels, i)'
      BY <2>1, <3>1, <3>2, <3>4
    <3> QED  BY <3>1, <3>3, <3>5 DEF Follows, Pixels
  <2>3. ASSUME Pausing, job.id >= firstRequest
        PROVE  Follows(job.id, job.source, Len(posted) + 1)'
    <3>1. Len(posted) + 1 \in Nat /\ Len(posted) + 1 <= Len(posted') + 1
      BY <1>2
    <3>2. PICK id, pixels, i, k :
              id = job.id /\ pixels = job.source /\ i = Len(posted) + 1 /\ k = Len(posted') + 1
      OBVIOUS
    <3>3. i \in Nat /\ k \in Nat /\ i <= k /\ Follows(id, pixels, i)
      BY <1>1, <1>2, <2>3, <3>1, <3>2 DEF Ordered, BeneathFollows
    <3>4. Follows(id, pixels, k)'
      BY <2>1, <3>3
    <3> QED  BY <1>4, <3>2, <3>4 DEF Follows
  <2>4. \A i \in Results' : posted'[i].kind = "picture" /\ posted'[i].background # None =>
            posted'[i].background.source = posted'[i].image.source
    BY <1>1, <1>2, <1>3 DEF Ordered, BeneathFollows
  <2>5. firstRequest' = firstRequest
    BY DEF ScreenStays
  <2> QED  BY <1>4, <1>5, <2>2, <2>3, <2>4, <2>5 DEF BeneathFollows
<1>10. Owed' = Owed
  BY <1>2, <1>3, <1>4, <1>5 DEF Owed, Final
<1>11. BusyHolds'
  BY <1>1, <1>4, <1>10 DEF Ordered, BusyHolds, Awaited, ScreenStays
<1>12. NewestHolds'
  BY <1>1, <1>2, <1>3, <1>4 DEF Ordered, NewestHolds, IsNewest, ScreenStays
<1>13. BeneathHolds'
  BY <1>1, <1>2, <1>3, <1>4 DEF Ordered, BeneathHolds, ScreenStays
<1> QED  BY <1>2, <1>3, <1>6, <1>7, <1>8, <1>9, <1>11, <1>12, <1>13 DEF Ordered

(* A step of the thread that decodes. *)
LEMMA LoaderSteps ==
    ASSUME WindowInv, LoaderStep
    PROVE  WindowInv'
<1>1. ScreenStays /\ RendererStays /\ Loader!Thread
  BY DEF LoaderStep, ScreenStays, RendererStays, renderer, window, document, decoding, view
<1>2. /\ WindowTyped /\ WindowAlone /\ LaneHolds /\ HeldAreOfBefore /\ AwaitedComes
      /\ DocumentHolds /\ ShownIsOfOpenPhoto /\ RendererInv
  BY DEF WindowInv
<1>3. RendererInv'
  BY <1>1, <1>2, RendererKept
<1>4. WindowAlone' /\ DocumentHolds' /\ ShownIsOfOpenPhoto'
  <2>1. WindowAlone'
    BY <1>1, <1>2 DEF WindowAlone, ScreenStays, RendererStays
  <2>2. DocumentHolds' /\ ShownIsOfOpenPhoto'
    BY <1>1, <1>2 DEF DocumentHolds, ShownIsOfOpenPhoto, ScreenStays
  <2> QED  BY <2>1, <2>2
<1>5. Awaited' = Awaited
  BY <1>1 DEF Awaited, ScreenStays
<1>6. ASSUME lastDecode' \in Nat, delivered' \in Nat, dropped' \in Nat,
             waiting' \in Loader!Decodes \cup {None}, inFlight' \in Flights \cup {None},
             posted' \in Seq(Events)
      PROVE  WindowTyped'
  <2>1. /\ zoomed' \in BOOLEAN /\ provisional' \in BOOLEAN /\ busy' \in BOOLEAN
        /\ reporting' \in BOOLEAN /\ landing' \in BOOLEAN
    BY Zenon, <1>1, <1>2 DEF WindowTyped, ScreenStays
  <2>2. lastRequest' = lastRequest
    BY <1>1 DEF RendererStays
  <2> QED  BY <1>1, <1>2, <1>6, <2>1, <2>2 DEF WindowTyped, ScreenStays
<1>7. ASSUME Carriers' = Carriers, \A i \in Carriers : posted'[i] = posted[i]
      PROVE  \A pixels \in Loader!Decodes : Held(pixels)' => Held(pixels)
  BY <1>1, <1>7 DEF Held, ScreenStays, RendererStays, Pixels
<1>8. /\ lastDecode \in Nat /\ delivered \in Nat /\ dropped \in Nat
      /\ waiting \in Loader!Decodes \cup {None} /\ inFlight \in Flights \cup {None}
      /\ waiting # None => waiting \in Loader!Decodes /\ waiting.id \in Nat
      /\ inFlight # None => /\ inFlight.job \in Loader!Decodes /\ inFlight.cancelled \in BOOLEAN
                            /\ inFlight.job.id \in Nat
      /\ \A i \in Decoded : posted[i].job \in Loader!Decodes /\ posted[i].job.id \in Nat
  <2>1. /\ lastDecode \in Nat /\ delivered \in Nat /\ dropped \in Nat
        /\ waiting \in Loader!Decodes \cup {None} /\ inFlight \in Flights \cup {None}
    BY <1>2 DEF WindowTyped
  <2>2. inFlight # None => inFlight.job \in Loader!Decodes /\ inFlight.cancelled \in BOOLEAN
    BY <2>1 DEF Flights
  <2> QED  BY <1>2, <2>1, <2>2, DecodeFields, EventFields
<1>9. CASE Loader!Take
  <2>1. /\ inFlight = None /\ waiting # None /\ inFlight' = [job |-> waiting, cancelled |-> FALSE]
        /\ waiting' = None /\ lastDecode' = lastDecode /\ delivered' = delivered
        /\ dropped' = dropped /\ posted' = posted
    BY <1>9 DEF Loader!Take
  <2>2. inFlight' \in Flights /\ inFlight' # None /\ inFlight'.job = waiting /\ ~inFlight'.cancelled
    <3>1. /\ inFlight' \in Flights /\ inFlight'.job = waiting /\ inFlight'.cancelled = FALSE
      BY <1>8, <2>1 DEF Flights
    <3> QED  BY <3>1, NoneApart
  <2>3. Ordered' /\ posted' \in Seq(Events) /\ Carriers' = Carriers
    BY <1>1, <2>1, OrderedKept
  <2>4. WindowTyped'
    BY <1>6, <1>8, <2>1, <2>2, <2>3
  <2>5. Decoded' = Decoded
    BY <2>1 DEF Decoded, At
  <2>6. LaneHolds'
    BY <1>2, <1>8, <2>1, <2>2, <2>5 DEF LaneHolds
  <2>7. HeldAreOfBefore'
    <3>1. \A pixels \in Loader!Decodes : Held(pixels)' => Held(pixels)
      BY <1>7, <2>1, <2>3
    <3>2. opened' >= opened
      BY <1>1, <1>2 DEF WindowTyped, ScreenStays
    <3>3. \A i \in Decoded' : \E k \in Decoded : posted'[i].job = posted[k].job
      BY <2>1, <2>5
    <3> QED  BY <2>1, <2>4, <3>1, <3>2, <3>3, HeldKept
  <2>8. AwaitedComes'
    <3>1. lastDecode' = lastDecode /\ (waiting.id = lastDecode)
      BY <1>2, <2>1 DEF LaneHolds
    <3> QED  BY <1>1, <1>2, <1>5, <2>1, <2>2, <2>5, <3>1 DEF AwaitedComes, IsOfPhotograph, ScreenStays
  <2> QED  BY <1>3, <1>4, <2>3, <2>4, <2>6, <2>7, <2>8 DEF WindowInv, Ordered
<1>10. CASE Loader!Abandon
  <2>1. /\ inFlight # None /\ inFlight.cancelled /\ inFlight' = None
        /\ waiting' = waiting /\ lastDecode' = lastDecode /\ delivered' = delivered
        /\ dropped' = dropped /\ posted' = posted
    BY <1>10 DEF Loader!Abandon
  <2>2. Ordered' /\ posted' \in Seq(Events) /\ Carriers' = Carriers
    BY <1>1, <2>1, OrderedKept
  <2>3. WindowTyped'
    BY <1>6, <1>8, <2>1, <2>2
  <2>4. Decoded' = Decoded
    BY <2>1 DEF Decoded, At
  <2>5. LaneHolds'
    BY <1>2, <2>1, <2>4 DEF LaneHolds
  <2>6. HeldAreOfBefore'
    <3>1. \A pixels \in Loader!Decodes : Held(pixels)' => Held(pixels)
      BY <1>7, <2>1, <2>2
    <3>2. opened' >= opened
      BY <1>1, <1>2 DEF WindowTyped, ScreenStays
    <3>3. \A i \in Decoded' : \E k \in Decoded : posted'[i].job = posted[k].job
      BY <2>1, <2>4
    <3> QED  BY <2>1, <2>3, <3>1, <3>2, <3>3, HeldKept
  <2>7. AwaitedComes'
    <3>1. Awaited # 0 => inFlight.job.id # lastDecode
      BY <1>2, <1>8, <2>1 DEF AwaitedComes, LaneHolds
    <3> QED  BY <1>1, <1>2, <1>5, <2>1, <2>4, <3>1 DEF AwaitedComes, IsOfPhotograph, ScreenStays
  <2> QED  BY <1>3, <1>4, <2>2, <2>3, <2>5, <2>6, <2>7 DEF WindowInv, Ordered
<1>11. CASE \E outcome \in BOOLEAN : Loader!Land(outcome)
  <2>1. PICK outcome \in BOOLEAN : Loader!Land(outcome)
    BY <1>11
  <2> DEFINE event == [kind |-> "decoded", job |-> inFlight.job, decoded |-> outcome]
             last == Len(posted) + 1
  <2>2. /\ inFlight # None /\ posted' = Append(posted, event) /\ delivered' = inFlight.job.id
        /\ inFlight' = None /\ lastDecode' = lastDecode /\ waiting' = waiting
        /\ dropped' = dropped
    BY <2>1 DEF Loader!Land
  <2>3. event \in DecodeEvents /\ event \in Events /\ event.kind = "decoded" /\ event.job = inFlight.job
    BY <1>8, <2>2 DEF DecodeEvents, Events
  <2> HIDE DEF event
  <2>4. /\ Ordered' /\ posted' \in Seq(Events) /\ Carriers' = Carriers
        /\ \A i \in Carriers : posted'[i] = posted[i]
    BY <1>1, <2>2, <2>3, OrderedKept
  <2>5. WindowTyped'
    BY <1>6, <1>8, <2>2, <2>4
  <2>6. /\ Decoded' = Decoded \cup {last} /\ posted'[last] = event /\ last \in Nat
        /\ \A i \in Decoded : posted'[i] = posted[i] /\ i < last /\ i \in Nat
    <3>1. /\ posted'[last] = event /\ Len(posted) \in Nat
          /\ \A i \in 1 .. Len(posted) : posted'[i] = posted[i] /\ i < last
          /\ Decoded' = Decoded \cup (IF event.kind = "decoded" THEN {last} ELSE {})
      BY <1>2, <2>2, <2>3, QueueGrows
    <3>2. \A i \in Decoded : i \in 1 .. Len(posted)
      BY DEF Decoded, At
    <3> QED  BY <2>3, <3>1, <3>2
  <2> HIDE DEF last
  <2>10. /\ posted'[last].job = inFlight.job /\ posted'[last].job.id = delivered'
         /\ \A i \in Decoded : /\ posted'[i].job.id <= delivered'
                               /\ posted'[i].job.id < posted'[last].job.id
         /\ \A i \in Decoded' : posted'[i].job.id <= delivered'
    <3>1. posted'[last].job = inFlight.job /\ posted'[last].job.id = delivered' /\ delivered' \in Nat
      BY <1>8, <2>2, <2>3, <2>6
    <3>2. delivered < delivered'
      BY <1>2, <2>2 DEF LaneHolds
    <3>3. ASSUME NEW i \in Decoded
          PROVE  posted'[i].job.id <= delivered' /\ posted'[i].job.id < posted'[last].job.id
      <4>1. posted[i].job.id <= delivered /\ posted'[i] = posted[i] /\ posted[i].job.id \in Nat
        BY <1>2, <1>8, <2>6 DEF LaneHolds
      <4> QED  BY <1>8, <3>1, <3>2, <4>1
    <3>4. \A i \in Decoded' : posted'[i].job.id <= delivered'
      BY <2>6, <3>1, <3>3
    <3> QED  BY <3>1, <3>3, <3>4
  <2>7. LaneHolds'
    <3>1. \A i \in Decoded' : posted'[i].job.id <= delivered'
      BY <2>10
    <3>2. \A i, j \in Decoded' : i < j => posted'[i].job.id < posted'[j].job.id
      <4> SUFFICES ASSUME NEW i \in Decoded', NEW j \in Decoded', i < j
                   PROVE  posted'[i].job.id < posted'[j].job.id
        OBVIOUS
      <4>1. CASE i \in Decoded /\ j \in Decoded
        BY <1>2, <2>6, <4>1 DEF LaneHolds
      <4>2. CASE i \in Decoded /\ j = last
        BY <2>10, <4>2
      <4>3. CASE i = last
        BY <2>6, <4>3
      <4> QED  BY <2>6, <4>1, <4>2, <4>3
    <3> QED  BY <1>2, <1>8, <2>2, <3>1, <3>2 DEF LaneHolds
  <2>8. HeldAreOfBefore'
    <3>1. \A pixels \in Loader!Decodes : Held(pixels)' => Held(pixels)
      BY <1>7, <2>4
    <3>2. opened' = opened
      BY <1>1 DEF ScreenStays
    <3>3. ASSUME NEW pixels \in Loader!Decodes, Held(pixels)'
          PROVE  /\ pixels.id <= delivered'
                 /\ \A i \in Decoded' : pixels.id < posted'[i].job.id
                 /\ pixels.document <= opened'
      <4>1. /\ pixels.id <= delivered /\ pixels.document <= opened
            /\ \A i \in Decoded : pixels.id < posted[i].job.id
        BY <1>2, <3>1, <3>3 DEF HeldAreOfBefore
      <4>2. delivered < inFlight.job.id
        BY <1>2, <2>2 DEF LaneHolds
      <4>3. pixels.id \in Nat
        BY DecodeFields
      <4>4. pixels.id <= delivered'
        BY <1>8, <2>2, <4>1, <4>2, <4>3
      <4>5. \A i \in Decoded' : pixels.id < posted'[i].job.id
        <5>1. \A i \in Decoded : pixels.id < posted'[i].job.id
          BY <2>6, <4>1
        <5>2. pixels.id < posted'[last].job.id
          BY <1>8, <2>2, <2>10, <4>1, <4>2, <4>3
        <5> QED  BY <2>6, <5>1, <5>2
      <4> QED  BY <3>2, <4>1, <4>4, <4>5
    <3>4. \A one, other \in Loader!Decodes :
              Held(one)' /\ Held(other)' /\ one.id = other.id => one = other
      BY <1>2, <3>1 DEF HeldAreOfBefore
    <3> QED  BY <3>3, <3>4 DEF HeldAreOfBefore
  <2>9. AwaitedComes'
    <3>1. opened' = opened /\ open' = open
      BY <1>1 DEF ScreenStays
    <3>2. \A i \in Decoded' : IsOfPhotograph(posted[i].job)'
      BY <1>2, <1>5, <2>2, <2>3, <2>6, <3>1 DEF AwaitedComes, IsOfPhotograph
    <3> QED  BY <1>2, <1>5, <2>2, <2>3, <2>6, <3>1, <3>2 DEF AwaitedComes, IsOfPhotograph
  <2> QED  BY <1>3, <1>4, <2>4, <2>5, <2>7, <2>8, <2>9 DEF WindowInv, Ordered
<1> QED  BY <1>1, <1>9, <1>10, <1>11 DEF Loader!Thread

-----------------------------------------------------------------------------
(* The loader under the window's calls. *)

(* A cancel changes nothing else of the decode under way. *)
LEMMA FlightCancelled ==
    ASSUME inFlight \in Flights \cup {None}, Loader!CancelInFlight
    PROVE  /\ inFlight' \in Flights \cup {None} /\ (inFlight' # None <=> inFlight # None)
           /\ inFlight # None => inFlight'.job = inFlight.job /\ inFlight'.cancelled = TRUE
<1>1. CASE inFlight = None
  BY <1>1 DEF Loader!CancelInFlight
<1>2. CASE inFlight # None
  <2>1. inFlight \in Flights /\ inFlight' = [inFlight EXCEPT !.cancelled = TRUE]
    BY <1>2 DEF Loader!CancelInFlight
  <2>2. inFlight' \in Flights /\ inFlight'.job = inFlight.job /\ inFlight'.cancelled = TRUE
    BY <2>1 DEF Flights
  <2> QED  BY <1>2, <2>2, NoneApart
<1> QED  BY <1>1, <1>2

(* The calls of the window: a decode, its cancel, or none. *)
LaneStays ==
    /\ lastDecode' = lastDecode /\ waiting' = waiting /\ inFlight' = inFlight
    /\ delivered' = delivered /\ dropped' = dropped

LaneTyped ==
    /\ lastDecode \in Nat /\ delivered \in Nat /\ dropped \in Nat
    /\ waiting \in Loader!Decodes \cup {None} /\ inFlight \in Flights \cup {None}

(* What the decodes in the queue become when events go. *)
LEMMA DecodedShrink ==
    ASSUME WindowInv, NEW gone \in {0, 1}, Shrinks(gone)
    PROVE  /\ \A i \in Decoded' : /\ i + gone \in Decoded /\ posted'[i] = posted[i + gone]
                                  /\ posted'[i].job \in Loader!Decodes
                                  /\ posted'[i].job.id <= delivered
           /\ \A i, j \in Decoded' : i < j => posted'[i].job.id < posted'[j].job.id
<1>1. WindowTyped /\ LaneHolds
  BY DEF WindowInv
<1>2. /\ \A i \in Decoded' : i + gone \in Decoded /\ posted'[i] = posted[i + gone] /\ i \in Int
      /\ \A i \in Decoded : posted[i].job \in Loader!Decodes /\ posted[i].job.id <= delivered
  BY <1>1, KindsShrink, EventFields DEF LaneHolds
<1>3. ASSUME NEW i \in Decoded', NEW j \in Decoded', i < j
      PROVE  posted'[i].job.id < posted'[j].job.id
  <2>1. i + gone < j + gone
    BY <1>2, <1>3
  <2> QED  BY <1>1, <1>2, <2>1 DEF LaneHolds
<1> QED  BY <1>2, <1>3

(* The lane under the calls of the window. *)
LEMMA LaneMoves ==
    ASSUME WindowInv, NEW gone \in {0, 1}, Shrinks(gone),
           \/ LaneStays
           \/ Loader!CancelDecode
           \/ \E document_ \in Documents, options_ \in Options : Loader!Decode(document_, options_)
    PROVE  LaneHolds' /\ LaneTyped' /\ delivered' = delivered
<1>1. WindowTyped /\ LaneHolds /\ LaneTyped
  BY DEF WindowInv, WindowTyped, LaneTyped
<1>2. /\ \A i \in Decoded' : posted'[i].job.id <= delivered
      /\ \A i, j \in Decoded' : i < j => posted'[i].job.id < posted'[j].job.id
  BY DecodedShrink
<1>3. inFlight # None => inFlight.job \in Loader!Decodes /\ inFlight.job.id \in Nat
  <2>1. inFlight # None => inFlight.job \in Loader!Decodes
    BY <1>1 DEF LaneTyped, Flights
  <2> QED  BY <2>1, DecodeFields
<1>4. CASE LaneStays
  BY <1>1, <1>2, <1>4 DEF LaneStays, LaneHolds, LaneTyped
<1>5. CASE Loader!CancelDecode
  <2>1. /\ waiting' = None /\ dropped' = lastDecode /\ lastDecode' = lastDecode
        /\ delivered' = delivered
    BY <1>5 DEF Loader!CancelDecode
  <2>2. /\ inFlight' \in Flights \cup {None} /\ (inFlight' # None <=> inFlight # None)
        /\ inFlight # None => inFlight'.job = inFlight.job
    BY <1>1, <1>5, FlightCancelled DEF Loader!CancelDecode, LaneTyped
  <2>3. LaneTyped'
    BY <1>1, <2>1, <2>2 DEF LaneTyped
  <2>4. LaneHolds'
    BY <1>1, <1>2, <2>1, <2>2 DEF LaneHolds, LaneTyped
  <2> QED  BY <2>1, <2>3, <2>4
<1>6. CASE \E document_ \in Documents, options_ \in Options : Loader!Decode(document_, options_)
  <2>1. PICK document_ \in Documents, options_ \in Options : Loader!Decode(document_, options_)
    BY <1>6
  <2>2. /\ lastDecode < DecodeBound /\ lastDecode' = lastDecode + 1 /\ delivered' = delivered
        /\ waiting' = [id |-> lastDecode + 1, document |-> document_, options |-> options_]
        /\ dropped' = dropped
    BY <2>1 DEF Loader!Decode
  <2>3. waiting' \in Loader!Decodes /\ waiting'.id = lastDecode + 1
    <3>1. lastDecode + 1 \in 1 .. DecodeBound
      BY <1>1, <2>2, WindowAssumption DEF LaneTyped
    <3> QED  BY <2>2, <3>1 DEF Loader!Decodes
  <2>4. /\ inFlight' \in Flights \cup {None} /\ (inFlight' # None <=> inFlight # None)
        /\ inFlight # None => inFlight'.job = inFlight.job
    BY <1>1, <2>1, FlightCancelled DEF Loader!Decode, LaneTyped
  <2>5. LaneTyped'
    BY <1>1, <2>2, <2>3, <2>4 DEF LaneTyped
  <2>6. LaneHolds'
    BY <1>1, <1>2, <1>3, <2>2, <2>3, <2>4 DEF LaneHolds, LaneTyped
  <2> QED  BY <2>2, <2>5, <2>6
<1> QED  BY <1>4, <1>5, <1>6

(* The decode that the window awaits still comes. *)
LEMMA AwaitedMoves ==
    ASSUME WindowInv, NEW gone \in {0, 1}, Shrinks(gone), opened' \in Nat, opened' >= opened,
           \/ /\ LaneStays /\ open' = open /\ Awaited' \in {Awaited, 0}
              /\ gone = 1 /\ 1 \in Decoded /\ Awaited' # 0 => posted[1].job.id # Awaited
           \/ (LaneStays \/ Loader!CancelDecode) /\ Awaited' = 0
           \/ /\ \E options_ \in Options : Loader!Decode(open', options_)
              /\ open' \in Documents /\ open' <= opened' /\ Awaited' = lastDecode'
    PROVE  AwaitedComes'
<1>1. WindowTyped /\ LaneHolds /\ LaneTyped /\ AwaitedComes /\ opened \in Nat
  BY DEF WindowInv, WindowTyped, LaneTyped
<1>2. inFlight # None => inFlight.job \in Loader!Decodes
  BY <1>1 DEF LaneTyped, Flights
<1>3. \A i \in Decoded' : /\ i + gone \in Decoded /\ posted'[i] = posted[i + gone]
                          /\ posted'[i].job \in Loader!Decodes /\ posted'[i].job.id <= delivered
  BY DecodedShrink
(* Documents that were opened stay so. *)
<1>4. ASSUME NEW one \in Loader!Decodes, one.document <= opened
      PROVE  one.document <= opened' /\ one.id \in Nat /\ one.id # 0
  BY <1>1, <1>4, DecodeFields
<1>5. CASE /\ LaneStays /\ open' = open /\ Awaited' \in {Awaited, 0}
           /\ gone = 1 /\ 1 \in Decoded /\ Awaited' # 0 => posted[1].job.id # Awaited
  <2>1. ASSUME NEW one \in Loader!Decodes, IsOfPhotograph(one)
        PROVE  one.document <= opened' /\ (one.id = Awaited' => one.document = open')
    BY <1>4, <1>5, <2>1 DEF IsOfPhotograph
  <2>2. /\ waiting' # None => IsOfPhotograph(waiting)'
        /\ inFlight' # None => IsOfPhotograph(inFlight.job)'
    BY <1>1, <1>2, <1>5, <2>1 DEF AwaitedComes, IsOfPhotograph, LaneStays, LaneTyped
  <2>3. \A i \in Decoded' : IsOfPhotograph(posted[i].job)'
    BY <1>1, <1>3, <2>1 DEF AwaitedComes, IsOfPhotograph
  <2>4. ASSUME Awaited' # 0
        PROVE  /\ Awaited' = lastDecode' /\ dropped' < lastDecode'
               /\ \/ waiting' # None
                  \/ inFlight' # None /\ inFlight'.job.id = lastDecode'
                  \/ \E i \in Decoded' : posted'[i].job.id = lastDecode'
    <3>1. Awaited # 0 /\ Awaited' = Awaited
      BY <1>5, <2>4
    <3>2. CASE waiting # None \/ (inFlight # None /\ inFlight.job.id = lastDecode)
      BY <1>1, <1>5, <3>1, <3>2 DEF AwaitedComes, LaneStays
    <3>3. CASE \E i \in Decoded : posted[i].job.id = lastDecode
      <4>1. PICK i \in Decoded : posted[i].job.id = lastDecode
        BY <3>3
      <4>2. Awaited = lastDecode
        BY <1>1, <3>1 DEF AwaitedComes
      <4>3. ~(i <= gone)
        <5>1. i \in 1 .. Len(posted)
          BY DEF Decoded, At
        <5> QED  BY <1>5, <2>4, <4>1, <4>2, <5>1
      <4>4. i - gone \in Decoded' /\ posted'[i - gone] = posted[i]
        BY <1>1, <4>3, KindsShrink
      <4> QED  BY <1>1, <1>5, <3>1, <4>1, <4>4 DEF AwaitedComes, LaneStays
    <3> QED  BY <1>1, <3>1, <3>2, <3>3 DEF AwaitedComes
  <2> QED  BY <2>2, <2>3, <2>4 DEF AwaitedComes
<1>6. CASE (LaneStays \/ Loader!CancelDecode) /\ Awaited' = 0
  <2>1. ASSUME NEW one \in Loader!Decodes, IsOfPhotograph(one)
        PROVE  one.document <= opened' /\ (one.id = Awaited' => one.document = open')
    BY <1>4, <1>6, <2>1 DEF IsOfPhotograph
  <2>2. /\ waiting' \in {waiting, None}
        /\ inFlight' # None => inFlight # None /\ inFlight'.job = inFlight.job
    <3>1. CASE LaneStays
      BY <3>1 DEF LaneStays
    <3>2. CASE Loader!CancelDecode
      BY <1>1, <3>2, FlightCancelled DEF Loader!CancelDecode, LaneTyped
    <3> QED  BY <1>6, <3>1, <3>2
  <2>3. /\ waiting' # None => IsOfPhotograph(waiting)'
        /\ inFlight' # None => IsOfPhotograph(inFlight.job)'
    BY <1>1, <1>2, <2>1, <2>2 DEF AwaitedComes, IsOfPhotograph, LaneTyped
  <2>4. \A i \in Decoded' : IsOfPhotograph(posted[i].job)'
    BY <1>1, <1>3, <2>1 DEF AwaitedComes, IsOfPhotograph
  <2> QED  BY <1>6, <2>3, <2>4 DEF AwaitedComes
<1>7. CASE /\ \E options_ \in Options : Loader!Decode(open', options_)
           /\ open' \in Documents /\ open' <= opened' /\ Awaited' = lastDecode'
  <2>1. PICK options_ \in Options : Loader!Decode(open', options_)
    BY <1>7
  <2>2. /\ lastDecode' = lastDecode + 1 /\ dropped' = dropped
        /\ waiting' = [id |-> lastDecode + 1, document |-> open', options |-> options_]
    BY <2>1 DEF Loader!Decode
  <2>3. waiting' # None
    <3>1. lastDecode + 1 \in 1 .. DecodeBound
      BY <1>1, <2>1, WindowAssumption DEF LaneTyped, Loader!Decode
    <3>2. waiting' \in Loader!Decodes
      BY <1>7, <2>2, <3>1 DEF Loader!Decodes
    <3> QED  BY <3>2, NoneApart
  <2>4. inFlight' # None => inFlight # None /\ inFlight'.job = inFlight.job
    BY <1>1, <2>1, FlightCancelled DEF Loader!Decode, LaneTyped
  <2>5. ASSUME NEW one \in Loader!Decodes, IsOfPhotograph(one), one.id <= lastDecode
        PROVE  one.document <= opened' /\ (one.id = Awaited' => one.document = open')
    BY <1>1, <1>4, <1>7, <2>2, <2>5 DEF IsOfPhotograph, LaneTyped
  <2>6. inFlight' # None => IsOfPhotograph(inFlight.job)'
    BY <1>1, <1>2, <2>4, <2>5 DEF AwaitedComes, IsOfPhotograph, LaneHolds
  <2>7. \A i \in Decoded' : IsOfPhotograph(posted[i].job)'
    <3> SUFFICES ASSUME NEW i \in Decoded' PROVE IsOfPhotograph(posted[i].job)'
      OBVIOUS
    <3>1. /\ posted'[i].job \in Loader!Decodes /\ posted'[i].job.id <= delivered
          /\ IsOfPhotograph(posted'[i].job)
      BY <1>1, <1>3 DEF AwaitedComes
    <3>2. posted'[i].job.id <= lastDecode
      <4>1. delivered <= lastDecode /\ delivered \in Nat /\ lastDecode \in Nat
        BY <1>1 DEF LaneHolds, LaneTyped
      <4>2. posted'[i].job.id \in Nat
        BY <3>1, DecodeFields
      <4> QED  BY <3>1, <4>1, <4>2
    <3>3. PICK one : one = posted'[i].job
      OBVIOUS
    <3> QED  BY <2>5, <3>1, <3>2, <3>3 DEF IsOfPhotograph
  <2>8. IsOfPhotograph(waiting)'
    BY <1>7, <2>2 DEF IsOfPhotograph
  <2>9. dropped' < lastDecode'
    BY <1>1, <2>2 DEF LaneHolds, LaneTyped
  <2> QED  BY <1>7, <2>3, <2>6, <2>7, <2>8, <2>9 DEF AwaitedComes
<1> QED  BY <1>5, <1>6, <1>7

-----------------------------------------------------------------------------
(* The queue when the window takes an event. *)

(* What is on its way from the renderer stays in order when the window takes an event. *)
LEMMA QueueInOrder ==
    ASSUME WindowInv, NEW gone \in {0, 1}, Shrinks(gone), at' = at, job' = job,
           \/ lastRequest' = lastRequest /\ pending' \in {pending, None}
           \/ lastRequest' = lastRequest + 1,
           \/ latestShown' = latestShown /\ provisional' = provisional
           \/ /\ gone = 1 /\ 1 \in Results /\ latestShown' = posted[1].id
              /\ ~provisional' <=> Final(posted[1])
    PROVE  ResultsInOrder'
<1>1. WindowTyped /\ ResultsInOrder /\ lastRequest \in Nat /\ latestShown \in Nat
  BY DEF WindowInv, RendererInv, RendererTyped, WindowTyped
<1>2. /\ \A i \in Results' : i + gone \in Results /\ posted'[i] = posted[i + gone] /\ i \in Int
      /\ \A i \in Fallbacks' : i + gone \in Fallbacks /\ posted'[i] = posted[i + gone] /\ i \in Int
  BY <1>1, KindsShrink
<1>3. /\ \A i \in Results : posted[i].id \in Nat /\ i \in Nat /\ i >= 1
      /\ \A i \in Fallbacks : posted[i].id \in Nat /\ i \in Nat /\ i >= 1
  BY <1>1, EventFields
<1>4. ASSUME NEW id \in Nat, NEW final, Passed(id, final)
      PROVE  Passed(id, final)'
  BY <1>1, <1>4 DEF Passed, Rendering, Pausing
<1>5. ASSUME NEW i \in Results'
      PROVE  Passed(posted[i].id, Final(posted[i]))'
  <2>1. PICK k : k = i + gone
    OBVIOUS
  <2>2. /\ k \in Results /\ posted'[i] = posted[k] /\ posted[k].id \in Nat
        /\ Passed(posted[k].id, Final(posted[k]))
    BY <1>1, <1>2, <1>3, <2>1 DEF ResultsInOrder
  <2>3. PICK id, final : id = posted[k].id /\ final = Final(posted[k])
    OBVIOUS
  <2>4. Passed(id, final)'
    BY <1>4, <2>2, <2>3
  <2> QED  BY <2>2, <2>3, <2>4 DEF Passed, Final
<1>6. ASSUME NEW i \in Fallbacks'
      PROVE  Passed(posted[i].id, TRUE)'
  <2>1. PICK k : k = i + gone
    OBVIOUS
  <2>2. /\ k \in Fallbacks /\ posted'[i] = posted[k] /\ posted[k].id \in Nat
        /\ Passed(posted[k].id, TRUE)
    BY <1>1, <1>2, <1>3, <2>1 DEF ResultsInOrder
  <2>3. PICK id : id = posted[k].id
    OBVIOUS
  <2>4. Passed(id, TRUE)'
    BY <1>4, <2>2, <2>3
  <2> QED  BY <2>2, <2>3, <2>4 DEF Passed
(* What was shown last is what was, or the result that was first in the queue. *)
<1>7. PICK id, final :
          /\ id = latestShown' /\ (final <=> ~provisional') /\ id \in Nat /\ Passed(id, final)
          /\ \A i \in Results' : Precedes(id, final, posted'[i].id, Final(posted'[i]))
          /\ \A i \in Fallbacks' : id <= posted'[i].id
  <2>1. CASE latestShown' = latestShown /\ provisional' = provisional
    <3>1. PICK final : final = ~provisional
      OBVIOUS
    <3>2. /\ Passed(latestShown, final)
          /\ \A i \in Results : Precedes(latestShown, final, posted[i].id, Final(posted[i]))
          /\ \A i \in Fallbacks : latestShown <= posted[i].id
      BY <1>1, <3>1 DEF ResultsInOrder
    <3> QED  BY <1>1, <1>2, <2>1, <3>1, <3>2
  <2>2. CASE /\ gone = 1 /\ 1 \in Results /\ latestShown' = posted[1].id
             /\ ~provisional' <=> Final(posted[1])
    <3>1. PICK final : final = Final(posted[1])
      OBVIOUS
    <3>2. Passed(posted[1].id, final) /\ posted[1].id \in Nat
      BY <1>1, <1>3, <2>2, <3>1 DEF ResultsInOrder
    <3>3. ASSUME NEW i \in Results'
          PROVE  Precedes(posted[1].id, final, posted'[i].id, Final(posted'[i]))
      <4>1. i + 1 \in Results /\ posted'[i] = posted[i + 1] /\ 1 < i + 1
        <5>1. i + 1 \in Results /\ posted'[i] = posted[i + 1] /\ i \in Int
          BY <1>2, <2>2
        <5>2. i >= 1
          BY DEF Results, At
        <5> QED  BY <5>1, <5>2
      <4> QED  BY <1>1, <2>2, <3>1, <4>1 DEF ResultsInOrder
    <3>4. ASSUME NEW i \in Fallbacks' PROVE posted[1].id <= posted'[i].id
      <4>1. i + 1 \in Fallbacks /\ posted'[i] = posted[i + 1] /\ 1 < i + 1
        <5>1. i + 1 \in Fallbacks /\ posted'[i] = posted[i + 1] /\ i \in Int
          BY <1>2, <2>2
        <5>2. i >= 1
          BY DEF Fallbacks, At
        <5> QED  BY <5>1, <5>2
      <4> QED  BY <1>1, <2>2, <4>1 DEF ResultsInOrder
    <3> QED  BY <2>2, <3>1, <3>2, <3>3, <3>4
  <2> QED  BY <2>1, <2>2
<1>8. Passed(id, final)'
  BY <1>4, <1>7
<1>9. Passed(latestShown, ~provisional)'
  BY <1>7, <1>8 DEF Passed
<1>10. /\ \A i \in Results' :
              Precedes(latestShown', ~provisional', posted'[i].id, Final(posted'[i]))
       /\ \A i \in Fallbacks' : latestShown' <= posted'[i].id
  BY <1>7 DEF Precedes
<1>11. ASSUME NEW i \in Results', NEW j \in Results', i < j
       PROVE  Precedes(posted'[i].id, Final(posted'[i]), posted'[j].id, Final(posted'[j]))
  <2>1. i + gone < j + gone
    BY <1>2, <1>11
  <2> QED  BY <1>1, <1>2, <2>1 DEF ResultsInOrder
<1>12. ASSUME NEW i \in Results', NEW j \in Fallbacks', i < j
       PROVE  posted'[i].id <= posted'[j].id
  <2>1. i + gone < j + gone
    BY <1>2, <1>12
  <2> QED  BY <1>1, <1>2, <2>1 DEF ResultsInOrder
<1>13. ASSUME NEW i \in Fallbacks', NEW j \in Results', i < j
       PROVE  posted'[i].id < posted'[j].id
  <2>1. i + gone < j + gone
    BY <1>2, <1>13
  <2> QED  BY <1>1, <1>2, <2>1 DEF ResultsInOrder
<1> QED  BY <1>5, <1>6, <1>9, <1>10, <1>11, <1>12, <1>13 DEF ResultsInOrder, Precedes, Final

(* What brings pixels is what did. *)
LEMMA CarriersShrink ==
    ASSUME WindowInv, NEW gone \in {0, 1}, Shrinks(gone)
    PROVE  /\ \A i \in Carriers' : /\ i + gone \in Carriers /\ posted'[i] = posted[i + gone]
                                   /\ posted'[i].id = posted[i + gone].id /\ i \in Int /\ i >= 1
                                   /\ Pixels(posted'[i]) = Pixels(posted[i + gone])
                                   /\ posted'[i].background = posted[i + gone].background
                                   /\ Held(Pixels(posted'[i]))
                                   /\ Pixels(posted'[i]) \in Loader!Decodes
           /\ \A i, j \in Carriers' : i < j => Pixels(posted'[i]).id <= Pixels(posted'[j]).id
<1>1. WindowTyped /\ PixelsInOrder
  BY DEF WindowInv
<1>2. \A i \in Carriers' : i + gone \in Carriers /\ posted'[i] = posted[i + gone] /\ i \in Int
  BY <1>1, KindsShrink
<1>3. \A i \in Carriers' : i >= 1
  BY DEF Carriers, At
<1>4. \A i \in Carriers : Pixels(posted[i]) \in Loader!Decodes /\ Held(Pixels(posted[i]))
  <2>1. \A i \in Carriers : Pixels(posted[i]) \in Loader!Decodes
    BY <1>1, EventFields
  <2> QED  BY <2>1, NoneApart DEF Held
<1>5. ASSUME NEW i \in Carriers', NEW j \in Carriers', i < j
      PROVE  Pixels(posted'[i]).id <= Pixels(posted'[j]).id
  <2>1. i + gone < j + gone
    BY <1>2, <1>5
  <2> QED  BY <1>1, <1>2, <2>1 DEF PixelsInOrder
<1> QED  BY <1>2, <1>3, <1>4, <1>5

(* Results of the photograph that is open stay told from those of one left. *)
LEMMA LeftBehindKept ==
    ASSUME WindowInv, NEW gone \in {0, 1}, Shrinks(gone), job' = job,
           open' = open, firstRequest' = firstRequest,
           pending' # None => pending'.id >= firstRequest
    PROVE  LeftBehind'
<1>1. LeftBehind
  BY DEF WindowInv
<1>2. \A i \in Carriers' : OfOpen(posted'[i].id, Pixels(posted'[i]))
  BY <1>1, CarriersShrink DEF LeftBehind
<1> QED  BY <1>1, <1>2 DEF LeftBehind, OfOpen, Pixels

(* A picture on screen or on its way to follow is still there when it matters. *)
LEMMA FollowsOn ==
    ASSUME WindowInv, NEW gone \in {0, 1}, Shrinks(gone), NEW id \in Nat,
           NEW pixels \in Loader!Decodes, Held(pixels), NEW i \in Int, i > gone,
           Follows(id, pixels, i), id >= firstRequest,
           \/ /\ image' = image
              /\ gone = 1 /\ 1 \in Results /\ posted[1].kind = "picture" /\ Final(posted[1])
                 => posted[1].id < firstRequest
           \/ /\ gone = 1 /\ 1 \in Results /\ 1 \in Carriers /\ image' # None
              /\ image'.source = Pixels(posted[1]) /\ Pixels(posted[1]).id <= pixels.id
    PROVE  Follows(id, pixels, i - gone)'
<1>1. WindowTyped /\ PixelsInOrder /\ HeldAreOfBefore
  BY DEF WindowInv
<1>2. CASE image # None /\ image.source = pixels
  <2>1. CASE image' = image
    BY <1>2, <2>1 DEF Follows
  <2>2. CASE /\ gone = 1 /\ 1 \in Results /\ 1 \in Carriers /\ image' # None
             /\ image'.source = Pixels(posted[1]) /\ Pixels(posted[1]).id <= pixels.id
    <3>1. /\ Pixels(posted[1]) \in Loader!Decodes /\ Held(Pixels(posted[1]))
          /\ Pixels(posted[1]).id \in Nat /\ pixels.id \in Nat
      <4>1. Pixels(posted[1]) \in Loader!Decodes
        BY <1>1, <2>2, EventFields
      <4> QED  BY <2>2, <4>1, DecodeFields DEF Held
    <3>2. pixels.id <= Pixels(posted[1]).id
      BY <1>1, <1>2, <2>2 DEF PixelsInOrder
    <3>3. Pixels(posted[1]) = pixels
      BY <1>1, <2>2, <3>1, <3>2 DEF HeldAreOfBefore
    <3> QED  BY <2>2, <3>3 DEF Follows
  <2> QED  BY <2>1, <2>2
<1>3. CASE \E j \in Results : /\ j < i /\ posted[j].kind = "picture" /\ Final(posted[j])
                              /\ posted[j].id = id /\ posted[j].image.source = pixels
  <2>1. PICK j \in Results : /\ j < i /\ posted[j].kind = "picture" /\ Final(posted[j])
                             /\ posted[j].id = id /\ posted[j].image.source = pixels
    BY <1>3
  <2>2. /\ j \in Int /\ j >= 1
        /\ j <= gone \/ (j - gone \in Results' /\ posted'[j - gone] = posted[j])
    BY <1>1, KindsShrink
  <2>3. CASE j <= gone
    <3>1. gone = 1 /\ j = 1
      BY <2>2, <2>3
    <3>2. ~(posted[1].id < firstRequest)
      BY <1>1, <2>1, <3>1 DEF WindowTyped
    <3>3. image' # None /\ image'.source = Pixels(posted[1])
      BY <2>1, <3>1, <3>2
    <3>4. Pixels(posted[1]) = pixels
      BY <2>1, <3>1 DEF Pixels
    <3> QED  BY <3>3, <3>4 DEF Follows
  <2>4. CASE j - gone \in Results' /\ posted'[j - gone] = posted[j]
    <3>1. j - gone < i - gone
      BY <2>1, <2>2
    <3> QED  BY <2>1, <2>4, <3>1 DEF Follows, Final
  <2> QED  BY <2>2, <2>3, <2>4
<1> QED  BY <1>2, <1>3 DEF Follows

(* What is to lie beneath still has its picture before it. *)
LEMMA BeneathKept ==
    ASSUME WindowInv, NEW gone \in {0, 1}, Shrinks(gone), at' = at, job' = job,
           firstRequest' = firstRequest,
           \/ /\ image' = image
              /\ gone = 1 /\ 1 \in Results /\ posted[1].kind = "picture" /\ Final(posted[1])
                 => posted[1].id < firstRequest
           \/ /\ gone = 1 /\ 1 \in Results /\ 1 \in Carriers /\ image' # None
              /\ image'.source = Pixels(posted[1])
    PROVE  BeneathFollows'
<1>1. WindowTyped /\ PixelsInOrder /\ BeneathFollows /\ RendererTyped /\ PlaceHolds
  BY DEF WindowInv, RendererInv
<1>2. ASSUME NEW id \in Nat, NEW pixels \in Loader!Decodes, Held(pixels), NEW i \in Int, i > gone,
             Follows(id, pixels, i), id >= firstRequest,
             gone = 1 /\ 1 \in Carriers => Pixels(posted[1]).id <= pixels.id
      PROVE  Follows(id, pixels, i - gone)'
  BY <1>2, FollowsOn
<1>3. ASSUME NEW i \in Fallbacks', posted'[i].id >= firstRequest'
      PROVE  Follows(posted[i].id, Pixels(posted[i]), i)'
  <2>1. PICK k : k = i + gone
    OBVIOUS
  <2>2. /\ k \in Fallbacks /\ posted'[i] = posted[k] /\ i \in Int /\ i >= 1
    <3>1. i >= 1
      BY DEF Fallbacks, At
    <3> QED  BY <1>1, <2>1, <3>1, KindsShrink
  <2>3. k \in Carriers /\ k \in Int /\ posted[k].id \in Nat /\ Pixels(posted[k]) \in Loader!Decodes
    BY <1>1, <2>2, EventFields
  <2>4. k > gone /\ k - gone = i
    BY <2>1, <2>2, <2>3
  <2>5. PICK id, pixels : id = posted[k].id /\ pixels = Pixels(posted[k])
    OBVIOUS
  <2>6. /\ id \in Nat /\ pixels \in Loader!Decodes /\ Held(pixels) /\ id >= firstRequest
        /\ Follows(id, pixels, k)
    BY <1>1, <1>3, <2>2, <2>3, <2>5, NoneApart DEF Held, BeneathFollows
  <2>7. gone = 1 /\ 1 \in Carriers => Pixels(posted[1]).id <= pixels.id
    <3>1. gone = 1 => 1 < k
      BY <2>3, <2>4
    <3> QED  BY <1>1, <2>3, <2>5, <3>1 DEF PixelsInOrder
  <2>8. Follows(id, pixels, i)'
    BY <1>2, <2>3, <2>4, <2>6, <2>7
  <2> QED  BY <2>2, <2>5, <2>8 DEF Follows, Pixels
<1>4. ASSUME Pausing, job.id >= firstRequest
      PROVE  Follows(job.id, job.source, Len(posted) + 1)'
  <2>1. job # None /\ job \in Jobs /\ job.source = backgroundFor.source
    BY <1>1, <1>4 DEF Pausing, PlaceHolds, RendererTyped
  <2>2. PICK id, pixels, i, k : /\ id = job.id /\ pixels = job.source /\ i = Len(posted) + 1
                                /\ k = Len(posted') + 1
    OBVIOUS
  <2>3. /\ id \in Nat /\ pixels \in Loader!Decodes /\ Held(pixels) /\ id >= firstRequest
        /\ Follows(id, pixels, i)
    BY <1>1, <1>4, <2>1, <2>2, NoneApart DEF Jobs, Held, BeneathFollows
  <2>4. i \in Int /\ i > gone /\ i - gone = k
    <3>1. /\ Len(posted) \in Nat /\ Len(posted') \in Nat /\ Len(posted') = Len(posted) - gone
      BY <1>1 DEF WindowTyped, Shrinks
    <3> QED  BY <2>2, <3>1
  <2>5. gone = 1 /\ 1 \in Carriers => Pixels(posted[1]).id <= pixels.id
    BY <1>1, <2>1, <2>2, <2>3, NoneApart DEF PixelsInOrder
  <2>6. Follows(id, pixels, k)'
    BY <1>2, <2>3, <2>4, <2>5
  <2> QED  BY <2>2, <2>6 DEF Follows
<1>5. \A i \in Results' : posted'[i].kind = "picture" /\ posted'[i].background # None =>
          posted'[i].background.source = posted'[i].image.source
  BY <1>1, KindsShrink DEF BeneathFollows
<1>6. Pausing' = Pausing
  BY DEF Pausing
<1> QED  BY <1>3, <1>4, <1>5, <1>6 DEF BeneathFollows

(* The newest request stays owed, or its result was the first in the queue. *)
LEMMA OwedShrinks ==
    ASSUME WindowInv, NEW gone \in {0, 1}, Shrinks(gone), at' = at, job' = job,
           pending' = pending, sourceChanged' = sourceChanged, lastRequest' = lastRequest
    PROVE  /\ Owed => \/ Owed'
                      \/ gone = 1 /\ 1 \in Results /\ Final(posted[1]) /\ posted[1].id = lastRequest
           /\ Owed' => Owed
<1>1. WindowTyped
  BY DEF WindowInv
<1>2. Rendering' = Rendering
  BY DEF Rendering
<1>3. ASSUME Owed
      PROVE  \/ Owed'
             \/ gone = 1 /\ 1 \in Results /\ Final(posted[1]) /\ posted[1].id = lastRequest
  <2>1. CASE pending # None \/ (Rendering /\ job.id = lastRequest /\ ~sourceChanged)
    BY <1>2, <2>1 DEF Owed
  <2>2. CASE \E i \in Results : Final(posted[i]) /\ posted[i].id = lastRequest
    <3>1. PICK i \in Results : Final(posted[i]) /\ posted[i].id = lastRequest
      BY <2>2
    <3>2. /\ i \in Int /\ i >= 1
          /\ i <= gone \/ (i - gone \in Results' /\ posted'[i - gone] = posted[i])
      BY <1>1, KindsShrink
    <3>3. CASE i <= gone
      <4>1. i = 1 /\ gone = 1
        BY <3>2, <3>3
      <4> QED  BY <3>1, <4>1
    <3>4. CASE i - gone \in Results' /\ posted'[i - gone] = posted[i]
      BY <3>1, <3>4 DEF Owed, Final
    <3> QED  BY <3>2, <3>3, <3>4
  <2> QED  BY <1>3, <2>1, <2>2 DEF Owed
<1>4. ASSUME Owed' PROVE Owed
  <2>1. CASE pending' # None \/ (Rendering' /\ job'.id = lastRequest' /\ ~sourceChanged')
    BY <1>2, <2>1 DEF Owed
  <2>2. CASE \E i \in Results' : Final(posted'[i]) /\ posted'[i].id = lastRequest'
    BY <1>1, <2>2, KindsShrink DEF Owed
  <2> QED  BY <1>4, <2>1, <2>2 DEF Owed, Final
<1> QED  BY <1>3, <1>4

(* The window takes an event from the queue and asks for nothing. *)
Taken ==
    /\ posted # <<>>
    /\ posted' = Tail(posted)
    /\ RendererStays
    /\ LaneStays
    /\ opened' = opened /\ open' = open /\ options' = options /\ look' = look
    /\ decoded' = decoded /\ decodeRequest' = decodeRequest /\ firstRequest' = firstRequest
    /\ zoomed' = zoomed /\ ~landing /\ landing' = landing

(* ... and what it shows is what it did, or the picture that it takes. *)
ImageIsOf ==
    \/ /\ image' = image
       /\ 1 \in Results /\ posted[1].kind = "picture" /\ Final(posted[1])
          => posted[1].id < firstRequest
    \/ /\ 1 \in Results /\ 1 \in Carriers /\ image' # None /\ image' \in Shown
       /\ image'.source = Pixels(posted[1])

LatestIsOf ==
    \/ latestShown' = latestShown /\ provisional' = provisional
    \/ 1 \in Results /\ latestShown' = posted[1].id /\ (~provisional' <=> Final(posted[1]))

(* All but the newest request, the busy period and what lies beneath depends only on that. *)
LEMMA HeadTaken ==
    ASSUME WindowInv, Taken, ImageIsOf, LatestIsOf,
           redecode' \in {redecode, None}, failedOptions' \in Options \cup {None},
           beneath' \in Images \cup {None}, busy' \in BOOLEAN, reporting' \in BOOLEAN,
           provisional' \in BOOLEAN,
           1 \in Decoded /\ Awaited' # 0 => posted[1].job.id # Awaited
    PROVE  /\ RendererInv' /\ WindowTyped' /\ WindowAlone' /\ LaneHolds' /\ HeldAreOfBefore'
           /\ AwaitedComes' /\ ResultsInOrder' /\ LeftBehind' /\ PixelsInOrder' /\ BeneathFollows'
<1>1. /\ WindowTyped /\ WindowAlone /\ LaneHolds /\ RendererInv /\ PixelsInOrder /\ LeftBehind
      /\ ResultsInOrder /\ DocumentHolds /\ RendererTyped /\ RequestsHold
  BY DEF WindowInv, RendererInv
<1>2. Shrinks(1) /\ Event = posted[1] /\ 1 \in 1 .. Len(posted)
  BY <1>1, QueueShrinks DEF Taken
<1> DEFINE gone == 1
<1>3. gone \in {0, 1} /\ Shrinks(gone) /\ gone = 1
  BY <1>2
<1> HIDE DEF gone
<1>4. RendererInv'
  BY <1>1, RendererKept DEF Taken
<1>5. LaneHolds' /\ LaneTyped' /\ delivered' = delivered
  BY <1>3, LaneMoves DEF Taken
<1>6. /\ at' = at /\ job' = job /\ lastRequest' = lastRequest /\ pending' = pending
      /\ backgroundFor' = backgroundFor
  BY DEF Taken, RendererStays
<1>7. /\ 1 \in Results => /\ posted[1].id \in Nat /\ posted[1].id <= lastRequest
                          /\ 1 \in Carriers \/ posted[1].kind = "failure"
      /\ 1 \in Carriers => Pixels(posted[1]) \in Loader!Decodes /\ Held(Pixels(posted[1]))
  <2>1. 1 \in Results => posted[1].id \in Nat /\ (1 \in Carriers \/ posted[1].kind = "failure")
    BY <1>1, EventFields
  <2>2. 1 \in Results => posted[1].id <= lastRequest
    BY <1>1 DEF ResultsInOrder, Passed
  <2>3. 1 \in Carriers => Pixels(posted[1]) \in Loader!Decodes
    BY <1>1, EventFields
  <2> QED  BY <2>1, <2>2, <2>3, NoneApart DEF Held
<1>8. WindowTyped'
  <2>1. zoomed' \in BOOLEAN /\ landing' \in BOOLEAN
    BY Zenon, <1>1 DEF Taken, WindowTyped
  <2>2. image' \in Shown \cup {None}
    BY <1>1 DEF ImageIsOf, WindowTyped
  <2>3. latestShown' \in Nat /\ latestShown' <= lastRequest
    BY <1>1, <1>7 DEF LatestIsOf, WindowTyped
  <2>4. redecode' \in Redecodes \cup {None} /\ posted' \in Seq(Events)
    BY <1>1, <1>2 DEF WindowTyped, Shrinks
  <2> QED  BY <1>1, <1>5, <1>6, <2>1, <2>2, <2>3, <2>4 DEF WindowTyped, LaneTyped, Taken
<1>9. WindowAlone'
  BY <1>1 DEF WindowAlone, Taken, RendererStays
<1>10. HeldAreOfBefore'
  <2>1. ASSUME NEW pixels \in Loader!Decodes, Held(pixels)'
        PROVE  Held(pixels)
    <3>1. pixels # None
      BY NoneApart
    <3>2. CASE pixels = decoded' \/ pixels = backgroundFor'.source
      BY <1>6, <3>1, <3>2 DEF Held, Taken
    <3>3. CASE image' # None /\ pixels = image'.source
      BY <1>7, <3>1, <3>3 DEF Held, ImageIsOf
    <3>4. CASE \E i \in Carriers' : pixels = Pixels(posted'[i])
      BY <1>3, <3>4, CarriersShrink
    <3> QED  BY <2>1, <3>2, <3>3, <3>4 DEF Held, Pixels
  <2>2. \A i \in Decoded' : \E k \in Decoded : posted'[i].job = posted[k].job
    BY <1>3, DecodedShrink
  <2>3. opened' >= opened
    BY <1>1 DEF Taken, WindowTyped
  <2> QED  BY <1>5, <1>8, <2>1, <2>2, <2>3, HeldKept
<1>11. AwaitedComes'
  <2>1. Awaited' \in {Awaited, 0}
    BY <1>1, NoneApart DEF Awaited, Taken, DocumentHolds
  <2>2. opened' \in Nat /\ opened' >= opened
    BY <1>1 DEF Taken, WindowTyped
  <2> QED  BY <1>3, <2>1, <2>2, AwaitedMoves DEF Taken
<1>12. ResultsInOrder'
  BY <1>3, <1>6, QueueInOrder DEF LatestIsOf
<1>13. LeftBehind'
  <2>1. pending' # None => pending'.id >= firstRequest
    BY <1>1, <1>6 DEF LeftBehind
  <2> QED  BY <1>3, <1>6, <2>1, LeftBehindKept DEF Taken
<1>14. BeneathFollows'
  BY <1>3, <1>6, BeneathKept DEF ImageIsOf, Taken
<1>15. PixelsInOrder'
  <2>1. \A i, j \in Carriers' : i < j => Pixels(posted'[i]).id <= Pixels(posted'[j]).id
    BY <1>3, CarriersShrink
  <2>2. \A i \in Carriers' :
            /\ i + 1 \in Carriers /\ i \in Int /\ i >= 1
            /\ Pixels(posted'[i]) = Pixels(posted[i + 1])
    BY <1>3, CarriersShrink
  <2>3. /\ backgroundFor.source # None =>
               \A i \in Carriers' : Pixels(posted'[i]).id <= backgroundFor.source.id
        /\ decoded # None => \A i \in Carriers' : Pixels(posted'[i]).id <= decoded.id
    BY <1>1, <2>2 DEF PixelsInOrder
  <2>4. ASSUME image' # None
        PROVE  /\ \A i \in Carriers' : image'.source.id <= Pixels(posted'[i]).id
               /\ backgroundFor.source # None => image'.source.id <= backgroundFor.source.id
               /\ decoded # None => image'.source.id <= decoded.id
    <3>1. CASE image' = image
      BY <1>1, <2>2, <2>4, <3>1 DEF PixelsInOrder
    <3>2. CASE 1 \in Carriers /\ image'.source = Pixels(posted[1])
      <4>1. \A i \in Carriers' : 1 < i + 1 /\ i + 1 \in Carriers
        BY <2>2
      <4> QED  BY <1>1, <2>2, <3>2, <4>1 DEF PixelsInOrder
    <3> QED  BY <3>1, <3>2 DEF ImageIsOf
  <2> QED  BY <1>1, <1>6, <2>1, <2>3, <2>4 DEF PixelsInOrder, Taken, Pixels
<1> QED  BY <1>4, <1>5, <1>8, <1>9, <1>10, <1>11, <1>12, <1>13, <1>14, <1>15

(* What Taken leaves to be shown, when the newest request is not the one that is taken. *)
LEMMA TakenNewest ==
    ASSUME WindowInv, Taken
    PROVE  /\ Owed => Owed' \/ (1 \in Results /\ Final(posted[1]) /\ posted[1].id = lastRequest)
           /\ Owed' => Owed
           /\ \/ image' = image
              \/ /\ 1 \in Results /\ posted[1].kind = "picture" /\ image' # None
                 /\ image'.id = posted[1].id /\ image'.source = posted[1].image.source
                 /\ image'.look = posted[1].image.look
              => NewestHolds'
<1>1. WindowTyped /\ NewestHolds /\ ResultsInOrder /\ RendererTyped
  BY DEF WindowInv, RendererInv
<1>2. Shrinks(1)
  BY <1>1, QueueShrinks DEF Taken
<1> DEFINE gone == 1
<1>3. gone \in {0, 1} /\ Shrinks(gone) /\ gone = 1
  BY <1>2
<1> HIDE DEF gone
<1>4. /\ at' = at /\ job' = job /\ lastRequest' = lastRequest /\ pending' = pending
      /\ sourceChanged' = sourceChanged
  BY DEF Taken, RendererStays
<1>5. /\ Owed => Owed' \/ (1 \in Results /\ Final(posted[1]) /\ posted[1].id = lastRequest)
      /\ Owed' => Owed
  BY <1>3, <1>4, OwedShrinks
<1>6. ASSUME \/ image' = image
             \/ /\ 1 \in Results /\ posted[1].kind = "picture" /\ image' # None
                /\ image'.id = posted[1].id /\ image'.source = posted[1].image.source
                /\ image'.look = posted[1].image.look
      PROVE  NewestHolds'
  <2>1. image' # None => image'.id <= lastRequest
    BY <1>1, <1>6 DEF NewestHolds, ResultsInOrder, Passed
  <2>2. ASSUME decoded # None
        PROVE  /\ pending' # None => pending'.look = look
               /\ job' # None /\ job'.id = lastRequest => IsNewest(job'.source, job'.look)
               /\ \A i \in Results' : posted'[i].kind = "picture" /\ posted'[i].id = lastRequest =>
                      IsNewest(posted'[i].image.source, posted'[i].image.look)
               /\ image' # None /\ image'.id = lastRequest => IsNewest(image'.source, image'.look)
    <3>1. ~landing
      BY DEF Taken
    <3>2. \A i \in Results' : posted'[i].kind = "picture" /\ posted'[i].id = lastRequest =>
              IsNewest(posted'[i].image.source, posted'[i].image.look)
      BY <1>1, <1>3, <2>2, <3>1, KindsShrink DEF NewestHolds
    <3> QED  BY <1>1, <1>4, <1>6, <2>2, <3>1, <3>2 DEF NewestHolds
  <2> QED  BY <1>4, <2>1, <2>2 DEF NewestHolds, IsNewest, Taken
<1> QED  BY <1>5, <1>6

-----------------------------------------------------------------------------
(* What lands and brings no pixels. *)

(* The first event is taken and the picture beneath it shown, or it is of a photograph left. *)
LEMMA TakenBeneath ==
    ASSUME WindowInv, Taken,
           \/ 1 \notin Carriers /\ beneath' = beneath
           \/ 1 \in Carriers /\ posted[1].id < firstRequest /\ beneath' = beneath
           \/ 1 \in Carriers /\ ~(posted[1].id < firstRequest) /\ beneath' = posted[1].background
    PROVE  BeneathHolds'
<1>1. /\ WindowTyped /\ BeneathHolds /\ BeneathFollows /\ LeftBehind /\ DocumentHolds
      /\ decoded' = decoded /\ background' = background /\ firstRequest' = firstRequest
      /\ firstRequest \in Nat
  BY DEF WindowInv, WindowTyped, Taken, RendererStays
<1>2. Shrinks(1)
  BY <1>1, QueueShrinks DEF Taken
<1> DEFINE gone == 1
<1>3. gone \in {0, 1} /\ Shrinks(gone) /\ gone = 1
  BY <1>2
<1> HIDE DEF gone
<1>4. \A k \in Carriers' : /\ k + 1 \in Carriers /\ posted'[k].id = posted[k + 1].id
                           /\ posted'[k] = posted[k + 1] /\ k \in Int /\ k >= 1
  BY <1>3, CarriersShrink
<1>5. SUFFICES ASSUME background # None, decoded # None, background.source = decoded
               PROVE  \/ \E i \in Carriers' : /\ posted'[i].background = background
                                              /\ \A k \in Carriers' : k <= i
                      \/ /\ beneath' = background
                         /\ \A k \in Carriers' : posted'[k].id < firstRequest
  BY <1>1 DEF BeneathHolds
<1>6. CASE \E i \in Carriers : posted[i].background = background /\ \A k \in Carriers : k <= i
  <2>1. PICK i \in Carriers : posted[i].background = background /\ \A k \in Carriers : k <= i
    BY <1>6
  <2>2. /\ i \in Int /\ i >= 1 /\ (i <= gone \/ (i - gone \in Carriers' /\ posted'[i - gone] = posted[i]))
    BY <1>1, <1>3, KindsShrink
  <2>3. CASE i - gone \in Carriers' /\ posted'[i - gone] = posted[i]
    <3>1. \A k \in Carriers' : k <= i - gone
      BY <1>3, <1>4, <2>1, <2>2
    <3> QED  BY <2>1, <2>3, <3>1
  <2>4. CASE i <= gone
    <3>1. i = 1 /\ 1 \in Carriers /\ posted[1].background = background
      BY <1>3, <2>1, <2>2, <2>4
    <3>2. \A k \in Carriers' : FALSE
      BY <1>4, <2>1, <3>1
    <3>3. Pixels(posted[1]) = decoded
      <4>1. \/ 1 \in Results /\ posted[1].kind = "picture" /\ posted[1].image.source = Pixels(posted[1])
            \/ 1 \in Fallbacks /\ Pixels(posted[1]) = posted[1].background.source
        BY <1>1, <3>1, EventFields
      <4> QED  BY <1>1, <1>5, <3>1, <4>1 DEF BeneathFollows
    <3>4. posted[1].id >= firstRequest /\ posted[1].id \in Nat
      BY <1>1, <1>5, <3>1, <3>3, EventFields DEF LeftBehind, OfOpen, DocumentHolds
    <3>5. ~(posted[1].id < firstRequest)
      BY <1>1, <3>4
    <3> QED  BY <3>1, <3>2, <3>5
  <2> QED  BY <2>2, <2>3, <2>4
<1>7. CASE beneath = background /\ \A k \in Carriers : posted[k].id < firstRequest
  BY <1>4, <1>7
<1> QED  BY <1>1, <1>5, <1>6, <1>7 DEF BeneathHolds

(* decodeLanded() of a decode that nobody awaits, or of a redecode that failed. *)
LEMMA DecodesTaken ==
    ASSUME WindowInv, DropDecode \/ RedecodeFails
    PROVE  WindowInv'
<1>1. /\ WindowTyped /\ DocumentHolds /\ BusyHolds /\ AwaitedComes /\ ResultsInOrder
      /\ ShownIsOfOpenPhoto
  BY DEF WindowInv
<1>2. /\ Taken /\ image' = image /\ latestShown' = latestShown /\ provisional' = provisional
      /\ beneath' = beneath /\ reporting' = reporting /\ Event.kind = "decoded"
      /\ \/ redecode' = redecode /\ failedOptions' = failedOptions /\ busy' = busy /\ ~FirstDecode /\ ~Redecode
         \/ /\ redecode # None /\ redecode' = None /\ failedOptions' = redecode.options
            /\ busy' = FALSE /\ Redecode
  BY DEF DropDecode, RedecodeFails, Receive, Taken, LaneStays, RendererStays, loader, renderer,
         window, document, decoding, view, Redecode
<1>3. /\ Event = posted[1] /\ 1 \in 1 .. Len(posted)
  BY <1>1, <1>2, QueueShrinks DEF Taken
<1>4. 1 \in Decoded /\ 1 \notin Results /\ 1 \notin Carriers
  BY <1>2, <1>3 DEF Decoded, Results, Carriers, At
<1>5. decodeRequest # 0 => redecode = None
  BY <1>1 DEF DocumentHolds
<1>6. redecode # None => redecode \in Redecodes /\ redecode.options \in Options
  BY <1>1 DEF WindowTyped, Redecodes
<1>7. redecode' \in {redecode, None} /\ failedOptions' \in Options \cup {None}
  BY <1>1, <1>2, <1>6 DEF WindowTyped
<1>8. busy' \in BOOLEAN /\ reporting' \in BOOLEAN /\ provisional' \in BOOLEAN
  BY Zenon, <1>1, <1>2 DEF WindowTyped
<1>9. Awaited' # 0 => posted[1].job.id # Awaited
  BY <1>2, <1>3, <1>5 DEF Awaited, FirstDecode, Redecode, Taken
<1>10. /\ RendererInv' /\ WindowTyped' /\ WindowAlone' /\ LaneHolds' /\ HeldAreOfBefore'
       /\ AwaitedComes' /\ ResultsInOrder' /\ LeftBehind' /\ PixelsInOrder' /\ BeneathFollows'
  <2>1. ImageIsOf /\ LatestIsOf /\ beneath' \in Images \cup {None}
    BY <1>1, <1>2, <1>4 DEF ImageIsOf, LatestIsOf, WindowTyped
  <2> QED  BY <1>2, <1>4, <1>7, <1>8, <1>9, <2>1, HeadTaken
<1>11. NewestHolds' /\ (Owed => Owed') /\ (Owed' => Owed)
  BY <1>2, <1>4, TakenNewest
<1>12. BeneathHolds'
  BY <1>2, <1>4, TakenBeneath
<1>13. DocumentHolds'
  <2>1. redecode # None => redecode.options = options /\ decoded # None
    BY <1>1 DEF DocumentHolds
  <2> QED  BY <1>1, <1>2, <2>1 DEF DocumentHolds, Taken
<1>14. ShownIsOfOpenPhoto'
  BY <1>1, <1>2 DEF ShownIsOfOpenPhoto, Taken
<1>15. BusyHolds'
  <2>1. lastRequest' = lastRequest
    BY <1>2 DEF Taken, RendererStays
  <2>2. Awaited' # 0 => busy'
    BY <1>1, <1>2, <1>5 DEF BusyHolds, Awaited, Taken
  <2>3. busy' => Awaited' # 0 \/ landing' \/ Owed'
    BY <1>1, <1>2, <1>11 DEF BusyHolds, Awaited, Taken
  <2> QED  BY <1>1, <1>2, <1>11, <2>1, <2>2, <2>3 DEF BusyHolds, Taken
<1> QED  BY <1>10, <1>11, <1>12, <1>13, <1>14, <1>15 DEF WindowInv

(* A result of the renderer is shown, reported, or of a photograph left. *)
LEMMA ResultsTaken ==
    ASSUME WindowInv, DropResult \/ ShowPicture \/ ReportFailure \/ ShowFallback
    PROVE  WindowInv'
<1>1. /\ WindowTyped /\ DocumentHolds /\ BusyHolds /\ AwaitedComes /\ ResultsInOrder
      /\ LeftBehind /\ BeneathFollows /\ ShownIsOfOpenPhoto /\ RendererTyped
  BY DEF WindowInv, RendererInv
<1>2. /\ Taken /\ redecode' = redecode /\ failedOptions' = failedOptions
      /\ Event.kind \in {"picture", "failure", "fallback"}
  BY DEF DropResult, ShowPicture, ReportFailure, ShowFallback, Receive, Stay, Taken, LaneStays,
         RendererStays, loader, renderer, document, decoding
<1>3. /\ Event = posted[1] /\ 1 \in 1 .. Len(posted)
  BY <1>1, <1>2, QueueShrinks DEF Taken
<1>4. /\ 1 \notin Decoded /\ (1 \in Results <=> Event.kind \in {"picture", "failure"})
      /\ (1 \in Fallbacks <=> Event.kind = "fallback")
      /\ (1 \in Carriers <=> Event.kind \in {"picture", "fallback"})
  BY <1>2, <1>3 DEF Decoded, Results, Carriers, Fallbacks, At
<1>5. /\ Event.id \in Nat /\ firstRequest \in Nat /\ latestShown \in Nat /\ lastRequest \in Nat
      /\ Event.kind = "picture" => /\ Event \in PictureEvents
                                   /\ Event.image \in Images /\ Event.whole \in BOOLEAN
                                   /\ Event.background \in Images \cup {None}
                                   /\ Event.provisional \in BOOLEAN
                                   /\ Pixels(Event) = Event.image.source
                                   /\ Final(Event) <=> ~Event.provisional
      /\ Event.kind = "fallback" => /\ Event.background \in Images
                                    /\ Pixels(Event) = Event.background.source
      /\ Event.kind = "failure" => Final(Event)
  <2>1. Event.id \in Nat /\ firstRequest \in Nat /\ latestShown \in Nat /\ lastRequest \in Nat
    BY <1>1, <1>2, <1>3, <1>4, EventFields DEF WindowTyped, RendererTyped
  <2>2. Event.kind = "picture" => Event \in PictureEvents
    <3>1. Event.kind = "picture" => Event \in PictureEvents \cup FailureEvents
      BY <1>1, <1>3, <1>4, EventFields
    <3> QED  BY <3>1 DEF FailureEvents
  <2>3. Event.kind = "fallback" => Event.background \in Images
    BY <1>1, <1>3, <1>4, EventFields
  <2>4. Event \in PictureEvents =>
            /\ Event.image \in Images /\ Event.whole \in BOOLEAN
            /\ Event.background \in Images \cup {None} /\ Event.provisional \in BOOLEAN
    BY DEF PictureEvents
  <2> QED  BY <2>1, <2>2, <2>3, <2>4 DEF Pixels, Final
(* The queue is in order: nothing in it is behind what is shown. *)
<1>6. 1 \in Results => ~Behind
  <2> SUFFICES ASSUME 1 \in Results PROVE ~Behind
    OBVIOUS
  <2>1. Precedes(latestShown, ~provisional, Event.id, Final(Event))
    BY <1>1, <1>3 DEF ResultsInOrder
  <2> QED  BY <1>4, <1>5, <2>1 DEF Precedes, Behind
<1>7. 1 \in Results => Event.id <= lastRequest
  BY <1>1, <1>3 DEF ResultsInOrder, Passed
<1>8. Awaited' = Awaited /\ (Awaited = 0 => decodeRequest = 0 /\ redecode = None)
  BY <1>1, <1>2 DEF Awaited, Taken, DocumentHolds
<1>9. /\ Owed => Owed' \/ (1 \in Results /\ Final(Event) /\ Event.id = lastRequest)
      /\ Owed' => Owed
      /\ \/ image' = image
         \/ /\ 1 \in Results /\ Event.kind = "picture" /\ image' # None
            /\ image'.id = Event.id /\ image'.source = Event.image.source
            /\ image'.look = Event.image.look
         => NewestHolds'
  BY <1>2, <1>3, TakenNewest
(* The newest result ends the busy period. *)
<1>10. ASSUME EndBusy
       PROVE  busy' \in BOOLEAN /\ (Awaited # 0 => busy') /\ (busy' => Awaited # 0 \/ Owed')
  <2> DEFINE ends == /\ decodeRequest = 0
                     /\ redecode = None
                     /\ Event.id >= lastRequest
                     /\ Event.kind = "failure" \/ (Event.kind = "picture" /\ ~Event.provisional)
  <2>1. busy' = (busy /\ ~ends)
    BY <1>10 DEF EndBusy
  <2>2. Awaited # 0 => ~ends /\ busy
    BY <1>1 DEF Awaited, BusyHolds
  <2>3. 1 \in Results /\ Final(Event) /\ Event.id = lastRequest /\ Awaited = 0 => ends
    BY <1>4, <1>5, <1>8
  <2>4. busy => Awaited # 0 \/ Owed
    BY <1>1, <1>2 DEF BusyHolds, Taken
  <2> HIDE DEF ends
  <2>5. busy' \in BOOLEAN
    BY Zenon, <2>1
  <2> QED  BY <1>9, <2>1, <2>2, <2>3, <2>4, <2>5
<1>11. ASSUME busy' \in BOOLEAN, Awaited # 0 => busy', busy' => Awaited # 0 \/ Owed',
              decoded # None => Owed' \/ (latestShown' = lastRequest /\ ~provisional')
       PROVE  BusyHolds'
  <2>1. lastRequest' = lastRequest /\ ~landing /\ ~landing' /\ decoded' = decoded
        /\ firstRequest' = firstRequest
    BY <1>2 DEF Taken, RendererStays
  <2>2. decoded # None => lastRequest >= firstRequest
    BY <1>1, <2>1 DEF BusyHolds
  <2> QED  BY <1>8, <1>11, <2>1, <2>2 DEF BusyHolds
<1>12. DocumentHolds'
  BY <1>1, <1>2 DEF DocumentHolds, Taken
<1>13. ASSUME ImageIsOf, LatestIsOf, beneath' \in Images \cup {None}, busy' \in BOOLEAN,
              reporting' \in BOOLEAN, provisional' \in BOOLEAN
       PROVE  /\ RendererInv' /\ WindowTyped' /\ WindowAlone' /\ LaneHolds' /\ HeldAreOfBefore'
              /\ AwaitedComes' /\ ResultsInOrder' /\ LeftBehind' /\ PixelsInOrder'
              /\ BeneathFollows'
  <2>1. redecode' \in {redecode, None} /\ failedOptions' \in Options \cup {None}
    BY <1>1, <1>2 DEF WindowTyped
  <2> QED  BY <1>2, <1>4, <1>13, <2>1, HeadTaken
<1>14. busy \in BOOLEAN /\ reporting \in BOOLEAN /\ provisional \in BOOLEAN /\ beneath \in Images \cup {None}
  BY <1>1 DEF WindowTyped
<1>15. decoded # None => Owed \/ (latestShown = lastRequest /\ ~provisional)
  BY <1>1, <1>2 DEF BusyHolds, Taken
<1>16. 1 \in Results => ~(latestShown = lastRequest /\ ~provisional)
  <2> SUFFICES ASSUME 1 \in Results PROVE ~(latestShown = lastRequest /\ ~provisional)
    OBVIOUS
  <2>1. Precedes(latestShown, ~provisional, Event.id, Final(Event))
    BY <1>1, <1>3 DEF ResultsInOrder
  <2> QED  BY <1>5, <1>7, <2>1 DEF Precedes
<1>17. CASE DropResult
  <2>1. /\ image' = image /\ latestShown' = latestShown /\ provisional' = provisional
        /\ beneath' = beneath /\ reporting' = reporting /\ EndBusy
        /\ \/ Event.id < firstRequest
           \/ Event.kind = "failure" /\ Event.id # lastRequest
    BY <1>4, <1>6, <1>17 DEF DropResult, view, Left
  <2>2. ImageIsOf /\ LatestIsOf
    BY <1>3, <2>1 DEF ImageIsOf, LatestIsOf
  <2>3. busy' \in BOOLEAN /\ (Awaited # 0 => busy') /\ (busy' => Awaited # 0 \/ Owed')
    BY <1>10, <2>1
  <2>4. reporting' \in BOOLEAN /\ provisional' \in BOOLEAN /\ beneath' \in Images \cup {None}
    BY <1>14, <2>1
  <2>5. NewestHolds'
    BY <1>9, <2>1
  <2>6. BeneathHolds'
    BY <1>2, <1>3, <1>4, <2>1, TakenBeneath
  <2>7. ShownIsOfOpenPhoto'
    BY <1>1, <1>2, <2>1 DEF ShownIsOfOpenPhoto, Taken
  <2>8. decoded # None => Owed' \/ (latestShown' = lastRequest /\ ~provisional')
    <3>1. decoded # None => lastRequest >= firstRequest
      BY <1>1, <1>2 DEF BusyHolds, Taken
    <3>2. 1 \in Results /\ Final(Event) /\ Event.id = lastRequest /\ decoded # None => FALSE
      BY <1>5, <2>1, <3>1
    <3> QED  BY <1>9, <1>15, <2>1, <3>2
  <2>9. BusyHolds'
    BY <1>11, <2>3, <2>8
  <2> QED  BY <1>12, <1>13, <2>2, <2>3, <2>4, <2>5, <2>6, <2>7, <2>9 DEF WindowInv
<1>18. CASE ShowPicture
  <2>1. /\ Event.kind = "picture" /\ ~(Event.id < firstRequest)
        /\ latestShown' = Event.id /\ provisional' = Event.provisional
        /\ image' = [id |-> Event.id, whole |-> Event.whole,
                     source |-> Event.image.source, look |-> Event.image.look]
        /\ beneath' = Event.background /\ reporting' = reporting /\ EndBusy
    BY <1>18 DEF ShowPicture, Receive, Left
  <2>2. /\ image' \in Shown /\ image'.id = Event.id /\ image'.source = Event.image.source
        /\ image'.look = Event.image.look
    BY <1>5, <2>1 DEF Shown, Images
  <2>3. image' # None
    BY <2>2, NoneApart
  <2>4. 1 \in Results /\ 1 \in Carriers
    BY <1>4, <2>1
  <2>5. ImageIsOf /\ LatestIsOf
    BY <1>3, <1>5, <2>1, <2>2, <2>3, <2>4 DEF ImageIsOf, LatestIsOf
  <2>6. busy' \in BOOLEAN /\ (Awaited # 0 => busy') /\ (busy' => Awaited # 0 \/ Owed')
    BY <1>10, <2>1
  <2>7. reporting' \in BOOLEAN /\ provisional' \in BOOLEAN /\ beneath' \in Images \cup {None}
    BY <1>5, <1>14, <2>1
  <2>8. NewestHolds'
    BY <1>9, <2>1, <2>2, <2>3, <2>4
  <2>9. BeneathHolds'
    BY <1>2, <1>3, <2>1, <2>4, TakenBeneath
  <2>10. ShownIsOfOpenPhoto'
    <3>1. Event.image.source.document = open
      BY <1>1, <1>3, <1>5, <2>1, <2>4 DEF LeftBehind, OfOpen
    <3>2. beneath' # None => beneath'.source = Event.image.source
      BY <1>1, <1>3, <2>1, <2>4 DEF BeneathFollows
    <3>3. open' = open
      BY <1>2 DEF Taken
    <3> QED  BY <2>2, <3>1, <3>2, <3>3 DEF ShownIsOfOpenPhoto
  <2>11. decoded # None => Owed' \/ (latestShown' = lastRequest /\ ~provisional')
    BY <1>5, <1>9, <1>15, <1>16, <2>1, <2>4
  <2>12. BusyHolds'
    BY <1>11, <2>6, <2>11
  <2> QED  BY <1>12, <1>13, <2>5, <2>6, <2>7, <2>8, <2>9, <2>10, <2>12 DEF WindowInv
<1>19. CASE ReportFailure
  <2>1. /\ Event.kind = "failure" /\ Event.id = lastRequest
        /\ latestShown' = Event.id /\ provisional' = FALSE /\ image' = image
        /\ beneath' = beneath /\ reporting' = TRUE /\ EndBusy
    BY <1>19 DEF ReportFailure, Receive
  <2>2. 1 \in Results /\ 1 \notin Carriers
    BY <1>4, <2>1
  <2>3. ImageIsOf /\ LatestIsOf
    BY <1>3, <1>5, <2>1, <2>2 DEF ImageIsOf, LatestIsOf
  <2>4. busy' \in BOOLEAN /\ (Awaited # 0 => busy') /\ (busy' => Awaited # 0 \/ Owed')
    BY <1>10, <2>1
  <2>5. reporting' \in BOOLEAN /\ provisional' \in BOOLEAN /\ beneath' \in Images \cup {None}
    BY Zenon, <1>14, <2>1
  <2>6. NewestHolds'
    BY <1>9, <2>1
  <2>7. BeneathHolds'
    BY <1>2, <2>1, <2>2, TakenBeneath
  <2>8. ShownIsOfOpenPhoto'
    BY <1>1, <1>2, <2>1 DEF ShownIsOfOpenPhoto, Taken
  <2>9. BusyHolds'
    BY <1>11, <2>1, <2>4
  <2> QED  BY <1>12, <1>13, <2>3, <2>4, <2>5, <2>6, <2>7, <2>8, <2>9 DEF WindowInv
<1>20. CASE ShowFallback
  <2>1. /\ Event.kind = "fallback" /\ ~(Event.id < firstRequest)
        /\ latestShown' = latestShown /\ provisional' = provisional /\ image' = image
        /\ beneath' = Event.background /\ reporting' = reporting /\ busy' = busy
    BY <1>20 DEF ShowFallback, Receive, Left
  <2>2. 1 \notin Results /\ 1 \in Carriers /\ 1 \in Fallbacks
    BY <1>4, <2>1
  <2>3. ImageIsOf /\ LatestIsOf
    BY <2>1, <2>2 DEF ImageIsOf, LatestIsOf
  <2>4. busy' \in BOOLEAN /\ (Awaited # 0 => busy') /\ (busy' => Awaited # 0 \/ Owed')
    <3>1. (Awaited # 0 => busy) /\ (busy => Awaited # 0 \/ Owed)
      BY <1>1, <1>2 DEF BusyHolds, Taken
    <3> QED  BY <1>9, <1>14, <2>1, <2>2, <3>1
  <2>5. reporting' \in BOOLEAN /\ provisional' \in BOOLEAN /\ beneath' \in Images \cup {None}
    BY <1>5, <1>14, <2>1
  <2>6. NewestHolds'
    BY <1>9, <2>1
  <2>7. BeneathHolds'
    BY <1>2, <1>3, <2>1, <2>2, TakenBeneath
  <2>8. ShownIsOfOpenPhoto'
    <3>1. Event.id >= firstRequest
      BY <1>5, <2>1
    <3>2. beneath'.source.document = open
      BY <1>1, <1>3, <1>5, <2>1, <2>2, <3>1 DEF LeftBehind, OfOpen
    <3>3. image # None /\ image.source = Pixels(Event)
      <4>1. Follows(Event.id, Pixels(Event), 1)
        BY <1>1, <1>3, <2>2, <3>1 DEF BeneathFollows
      <4>2. \A j \in Results : ~(j < 1)
        BY <1>1 DEF Results, At
      <4> QED  BY <4>1, <4>2 DEF Follows
    <3>4. open' = open
      BY <1>2 DEF Taken
    <3> QED  BY <1>1, <1>5, <2>1, <3>2, <3>3, <3>4 DEF ShownIsOfOpenPhoto
  <2>9. BusyHolds'
    BY <1>9, <1>11, <1>15, <2>1, <2>2, <2>4
  <2> QED  BY <1>12, <1>13, <2>3, <2>4, <2>5, <2>6, <2>7, <2>8, <2>9 DEF WindowInv
<1> QED  BY <1>17, <1>18, <1>19, <1>20

-----------------------------------------------------------------------------
(* What the window asks for. *)

(* The window asks for a render of the pixels it has. *)
LEMMA RequestOrdered ==
    ASSUME WindowInv, posted' = posted, decoded # None, decoded' = decoded, NEW of \in Looks,
           NEW whole \in BOOLEAN, NEW queue_ \in BOOLEAN, Renderer!Request(of, whole, queue_),
           look' = of, open' = open, firstRequest' = firstRequest, latestShown' = latestShown,
           provisional' = provisional, image' = image, beneath' = beneath, busy' = TRUE,
           landing' = FALSE
    PROVE  /\ RendererInv' /\ Ordered' /\ WindowAlone'
           /\ lastRequest' = lastRequest + 1 /\ backgroundFor' = backgroundFor
<1>1. /\ WindowTyped /\ WindowAlone /\ RendererInv /\ RendererTyped /\ RequestsHold
      /\ ResultsInOrder /\ LeftBehind /\ PixelsInOrder /\ BeneathFollows /\ BusyHolds
      /\ NewestHolds /\ BeneathHolds
  BY DEF WindowInv, RendererInv
<1>2. /\ lastRequest' = lastRequest + 1 /\ lastRequest \in Nat
      /\ pending' = [id |-> lastRequest + 1, look |-> of, whole |-> whole]
      /\ source' = source /\ sourceChanged' = sourceChanged /\ wanted' = wanted
      /\ recount' = recount /\ stopping' = stopping /\ at' = at /\ job' = job
      /\ background' = background /\ backgroundFor' = backgroundFor
  BY <1>1 DEF Renderer!Request, Renderer!kept, RendererTyped
<1>3. RendererInv'
  BY <1>1, RequestIsMade DEF WindowAlone
<1>4. pending' # None /\ pending'.id = lastRequest + 1 /\ pending'.look = of
  <2>1. pending' \in Requests
    BY <1>2 DEF Requests
  <2> QED  BY <1>2, <2>1, NoneApart
<1> DEFINE gone == 0
<1>5. gone \in {0, 1} /\ Shrinks(gone) /\ gone = 0
  BY <1>1, QueueStays
<1> HIDE DEF gone
<1>6. Results' = Results /\ Carriers' = Carriers
  BY DEF Results, Carriers, At
<1>7. ResultsInOrder'
  BY <1>2, <1>5, QueueInOrder
<1>8. LeftBehind'
  <2>1. pending'.id >= firstRequest
    BY <1>1, <1>2, <1>4 DEF WindowTyped
  <2> QED  BY <1>2, <1>5, <2>1, LeftBehindKept
<1>9. PixelsInOrder'
  BY <1>1, <1>2, <1>6 DEF PixelsInOrder, Pixels
<1>10. BeneathFollows'
  BY <1>2, <1>5, BeneathKept
<1>11. BusyHolds'
  <2>1. Owed'
    BY <1>4 DEF Owed
  <2>2. lastRequest' >= firstRequest'
    BY <1>1, <1>2 DEF WindowTyped
  <2> QED  BY <2>1, <2>2 DEF BusyHolds
<1>12. NewestHolds'
  <2>1. /\ job # None => job.id \in Nat /\ job.id <= lastRequest
        /\ \A i \in Results : posted[i].id \in Nat /\ posted[i].id <= lastRequest
        /\ image # None => image.id \in Nat /\ image.id <= lastRequest
    <3>1. job # None => job.id \in Nat /\ job.id <= lastRequest
      BY <1>1 DEF RendererTyped, RequestsHold, Jobs
    <3>2. \A i \in Results : posted[i].id \in Nat /\ posted[i].id <= lastRequest
      BY <1>1, EventFields DEF ResultsInOrder, Passed
    <3>3. image # None => image.id \in Nat /\ image.id <= lastRequest
      BY <1>1 DEF NewestHolds, WindowTyped, Shown
    <3> QED  BY <3>1, <3>2, <3>3
  <2>2. /\ job' # None => job'.id # lastRequest'
        /\ \A i \in Results' : posted'[i].id # lastRequest'
        /\ image' # None => image'.id # lastRequest' /\ image'.id <= lastRequest'
    BY <1>2, <1>6, <2>1
  <2> QED  BY <1>4, <2>2 DEF NewestHolds
<1>13. BeneathHolds'
  BY <1>1, <1>2, <1>6 DEF BeneathHolds
<1>14. WindowAlone'
  BY <1>1, <1>2 DEF WindowAlone
<1> QED  BY <1>2, <1>3, <1>7, <1>8, <1>9, <1>10, <1>11, <1>12, <1>13, <1>14 DEF Ordered

(* A call of the window that brings no pixels. *)
LEMMA WindowCalls ==
    ASSUME WindowInv, posted' = posted, backgroundFor' = backgroundFor,
           LaneTyped', delivered' = delivered, lastRequest' \in Nat, lastRequest' >= lastRequest,
           opened' = opened, open' = open, decoded' = decoded, image' = image, beneath' = beneath,
           firstRequest' = firstRequest, latestShown' = latestShown, provisional' = provisional,
           options' \in Options \cup {None}, decodeRequest' = decodeRequest,
           redecode' \in Redecodes \cup {None}, failedOptions' \in Options \cup {None},
           zoomed' \in BOOLEAN, busy' \in BOOLEAN, reporting' \in BOOLEAN, landing' \in BOOLEAN
    PROVE  WindowTyped' /\ HeldAreOfBefore' /\ ShownIsOfOpenPhoto'
<1>1. WindowTyped /\ HeldAreOfBefore /\ ShownIsOfOpenPhoto /\ RendererTyped
  BY DEF WindowInv, RendererInv
<1>2. provisional' \in BOOLEAN
  BY <1>1 DEF WindowTyped
<1>3. /\ firstRequest' \in Nat /\ firstRequest' <= lastRequest' + 1
      /\ latestShown' \in Nat /\ latestShown' <= lastRequest'
  <2>1. /\ firstRequest \in Nat /\ firstRequest <= lastRequest + 1 /\ lastRequest \in Nat
        /\ latestShown \in Nat /\ latestShown <= lastRequest
    BY <1>1 DEF WindowTyped, RendererTyped
  <2>2. \A now, then, first, latest \in Nat :
            then >= now /\ first <= now + 1 /\ latest <= now => first <= then + 1 /\ latest <= then
    OBVIOUS
  <2>3. firstRequest <= lastRequest' + 1 /\ latestShown <= lastRequest'
    BY <2>1, <2>2
  <2> QED  BY <2>1, <2>3
<1>4. WindowTyped'
  BY <1>1, <1>2, <1>3 DEF WindowTyped, LaneTyped
<1>5. HeldAreOfBefore'
  <2>1. Carriers' = Carriers /\ Decoded' = Decoded
    BY DEF Carriers, Decoded, At
  <2>2. \A pixels \in Loader!Decodes : Held(pixels)' => Held(pixels)
    BY <2>1 DEF Held, Pixels
  <2>3. \A i \in Decoded' : \E k \in Decoded : posted'[i].job = posted[k].job
    BY <2>1
  <2>4. opened' >= opened
    BY <1>1 DEF WindowTyped
  <2> QED  BY <1>4, <2>2, <2>3, <2>4, HeldKept
<1>6. ShownIsOfOpenPhoto'
  BY <1>1 DEF ShownIsOfOpenPhoto
<1> QED  BY <1>4, <1>5, <1>6

(* chooseNegative(), an edit of the look, or another view. *)
LEMMA EditSteps ==
    ASSUME WindowInv, Edit \/ ChangeView
    PROVE  WindowInv'
<1>1. /\ WindowTyped /\ DocumentHolds /\ RendererTyped /\ LaneHolds
  BY DEF WindowInv, RendererInv
<1>2. /\ ~landing /\ ~reporting /\ open # 0 /\ decoded # None /\ posted' = posted /\ busy' = TRUE
      /\ opened' = opened /\ open' = open /\ decoded' = decoded /\ decodeRequest' = decodeRequest
      /\ firstRequest' = firstRequest /\ latestShown' = latestShown /\ provisional' = provisional
      /\ image' = image /\ beneath' = beneath /\ reporting' = reporting /\ landing' = landing
  BY DEF Edit, ChangeView, Editable, User, view, decoding
<1>3. /\ options' \in Options /\ look' \in Looks
      /\ \/ options' = options /\ redecode' = redecode /\ failedOptions' = failedOptions /\ LaneStays
         \/ SyncDecode(decoded, redecode)
  BY <1>1, <1>2 DEF Edit, ChangeView, DocumentHolds, decoding, loader, LaneStays
<1>4. /\ zoomed' \in BOOLEAN
      /\ \E queue_ \in BOOLEAN : RequestRender(queue_)
  BY <1>1 DEF Edit, ChangeView, WindowTyped
<1>5. PICK queue_ \in BOOLEAN : RequestRender(queue_)
  BY <1>4
<1>6. (~zoomed') \in BOOLEAN /\ Renderer!Request(look', ~zoomed', queue_)
  <2>1. (~zoomed') \in BOOLEAN
    BY Zenon, <1>4
  <2> QED  BY <1>5, <2>1 DEF RequestRender
<1>7. PICK of \in Looks, whole \in BOOLEAN : of = look' /\ whole = ~zoomed'
  BY <1>3, <1>6
<1>8. landing' = FALSE /\ Renderer!Request(of, whole, queue_)
  <2>1. Renderer!Request(look', ~zoomed', queue_) => Renderer!Request(of, whole, queue_)
    BY <1>7 DEF Renderer!Request
  <2> QED  BY <1>1, <1>2, <1>6, <2>1 DEF WindowTyped
<1>9. /\ RendererInv' /\ Ordered' /\ WindowAlone'
      /\ lastRequest' = lastRequest + 1 /\ backgroundFor' = backgroundFor
  BY <1>2, <1>7, <1>8, RequestOrdered
<1>10. decodeRequest = 0 /\ Awaited = (IF redecode # None THEN redecode.id ELSE 0)
  BY <1>1, <1>2 DEF DocumentHolds, Awaited
<1> DEFINE gone == 0
<1>11. gone \in {0, 1} /\ Shrinks(gone) /\ gone = 0
  BY <1>1, <1>2, QueueStays
<1> HIDE DEF gone
<1>12. open \in Documents /\ open <= opened /\ opened \in Nat /\ opened' >= opened
  <2>1. decoded \in Loader!Decodes /\ decoded.document = open
    BY <1>1, <1>2 DEF WindowTyped, DocumentHolds
  <2> QED  BY <1>1, <1>2, <2>1 DEF Loader!Decodes, WindowTyped
(* How the decode goes: as before, cancelled, or another one asked for. *)
<1>13. /\ redecode' \in Redecodes \cup {None} /\ failedOptions' \in Options \cup {None}
       /\ \/ LaneStays /\ Awaited' \in {Awaited, 0}
          \/ Loader!CancelDecode /\ Awaited' = 0
          \/ \E options_ \in Options : Loader!Decode(open', options_) /\ Awaited' = lastDecode'
       /\ DocumentHolds'
  <2>1. ASSUME redecode' # None => redecode'.options = options' /\ redecode'.id # 0,
               failedOptions' # None => redecode' = None,
               redecode' = None => options' \in {decoded.options, failedOptions'}
        PROVE  DocumentHolds'
    BY <1>1, <1>2, <1>3, <1>10, <2>1 DEF DocumentHolds
  <2>2. redecode # None => redecode \in Redecodes /\ redecode.options \in Options
    BY <1>1 DEF WindowTyped, Redecodes
  <2>3. CASE options' = options /\ redecode' = redecode /\ failedOptions' = failedOptions /\ LaneStays
    <3>1. Awaited' = Awaited
      BY <1>2, <1>10, <2>3 DEF Awaited
    <3> QED  BY <1>1, <1>2, <2>1, <2>3, <3>1 DEF DocumentHolds, WindowTyped
  <2>4. CASE /\ options' = decoded.options /\ failedOptions' = None /\ redecode' = None
             /\ IF redecode # None THEN Loader!CancelDecode ELSE UNCHANGED loader
    <3>1. Awaited' = 0
      BY <1>2, <1>10, <2>4 DEF Awaited
    <3>2. LaneStays \/ Loader!CancelDecode
      BY <2>4 DEF LaneStays, loader
    <3> QED  BY <2>1, <2>4, <3>1, <3>2
  <2>5. CASE /\ options' # decoded.options
             /\ options' = failedOptions \/ (redecode # None /\ redecode.options = options')
             /\ redecode' = redecode /\ UNCHANGED <<failedOptions, loader>>
    <3>1. Awaited' = Awaited /\ LaneStays /\ failedOptions' = failedOptions
      BY <1>2, <1>10, <2>5 DEF Awaited, LaneStays, loader
    <3>2. options' # None
      BY <1>3, NoneApart
    <3>3. redecode # None => failedOptions = None
      BY <1>1 DEF DocumentHolds
    <3>4. redecode' # None => redecode'.options = options' /\ redecode'.id # 0
      BY <1>1, <2>5, <3>2, <3>3 DEF DocumentHolds
    <3>5. redecode' = None => options' = failedOptions'
      BY <2>5, <3>1
    <3> QED  BY <1>1, <2>1, <2>5, <3>1, <3>3, <3>4, <3>5 DEF WindowTyped
  <2>6. CASE /\ failedOptions' = None /\ Loader!Decode(open, options')
             /\ redecode' = [id |-> lastDecode', options |-> options']
    <3>1. lastDecode' = lastDecode + 1 /\ lastDecode' \in Nat /\ lastDecode' # 0
      BY <1>1, <2>6 DEF Loader!Decode, WindowTyped
    <3>2. redecode' \in Redecodes /\ redecode'.id = lastDecode' /\ redecode'.options = options'
      BY <1>3, <2>6, <3>1 DEF Redecodes
    <3>3. redecode' # None
      BY <3>2, NoneApart
    <3>4. Awaited' = lastDecode'
      BY <1>2, <1>10, <3>2, <3>3 DEF Awaited
    <3>5. \E options_ \in Options : Loader!Decode(open', options_) /\ Awaited' = lastDecode'
      <4>1. PICK options_ : options_ = options'
        OBVIOUS
      <4>2. PICK open_ : open_ = open'
        OBVIOUS
      <4>3. Loader!Decode(open_, options_)
        BY <1>2, <2>6, <4>1, <4>2 DEF Loader!Decode
      <4> QED  BY <1>3, <3>4, <4>1, <4>2, <4>3 DEF Loader!Decode
    <3> QED  BY <2>1, <2>6, <3>1, <3>2, <3>3, <3>5
  <2> QED  BY <1>3, <2>3, <2>4, <2>5, <2>6 DEF SyncDecode
<1>14. LaneHolds' /\ LaneTyped' /\ delivered' = delivered
  <2>1. \/ LaneStays
        \/ Loader!CancelDecode
        \/ \E document_ \in Documents, options_ \in Options : Loader!Decode(document_, options_)
    BY <1>2, <1>12, <1>13
  <2> QED  BY <1>11, <2>1, LaneMoves
<1>15. AwaitedComes'
  <2>1. gone = 1 => FALSE
    BY <1>11
  <2>2. opened' \in Nat /\ open' \in Documents /\ open' <= opened' /\ open' = open
    BY <1>2, <1>12
  <2>3. CASE LaneStays /\ Awaited' \in {Awaited, 0}
    BY <1>11, <1>12, <2>1, <2>2, <2>3, AwaitedMoves
  <2>4. CASE Loader!CancelDecode /\ Awaited' = 0
    BY <1>11, <1>12, <2>1, <2>2, <2>4, AwaitedMoves
  <2>5. CASE \E options_ \in Options : Loader!Decode(open', options_) /\ Awaited' = lastDecode'
    BY <1>11, <1>12, <2>1, <2>2, <2>5, AwaitedMoves
  <2> QED  BY <1>13, <2>3, <2>4, <2>5
<1>16. WindowTyped' /\ HeldAreOfBefore' /\ ShownIsOfOpenPhoto'
  <2>1. busy' \in BOOLEAN /\ reporting' \in BOOLEAN /\ landing' \in BOOLEAN
    BY Zenon, <1>1, <1>2 DEF WindowTyped
  <2>2. options' \in Options \cup {None} /\ lastRequest' \in Nat /\ lastRequest' >= lastRequest
    BY <1>1, <1>3, <1>9 DEF RendererTyped
  <2> QED  BY <1>2, <1>4, <1>9, <1>13, <1>14, <2>1, <2>2, WindowCalls
<1> QED  BY <1>9, <1>13, <1>14, <1>15, <1>16 DEF WindowInv, Ordered

(* The render of pixels that have landed, a replaced sidecar, and the end of the box. *)
LEMMA OtherSteps ==
    ASSUME WindowInv, RenderLanded \/ Reload \/ CloseBox
    PROVE  WindowInv'
<1>1. /\ WindowTyped /\ DocumentHolds /\ RendererTyped /\ LaneHolds /\ WindowAlone /\ RendererInv
      /\ Ordered
  BY DEF WindowInv, RendererInv, Ordered
<1>2. /\ posted' = posted /\ LaneStays
      /\ opened' = opened /\ open' = open /\ look' = look /\ decoded' = decoded
      /\ decodeRequest' = decodeRequest /\ redecode' = redecode /\ failedOptions' = failedOptions
      /\ firstRequest' = firstRequest /\ latestShown' = latestShown /\ provisional' = provisional
      /\ image' = image /\ beneath' = beneath /\ zoomed' = zoomed
  BY DEF RenderLanded, Reload, CloseBox, view, decoding, document, loader, LaneStays
<1> DEFINE gone == 0
<1>3. gone \in {0, 1} /\ Shrinks(gone) /\ gone = 0
  BY <1>1, <1>2, QueueStays
<1> HIDE DEF gone
<1>4. LaneHolds' /\ LaneTyped' /\ delivered' = delivered
  BY <1>2, <1>3, LaneMoves
<1>5. Awaited' = Awaited
  BY <1>2 DEF Awaited
<1>6. AwaitedComes'
  <2>1. opened' \in Nat /\ opened' >= opened
    BY <1>1, <1>2 DEF WindowTyped
  <2> QED  BY <1>2, <1>3, <1>5, <2>1, AwaitedMoves
<1>7. ASSUME RendererInv', Ordered', WindowAlone', DocumentHolds', lastRequest' \in Nat,
             lastRequest' >= lastRequest, backgroundFor' = backgroundFor,
             options' \in Options \cup {None}, busy' \in BOOLEAN, reporting' \in BOOLEAN,
             landing' \in BOOLEAN
      PROVE  WindowInv'
  <2>1. /\ redecode' \in Redecodes \cup {None} /\ failedOptions' \in Options \cup {None}
        /\ zoomed' \in BOOLEAN
    BY <1>1, <1>2 DEF WindowTyped
  <2>2. WindowTyped' /\ HeldAreOfBefore' /\ ShownIsOfOpenPhoto'
    BY <1>2, <1>4, <1>7, <2>1, WindowCalls
  <2> QED  BY <1>4, <1>6, <1>7, <2>2 DEF WindowInv, Ordered
<1>8. CASE RenderLanded
  <2>1. /\ landing /\ landing' = FALSE /\ options' = options /\ busy' = TRUE
        /\ reporting' = reporting /\ Renderer!Request(look', ~zoomed', FALSE)
    BY <1>8 DEF RenderLanded, RequestRender, document
  <2>2. decoded # None /\ open # 0 /\ look \in Looks /\ options \in Options
    BY <1>1, <2>1 DEF DocumentHolds
  <2>3. PICK of \in Looks, whole \in BOOLEAN : of = look' /\ whole = ~zoomed'
    <3>1. (~zoomed') \in BOOLEAN
      BY Zenon, <1>1, <1>2 DEF WindowTyped
    <3> QED  BY <1>2, <2>2, <3>1
  <2>4. Renderer!Request(of, whole, FALSE) /\ FALSE \in BOOLEAN
    BY <2>1, <2>3 DEF Renderer!Request
  <2>5. /\ RendererInv' /\ Ordered' /\ WindowAlone'
        /\ lastRequest' = lastRequest + 1 /\ backgroundFor' = backgroundFor
    BY <1>2, <2>1, <2>2, <2>3, <2>4, RequestOrdered
  <2>6. DocumentHolds'
    BY <1>1, <1>2, <2>1 DEF DocumentHolds
  <2>7. busy' \in BOOLEAN /\ reporting' \in BOOLEAN /\ landing' \in BOOLEAN
    BY Zenon, <1>1, <2>1 DEF WindowTyped
  <2>8. lastRequest' \in Nat /\ lastRequest' >= lastRequest
    BY <1>1, <2>5 DEF RendererTyped
  <2> QED  BY <1>7, <2>1, <2>2, <2>5, <2>6, <2>7, <2>8
<1>9. CASE Reload \/ CloseBox
  <2>1. /\ RendererStays /\ busy' = busy /\ landing' = landing
        /\ \/ options' \in Options /\ reporting' = reporting /\ open # 0 /\ decoded = None
           \/ options' = options /\ reporting' = FALSE
    BY <1>9 DEF Reload, CloseBox, document, renderer, RendererStays
  <2>2. RendererInv'
    BY <1>1, <2>1, RendererKept
  <2>3. WindowAlone'
    BY <1>1, <1>2, <2>1 DEF WindowAlone, RendererStays
  <2>4. DocumentHolds'
    <3>1. decoded = None => redecode = None
      BY <1>1 DEF DocumentHolds
    <3> QED  BY <1>1, <1>2, <2>1, <3>1 DEF DocumentHolds
  <2>5. Ordered'
    <3>1. /\ Results' = Results /\ Fallbacks' = Fallbacks /\ Carriers' = Carriers
          /\ lastRequest' = lastRequest /\ at' = at /\ job' = job /\ pending' = pending
          /\ sourceChanged' = sourceChanged /\ background' = background
          /\ backgroundFor' = backgroundFor
      BY <1>2, <2>1 DEF Results, Fallbacks, Carriers, At, RendererStays
    <3>2. ResultsInOrder'
      BY <1>2, <1>3, <3>1, QueueInOrder DEF WindowInv
    <3>3. LeftBehind' /\ PixelsInOrder'
      BY <1>1, <1>2, <3>1 DEF Ordered, LeftBehind, OfOpen, PixelsInOrder, Pixels
    <3>4. BeneathFollows'
      BY <1>2, <1>3, <3>1, BeneathKept
    <3>5. BusyHolds'
      BY <1>1, <1>2, <1>5, <2>1, <3>1 DEF Ordered, BusyHolds, Owed, Rendering, Final
    <3>6. NewestHolds' /\ BeneathHolds'
      BY <1>1, <1>2, <2>1, <3>1 DEF Ordered, NewestHolds, BeneathHolds, IsNewest
    <3> QED  BY <3>2, <3>3, <3>4, <3>5, <3>6 DEF Ordered
  <2>6. /\ options' \in Options \cup {None} /\ reporting' \in BOOLEAN
        /\ busy' \in BOOLEAN /\ landing' \in BOOLEAN
    <3>1. reporting' \in BOOLEAN /\ busy' \in BOOLEAN /\ landing' \in BOOLEAN
      BY Zenon, <1>1, <2>1 DEF WindowTyped
    <3> QED  BY <1>1, <2>1, <3>1 DEF WindowTyped
  <2>7. lastRequest' \in Nat /\ lastRequest' >= lastRequest /\ backgroundFor' = backgroundFor
    BY <1>1, <2>1 DEF RendererTyped, RendererStays
  <2> QED  BY <1>7, <2>2, <2>3, <2>4, <2>5, <2>6, <2>7
<1> QED  BY <1>8, <1>9

-----------------------------------------------------------------------------
(* Pixels land. *)

(* The window gives the renderer other pixels, or takes them away. *)
LEMMA SourceGiven ==
    ASSUME WindowInv, NEW gone \in {0, 1}, Shrinks(gone),
           NEW pixels \in Loader!Decodes \cup {None}, pixels = None \/ ~Held(pixels),
           Renderer!SetSource(pixels), decoded' = pixels,
           latestShown' = latestShown, provisional' = provisional
    PROVE  /\ RendererInv' /\ WindowAlone' /\ ResultsInOrder'
           /\ lastRequest' = lastRequest /\ pending' = None /\ at' = at /\ job' = job
           /\ background' = background /\ backgroundFor' = backgroundFor
<1>1. RendererInv /\ WindowAlone
  BY DEF WindowInv
<1>2. /\ lastRequest' = lastRequest /\ pending' = None /\ at' = at /\ job' = job
      /\ background' = background /\ backgroundFor' = backgroundFor /\ source' = pixels
      /\ stopping' = stopping /\ wanted' = wanted /\ recount' = recount
  BY DEF Renderer!SetSource, Renderer!kept
<1>3. pixels = None \/ pixels # source
  BY <1>1 DEF WindowAlone, Held
<1>4. RendererInv'
  BY <1>1, <1>3, SourceIsSet
<1>5. WindowAlone'
  BY <1>1, <1>2 DEF WindowAlone
<1>6. ResultsInOrder'
  BY <1>2, QueueInOrder
<1> QED  BY <1>2, <1>4, <1>5, <1>6

(* Whatever is held is from before the first decode in the queue. *)
LEMMA HeadIsNewer ==
    ASSUME WindowInv, 1 \in Decoded
    PROVE  /\ posted[1].job \in Loader!Decodes /\ posted[1].job.id \in Nat
           /\ \A pixels \in Loader!Decodes : Held(pixels) =>
                  pixels.id < posted[1].job.id /\ pixels # posted[1].job
<1>1. WindowTyped /\ HeldAreOfBefore
  BY DEF WindowInv
<1>2. posted[1].job \in Loader!Decodes
  BY <1>1, EventFields
<1> QED  BY <1>1, <1>2, DecodeFields DEF HeldAreOfBefore

(* decodeLanded(): the pixels. *)
LEMMA PixelsLand ==
    ASSUME WindowInv, LandPixels
    PROVE  WindowInv'
<1>1. /\ WindowTyped /\ WindowAlone /\ LaneHolds /\ RendererInv /\ RendererTyped /\ PlaceHolds
      /\ PixelsInOrder /\ LeftBehind /\ DocumentHolds /\ BusyHolds /\ NewestHolds /\ AwaitedComes
      /\ HeldAreOfBefore /\ ShownIsOfOpenPhoto
  BY DEF WindowInv, RendererInv
<1>2. /\ ~landing /\ posted # <<>> /\ Event.kind = "decoded" /\ posted' = Tail(posted)
      /\ decoded' = Event.job
      /\ decodeRequest' = (IF FirstDecode THEN 0 ELSE decodeRequest)
      /\ FirstDecode \/ Redecode
      /\ opened' = opened /\ open' = open /\ options' = options /\ look' = look
      /\ Renderer!SetSource(Event.job) /\ SyncDecode(Event.job, None)
      /\ landing' = TRUE /\ firstRequest' = firstRequest /\ zoomed' = zoomed
      /\ latestShown' = latestShown /\ provisional' = provisional /\ image' = image
      /\ beneath' = beneath /\ busy' = busy /\ reporting' = reporting
  BY DEF LandPixels, Receive, view
<1>3. Shrinks(1) /\ Event = posted[1] /\ 1 \in 1 .. Len(posted)
  BY <1>1, <1>2, QueueShrinks
<1>4. 1 \in Decoded /\ 1 \notin Results
  BY <1>2, <1>3 DEF Decoded, Results, At
<1> DEFINE gone == 1
<1>5. gone \in {0, 1} /\ Shrinks(gone) /\ gone = 1
  BY <1>3
<1> HIDE DEF gone
<1>6. PICK new : new = posted[1].job
  OBVIOUS
<1>7. /\ new \in Loader!Decodes /\ new.id \in Nat /\ new.id # 0 /\ new # None
      /\ new.document \in Nat /\ new.document # 0 /\ new.options \in Options
      /\ new.id <= delivered /\ decoded' = new
      /\ \A pixels \in Loader!Decodes : Held(pixels) => pixels.id < new.id /\ pixels # new
  <2>1. new \in Loader!Decodes
    BY <1>4, <1>6, HeadIsNewer
  <2> QED  BY <1>1, <1>2, <1>3, <1>4, <1>6, <2>1, HeadIsNewer, DecodeFields DEF LaneHolds
<1>8. ~Held(new)
  BY <1>7
<1>9. Renderer!SetSource(new)
  BY <1>2, <1>3, <1>6 DEF Renderer!SetSource
<1>10. /\ RendererInv' /\ WindowAlone' /\ ResultsInOrder'
       /\ lastRequest' = lastRequest /\ pending' = None /\ at' = at /\ job' = job
       /\ background' = background /\ backgroundFor' = backgroundFor
  BY <1>2, <1>5, <1>7, <1>8, <1>9, SourceGiven
(* The decode that lands is the one that was awaited, of the open photograph. *)
<1>11. /\ new.id = Awaited /\ Awaited # 0 /\ open # 0 /\ decodeRequest' = 0 /\ busy = TRUE
       /\ new.document = open /\ new.document <= opened
       /\ options \in Options /\ look \in Looks
  <2>1. new.id = Awaited /\ open # 0 /\ decodeRequest' = 0
    <3>1. CASE FirstDecode
      BY <1>1, <1>2, <1>3, <1>6, <1>7, <3>1 DEF FirstDecode, DocumentHolds, Awaited
    <3>2. CASE ~FirstDecode
      <4>1. redecode # None /\ new.id = redecode.id
        BY <1>2, <1>3, <1>6, <3>2 DEF Redecode
      <4>2. decoded # None /\ decodeRequest = 0 /\ open # 0
        BY <1>1, <4>1 DEF DocumentHolds
      <4> QED  BY <1>2, <3>2, <4>1, <4>2 DEF Awaited
    <3> QED  BY <3>1, <3>2
  <2>2. IsOfPhotograph(new)
    BY <1>1, <1>4, <1>6 DEF AwaitedComes
  <2> QED  BY <1>1, <1>7, <2>1, <2>2 DEF IsOfPhotograph, BusyHolds, DocumentHolds, WindowTyped
<1>12. open \in Documents /\ open' \in Documents /\ open' <= opened' /\ opened' \in Nat
  BY <1>1, <1>2, <1>7, <1>11 DEF Loader!Decodes, WindowTyped
(* How the decode goes on. *)
<1>13. /\ redecode' \in Redecodes \cup {None} /\ failedOptions' \in Options \cup {None}
       /\ \/ LaneStays /\ Awaited' = 0
          \/ \E options_ \in Options : Loader!Decode(open', options_) /\ Awaited' = lastDecode'
       /\ DocumentHolds'
  <2>1. ASSUME redecode' # None => redecode'.options = options' /\ redecode'.id # 0,
               failedOptions' # None => redecode' = None,
               redecode' = None => options' \in {new.options, failedOptions'}
        PROVE  DocumentHolds'
    BY <1>2, <1>7, <1>11, <2>1 DEF DocumentHolds
  <2>2. CASE /\ options' = new.options /\ failedOptions' = None /\ redecode' = None
             /\ UNCHANGED loader
    <3>1. Awaited' = 0
      BY <1>11, <2>2 DEF Awaited
    <3>2. LaneStays
      BY <2>2 DEF LaneStays, loader
    <3> QED  BY <2>1, <2>2, <3>1, <3>2
  <2>3. CASE /\ options' # new.options /\ options' = failedOptions
             /\ redecode' = None /\ UNCHANGED <<failedOptions, loader>>
    <3>1. Awaited' = 0
      BY <1>11, <2>3 DEF Awaited
    <3>2. LaneStays
      BY <2>3 DEF LaneStays, loader
    <3>3. failedOptions' \in Options \cup {None}
      BY <1>1, <2>3 DEF WindowTyped
    <3> QED  BY <2>1, <2>3, <3>1, <3>2, <3>3
  <2>4. CASE /\ failedOptions' = None /\ Loader!Decode(open, options')
             /\ redecode' = [id |-> lastDecode', options |-> options']
    <3>1. lastDecode' = lastDecode + 1 /\ lastDecode' \in Nat /\ lastDecode' # 0
      BY <1>1, <2>4 DEF Loader!Decode, WindowTyped
    <3>2. redecode' \in Redecodes /\ redecode'.id = lastDecode' /\ redecode'.options = options'
      BY <1>2, <1>11, <2>4, <3>1 DEF Redecodes
    <3>3. redecode' # None
      BY <3>2, NoneApart
    <3>4. Awaited' = lastDecode'
      BY <1>11, <3>2, <3>3 DEF Awaited
    <3>5. \E options_ \in Options : Loader!Decode(open', options_) /\ Awaited' = lastDecode'
      <4>1. PICK options_ : options_ = options'
        OBVIOUS
      <4>2. PICK open_ : open_ = open'
        OBVIOUS
      <4>3. Loader!Decode(open_, options_)
        BY <1>2, <2>4, <4>1, <4>2 DEF Loader!Decode
      <4> QED  BY <1>2, <1>11, <3>4, <4>1, <4>2, <4>3 DEF Loader!Decode
    <3> QED  BY <2>1, <2>4, <3>1, <3>2, <3>3, <3>5
  <2>5. /\ Event.job.options = new.options
    BY <1>3, <1>6
  <2> QED  BY <1>2, <2>2, <2>3, <2>4, <2>5 DEF SyncDecode
<1>14. LaneHolds' /\ LaneTyped' /\ delivered' = delivered
  <2>1. \/ LaneStays
        \/ \E document_ \in Documents, options_ \in Options : Loader!Decode(document_, options_)
    BY <1>2, <1>12, <1>13
  <2> QED  BY <1>5, <2>1, LaneMoves
<1>15. AwaitedComes'
  <2>1. CASE LaneStays /\ Awaited' = 0
    BY <1>1, <1>2, <1>5, <2>1, AwaitedMoves DEF WindowTyped
  <2>2. CASE \E options_ \in Options : Loader!Decode(open', options_) /\ Awaited' = lastDecode'
    <3>1. opened' >= opened
      BY <1>1, <1>2 DEF WindowTyped
    <3> QED  BY <1>5, <1>12, <2>2, <3>1, AwaitedMoves
  <2> QED  BY <1>13, <2>1, <2>2
<1>16. WindowTyped'
  <2>1. /\ zoomed' \in BOOLEAN /\ provisional' \in BOOLEAN /\ busy' \in BOOLEAN
        /\ reporting' \in BOOLEAN /\ landing' \in BOOLEAN
    BY Zenon, <1>1, <1>2 DEF WindowTyped
  <2>2. posted' \in Seq(Events)
    BY <1>3 DEF Shrinks
  <2> QED  BY <1>1, <1>2, <1>7, <1>10, <1>11, <1>13, <1>14, <2>1, <2>2 DEF WindowTyped, LaneTyped
<1>17. /\ \A i \in Carriers' : /\ Pixels(posted'[i]) \in Loader!Decodes /\ Held(Pixels(posted'[i]))
                               /\ i + 1 \in Carriers /\ Pixels(posted'[i]) = Pixels(posted[i + 1])
       /\ \A i, j \in Carriers' : i < j => Pixels(posted'[i]).id <= Pixels(posted'[j]).id
  BY <1>5, CarriersShrink
<1>18. HeldAreOfBefore'
  <2>1. ASSUME NEW pixels \in Loader!Decodes, Held(pixels)'
        PROVE  Held(pixels) \/ pixels = new
    <3>1. pixels # None
      BY NoneApart
    <3> QED  BY <1>2, <1>7, <1>10, <1>17, <2>1, <3>1 DEF Held, Pixels
  <2>2. \A i \in Decoded' : i + 1 \in Decoded /\ posted'[i] = posted[i + 1] /\ 1 < i + 1
    <3>1. \A i \in Decoded' : i \in Int /\ i >= 1
      BY DEF Decoded, At
    <3>2. \A i \in Decoded' : i + gone \in Decoded /\ posted'[i] = posted[i + gone]
      BY <1>5, DecodedShrink
    <3> QED  BY <1>5, <3>1, <3>2
  <2>3. /\ new.id <= delivered' /\ new.document <= opened'
        /\ \A i \in Decoded' : new.id < posted'[i].job.id
    BY <1>1, <1>2, <1>4, <1>6, <1>7, <1>11, <1>14, <2>2 DEF LaneHolds
  <2>4. ASSUME NEW pixels \in Loader!Decodes, Held(pixels)
        PROVE  /\ pixels.id <= delivered' /\ pixels.document <= opened' /\ pixels.id < new.id
               /\ pixels.id \in Nat
               /\ \A i \in Decoded' : pixels.id < posted'[i].job.id
    BY <1>1, <1>2, <1>7, <1>14, <2>2, <2>4, DecodeFields DEF HeldAreOfBefore
  <2>5. ASSUME NEW one \in Loader!Decodes, NEW other \in Loader!Decodes, Held(one)', Held(other)',
               one.id = other.id
        PROVE  one = other
    <3>1. CASE Held(one) /\ Held(other)
      BY <1>1, <2>5, <3>1 DEF HeldAreOfBefore
    <3>2. CASE one = new \/ other = new
      <4>1. ~Held(one) /\ ~Held(other)
        BY <1>7, <2>4, <2>5, <3>2
      <4> QED  BY <2>1, <2>5, <4>1
    <3> QED  BY <2>1, <2>5, <3>1, <3>2
  <2> QED  BY <2>1, <2>3, <2>4, <2>5 DEF HeldAreOfBefore
<1>19. LeftBehind'
  BY <1>2, <1>5, <1>10, LeftBehindKept
<1>20. BeneathFollows'
  <2>1. gone = 1 /\ 1 \in Results /\ posted[1].kind = "picture" /\ Final(posted[1])
                 => posted[1].id < firstRequest
    BY <1>4
  <2> QED  BY <1>2, <1>5, <1>10, <2>1, BeneathKept
<1>21. PixelsInOrder'
  <2>1. /\ image # None => image.source \in Loader!Decodes /\ Held(image.source)
        /\ backgroundFor.source # None =>
               backgroundFor.source \in Loader!Decodes /\ Held(backgroundFor.source)
    <3>1. image # None => image.source \in Loader!Decodes
      BY <1>1 DEF WindowTyped, Shown
    <3>2. backgroundFor.source # None => backgroundFor.source \in Loader!Decodes
      BY <1>1 DEF RendererTyped
    <3> QED  BY <3>1, <3>2, NoneApart DEF Held
  <2>2. /\ \A i \in Carriers' : Pixels(posted'[i]).id <= new.id
        /\ image # None => image.source.id <= new.id
        /\ backgroundFor.source # None => backgroundFor.source.id <= new.id
    BY <1>7, <1>17, <2>1, DecodeFields
  <2>3. /\ image # None => \A i \in Carriers' : image.source.id <= Pixels(posted'[i]).id
        /\ backgroundFor.source # None =>
               /\ \A i \in Carriers' : Pixels(posted'[i]).id <= backgroundFor.source.id
               /\ image # None => image.source.id <= backgroundFor.source.id
    BY <1>1, <1>17 DEF PixelsInOrder
  <2> QED  BY <1>2, <1>7, <1>10, <1>17, <2>2, <2>3 DEF PixelsInOrder, Pixels
<1>22. BusyHolds'
  BY <1>2, <1>11 DEF BusyHolds
<1>23. NewestHolds'
  BY <1>1, <1>2, <1>10 DEF NewestHolds
<1>24. BeneathHolds'
  <2> SUFFICES ASSUME background # None PROVE background.source # new
    BY <1>7, <1>10 DEF BeneathHolds
  <2>1. background.source = backgroundFor.source /\ background.source \in Loader!Decodes
    BY <1>1 DEF PlaceHolds, RendererTyped, Images
  <2> QED  BY <1>7, <2>1, NoneApart DEF Held
<1>25. ShownIsOfOpenPhoto'
  BY <1>1, <1>2 DEF ShownIsOfOpenPhoto
<1> QED  BY <1>10, <1>13, <1>14, <1>15, <1>16, <1>18, <1>19, <1>20, <1>21, <1>22, <1>23, <1>24,
            <1>25 DEF WindowInv

-----------------------------------------------------------------------------
(* A photograph is opened or closed; the theorems. *)

(* showPhoto(), and closePhoto() when the photograph cannot be opened: nothing that is at work or
   on its way is of the photograph that is open from now on. *)
LEMMA Closing ==
    ASSUME WindowInv, ShowPhoto \/ OpeningFails
    PROVE  WindowInv'
<1>1. /\ WindowTyped /\ WindowAlone /\ LaneHolds /\ RendererInv /\ RendererTyped /\ PlaceHolds
      /\ PixelsInOrder /\ LeftBehind /\ DocumentHolds /\ HeldAreOfBefore /\ ResultsInOrder
      /\ RequestsHold /\ BeneathFollows
  BY DEF WindowInv, RendererInv
<1>2. /\ ~landing /\ landing' = landing /\ decoded' = None /\ redecode' = None
      /\ failedOptions' = None /\ Renderer!SetSource(None) /\ firstRequest' = lastRequest + 1
      /\ image' = None /\ beneath' = None /\ zoomed' = FALSE
      /\ latestShown' = latestShown /\ provisional' = provisional /\ reporting' = reporting
  BY DEF ShowPhoto, OpeningFails, Receive, User
(* Another photograph, or none. *)
<1>3. \/ /\ posted' = posted /\ opened < DocumentBound /\ opened' = opened + 1
         /\ open' = opened + 1 /\ options' = SavedOptions /\ look' = SavedLook
         /\ Loader!Decode(open', options') /\ decodeRequest' = lastDecode' /\ busy' = TRUE
      \/ /\ posted # <<>> /\ posted' = Tail(posted) /\ opened' = opened /\ open' = 0
         /\ options' = options /\ decodeRequest' = 0 /\ Loader!CancelDecode /\ busy' = FALSE
  BY DEF ShowPhoto, OpeningFails, Receive
<1>4. \E gone \in {0, 1} : Shrinks(gone)
  BY <1>1, <1>3, QueueStays, QueueShrinks
<1>5. PICK gone \in {0, 1} : Shrinks(gone)
  BY <1>4
<1>6. /\ opened \in Nat /\ opened' \in Nat /\ opened' >= opened /\ open' \in 0 .. opened'
      /\ open' = 0 \/ (open' > opened /\ open' \in Documents)
      /\ options' \in Options \cup {None}
      /\ open' # 0 => options' \in Options /\ look' \in Looks
  <2>1. /\ opened \in Nat /\ DocumentBound \in Nat /\ SavedOptions \in Options /\ SavedLook \in Looks
        /\ options \in Options \cup {None}
    BY <1>1, WindowAssumption DEF WindowTyped
  <2>2. CASE open' = 0 /\ opened' = opened /\ options' = options
    BY <2>1, <2>2
  <2>3. CASE /\ opened < DocumentBound /\ opened' = opened + 1 /\ open' = opened + 1
             /\ options' = SavedOptions /\ look' = SavedLook
    BY <2>1, <2>3 DEF Documents
  <2> QED  BY <1>3, <2>2, <2>3
<1>7. /\ RendererInv' /\ WindowAlone' /\ ResultsInOrder'
      /\ lastRequest' = lastRequest /\ pending' = None /\ at' = at /\ job' = job
      /\ background' = background /\ backgroundFor' = backgroundFor
  BY <1>2, <1>5, SourceGiven
(* The decode: of the one that is opened, or none. *)
<1>8. /\ decodeRequest' = Awaited' /\ (busy' <=> Awaited' # 0) /\ (open' # 0 <=> Awaited' # 0)
      /\ \/ Loader!CancelDecode /\ Awaited' = 0
         \/ /\ \E options_ \in Options : Loader!Decode(open', options_)
            /\ open' \in Documents /\ open' <= opened' /\ Awaited' = lastDecode'
  <2>1. Awaited' = decodeRequest'
    BY <1>2 DEF Awaited
  <2>2. CASE open' = 0
    BY <1>1, <1>3, <1>6, <2>1, <2>2 DEF WindowTyped
  <2>3. CASE open' # 0
    <3>1. Loader!Decode(open', options') /\ decodeRequest' = lastDecode' /\ busy' = TRUE
      BY <1>3, <2>3
    <3>2. lastDecode' # 0
      BY <1>1, <3>1 DEF Loader!Decode, WindowTyped
    <3>3. \E options_ \in Options : Loader!Decode(open', options_)
      <4>1. PICK options_, open_ : options_ = options' /\ open_ = open'
        OBVIOUS
      <4>2. Loader!Decode(open_, options_)
        BY <3>1, <4>1 DEF Loader!Decode
      <4> QED  BY <1>6, <2>3, <4>1, <4>2 DEF Loader!Decode
    <3> QED  BY <1>6, <2>1, <2>3, <3>1, <3>2, <3>3
  <2> QED  BY <2>2, <2>3
<1>9. LaneHolds' /\ LaneTyped' /\ delivered' = delivered
  BY <1>5, <1>8, LaneMoves
<1>10. AwaitedComes'
  BY <1>5, <1>6, <1>8, AwaitedMoves
<1>11. DocumentHolds'
  BY <1>1, <1>2, <1>6, <1>8 DEF DocumentHolds
<1>12. WindowTyped'
  <2>1. /\ zoomed' \in BOOLEAN /\ provisional' \in BOOLEAN /\ busy' \in BOOLEAN
        /\ reporting' \in BOOLEAN /\ landing' \in BOOLEAN
    BY Zenon, <1>1, <1>2, <1>3 DEF WindowTyped
  <2>2. posted' \in Seq(Events)
    BY <1>5 DEF Shrinks
  <2>3. decodeRequest' \in Nat
    BY <1>8, <1>9 DEF LaneTyped
  <2>4. firstRequest' \in Nat /\ firstRequest' <= lastRequest' + 1
    BY <1>1, <1>2, <1>7 DEF RendererTyped
  <2> QED  BY <1>1, <1>2, <1>6, <1>7, <1>9, <2>1, <2>2, <2>3, <2>4 DEF WindowTyped, LaneTyped
<1>13. /\ \A i \in Carriers' : /\ Pixels(posted'[i]) \in Loader!Decodes /\ Held(Pixels(posted'[i]))
                               /\ i + gone \in Carriers /\ posted'[i] = posted[i + gone]
                               /\ posted'[i].id = posted[i + gone].id
                               /\ Pixels(posted'[i]) = Pixels(posted[i + gone])
       /\ \A i, j \in Carriers' : i < j => Pixels(posted'[i]).id <= Pixels(posted'[j]).id
  BY <1>5, CarriersShrink
<1>14. HeldAreOfBefore'
  <2>1. \A pixels \in Loader!Decodes : Held(pixels)' => Held(pixels)
    BY <1>2, <1>7, <1>13 DEF Held, Pixels
  <2>2. \A i \in Decoded' : \E k \in Decoded : posted'[i].job = posted[k].job
    BY <1>5, DecodedShrink
  <2> QED  BY <1>6, <1>9, <1>12, <2>1, <2>2, HeldKept
(* Whatever there is was asked for before, and is of a photograph opened before. *)
<1>15. /\ \A i \in Carriers : posted[i].id \in Nat /\ posted[i].id <= lastRequest
       /\ job # None => job.id \in Nat /\ job.id <= lastRequest
  <2>1. \A i \in Carriers : posted[i].id \in Nat /\ (i \in Results \/ i \in Fallbacks)
    BY <1>1, EventFields
  <2>2. /\ \A i \in Results : posted[i].id <= lastRequest
        /\ \A i \in Fallbacks : posted[i].id <= lastRequest
    BY <1>1 DEF ResultsInOrder, Passed
  <2> QED  BY <1>1, <2>1, <2>2 DEF RendererTyped, RequestsHold, Jobs
<1>16. ASSUME NEW id \in Nat, id <= lastRequest, NEW pixels \in Loader!Decodes, Held(pixels)
       PROVE  ~(id >= firstRequest') /\ pixels.document # open'
  <2>1. pixels.document <= opened /\ pixels.document \in Nat /\ pixels.document # 0
    BY <1>1, <1>16, DecodeFields DEF HeldAreOfBefore
  <2>2. id < lastRequest + 1
    BY <1>1, <1>16 DEF RendererTyped
  <2> QED  BY <1>1, <1>2, <1>6, <1>16, <2>1, <2>2 DEF RendererTyped
<1>17. LeftBehind'
  <2>1. ASSUME NEW i \in Carriers'
        PROVE  ~(posted'[i].id >= firstRequest') /\ Pixels(posted'[i]).document # open'
    BY <1>13, <1>15, <1>16
  <2>2. job # None => ~(job.id >= firstRequest') /\ job.source.document # open'
    <3> SUFFICES ASSUME job # None
                 PROVE  ~(job.id >= firstRequest') /\ job.source.document # open'
      OBVIOUS
    <3>1. job.source \in Loader!Decodes /\ job.source = backgroundFor.source
      BY <1>1 DEF RendererTyped, PlaceHolds, Jobs
    <3>2. Held(job.source)
      BY <3>1, NoneApart DEF Held
    <3> QED  BY <1>15, <1>16, <3>1, <3>2
  <2> QED  BY <1>7, <2>1, <2>2 DEF LeftBehind, OfOpen, Pixels
<1>18. PixelsInOrder'
  <2>1. backgroundFor.source # None =>
            \A i \in Carriers' : Pixels(posted'[i]).id <= backgroundFor.source.id
    BY <1>1, <1>13 DEF PixelsInOrder
  <2> QED  BY <1>2, <1>7, <1>13, <2>1 DEF PixelsInOrder, Pixels
<1>19. BeneathFollows'
  <2>1. ASSUME NEW i \in Fallbacks' PROVE ~(posted'[i].id >= firstRequest')
    <3>1. i + gone \in Fallbacks /\ posted'[i] = posted[i + gone]
      BY <1>1, <1>5, KindsShrink
    <3>2. i + gone \in Carriers /\ posted[i + gone].id \in Nat
      BY <1>1, <3>1, EventFields
    <3> QED  BY <1>1, <1>2, <1>15, <3>1, <3>2 DEF RendererTyped
  <2>2. Pausing' => ~(job'.id >= firstRequest')
    <3>1. Pausing' => Pausing /\ job # None
      BY <1>1, <1>7 DEF Pausing, PlaceHolds
    <3> QED  BY <1>1, <1>2, <1>7, <1>15, <3>1 DEF RendererTyped
  <2>3. \A i \in Results' : posted'[i].kind = "picture" /\ posted'[i].background # None =>
            posted'[i].background.source = posted'[i].image.source
    BY <1>1, <1>5, KindsShrink DEF BeneathFollows
  <2> QED  BY <2>1, <2>2, <2>3 DEF BeneathFollows
<1>20. BusyHolds' /\ NewestHolds' /\ BeneathHolds' /\ ShownIsOfOpenPhoto'
  BY <1>2, <1>8 DEF BusyHolds, NewestHolds, BeneathHolds, ShownIsOfOpenPhoto
<1> QED  BY <1>7, <1>9, <1>10, <1>11, <1>12, <1>14, <1>17, <1>18, <1>19, <1>20 DEF WindowInv

(* Nothing is open and nothing is on its way. *)
LEMMA WindowStarts == Init => WindowInv
<1> SUFFICES ASSUME Init PROVE WindowInv
  OBVIOUS
<1>1. /\ posted = <<>> /\ lastDecode = 0 /\ waiting = None /\ inFlight = None /\ delivered = 0
      /\ dropped = 0 /\ opened = 0 /\ open = 0 /\ options = None /\ decoded = None
      /\ decodeRequest = 0 /\ redecode = None /\ failedOptions = None /\ firstRequest = 0
      /\ latestShown = 0 /\ provisional = FALSE /\ zoomed = FALSE /\ image = None
      /\ beneath = None /\ busy = FALSE /\ reporting = FALSE /\ landing = FALSE
  BY DEF Init, Loader!Init
<1>2. /\ source = None /\ pending = None /\ wanted = FALSE /\ recount = FALSE /\ lastRequest = 0
      /\ stopping = "no" /\ at = "wait" /\ job = None /\ background = None
      /\ backgroundFor.source = None
  BY DEF Init, Renderer!Init, Renderer!NoBackground
<1>3. RendererInv
  BY RendererStarts DEF Init
<1>4. Decoded = {} /\ Results = {} /\ Fallbacks = {} /\ Carriers = {}
  BY <1>1 DEF Decoded, Results, Fallbacks, Carriers, At
<1>5. /\ zoomed \in BOOLEAN /\ provisional \in BOOLEAN /\ busy \in BOOLEAN
      /\ reporting \in BOOLEAN /\ landing \in BOOLEAN
  BY Zenon, <1>1
<1>6. WindowTyped
  BY <1>1, <1>2, <1>5 DEF WindowTyped
<1>7. WindowAlone /\ LaneHolds
  BY <1>1, <1>2, <1>4 DEF WindowAlone, LaneHolds
<1>8. HeldAreOfBefore
  BY <1>1, <1>2, <1>4 DEF HeldAreOfBefore, Held
<1>9. AwaitedComes /\ DocumentHolds
  BY <1>1, <1>4 DEF AwaitedComes, DocumentHolds, Awaited
<1>10. ResultsInOrder
  BY <1>1, <1>2, <1>4 DEF ResultsInOrder, Passed, Rendering, Pausing
<1>11. LeftBehind /\ PixelsInOrder /\ BeneathFollows
  BY <1>1, <1>2, <1>4 DEF LeftBehind, PixelsInOrder, BeneathFollows, Pausing
<1>12. BusyHolds /\ NewestHolds /\ BeneathHolds /\ ShownIsOfOpenPhoto
  BY <1>1, <1>2 DEF BusyHolds, NewestHolds, BeneathHolds, ShownIsOfOpenPhoto, Awaited
<1> QED  BY <1>3, <1>6, <1>7, <1>8, <1>9, <1>10, <1>11, <1>12 DEF WindowInv

(* Nothing happens. *)
LEMMA WindowWaits ==
    ASSUME WindowInv, UNCHANGED vars
    PROVE  WindowInv'
<1>1. RendererStays /\ ScreenStays /\ LaneStays /\ posted' = posted
  BY DEF vars, loader, renderer, window, document, decoding, view, RendererStays, ScreenStays,
         LaneStays
<1>2. RendererInv /\ WindowAlone /\ LaneHolds /\ AwaitedComes /\ DocumentHolds /\ WindowTyped
  BY DEF WindowInv
<1>3. Ordered' /\ RendererInv'
  BY <1>1, <1>2, OrderedKept, RendererKept
<1>4. WindowAlone'
  BY <1>1, <1>2 DEF WindowAlone, RendererStays, ScreenStays
<1>5. Decoded' = Decoded /\ Awaited' = Awaited
  BY <1>1 DEF Decoded, At, Awaited, ScreenStays
<1>6. LaneHolds' /\ AwaitedComes' /\ DocumentHolds'
  BY <1>1, <1>2, <1>5 DEF LaneHolds, AwaitedComes, DocumentHolds, IsOfPhotograph, LaneStays,
                          ScreenStays
<1>7. WindowTyped' /\ HeldAreOfBefore' /\ ShownIsOfOpenPhoto'
  <2>1. LaneTyped' /\ lastRequest' \in Nat /\ lastRequest' >= lastRequest
    BY <1>1, <1>2 DEF LaneTyped, LaneStays, WindowTyped, RendererStays, RendererInv, RendererTyped
  <2>2. /\ zoomed' \in BOOLEAN /\ busy' \in BOOLEAN /\ reporting' \in BOOLEAN
        /\ landing' \in BOOLEAN
    BY Zenon, <1>1, <1>2 DEF WindowTyped, ScreenStays
  <2>3. /\ options' \in Options \cup {None} /\ redecode' \in Redecodes \cup {None}
        /\ failedOptions' \in Options \cup {None}
    BY <1>1, <1>2 DEF WindowTyped, ScreenStays
  <2>4. /\ backgroundFor' = backgroundFor /\ delivered' = delivered /\ opened' = opened
        /\ open' = open /\ decoded' = decoded /\ image' = image /\ beneath' = beneath
        /\ firstRequest' = firstRequest /\ latestShown' = latestShown
        /\ provisional' = provisional /\ decodeRequest' = decodeRequest
    BY <1>1 DEF RendererStays, ScreenStays, LaneStays
  <2> QED  BY <1>1, <2>1, <2>2, <2>3, <2>4, WindowCalls
<1> QED  BY <1>3, <1>4, <1>6, <1>7 DEF WindowInv, Ordered

(* Every step keeps what holds of the window, its threads and what is on its way. *)
LEMMA WindowNext ==
    ASSUME WindowInv, [Next]_vars
    PROVE  WindowInv'
<1>1. CASE ShowPhoto \/ OpeningFails
  BY <1>1, Closing
<1>2. CASE Edit \/ ChangeView
  BY <1>2, EditSteps
<1>3. CASE RenderLanded \/ Reload \/ CloseBox
  BY <1>3, OtherSteps
<1>4. CASE DropDecode \/ RedecodeFails
  BY <1>4, DecodesTaken
<1>5. CASE DropResult \/ ShowPicture \/ ReportFailure \/ ShowFallback
  BY <1>5, ResultsTaken
<1>6. CASE LandPixels
  BY <1>6, PixelsLand
<1>7. CASE LoaderStep
  BY <1>7, LoaderSteps
<1>8. CASE RendererStep
  BY <1>8, RendererSteps
<1>9. CASE UNCHANGED vars
  BY <1>9, WindowWaits
<1> QED  BY <1>1, <1>2, <1>3, <1>4, <1>5, <1>6, <1>7, <1>8, <1>9 DEF Next, EventLoop

(* What holds of the window in every state it reaches. *)
LEMMA WindowHolds == Spec => []WindowInv
BY WindowStarts, WindowNext, PTL DEF Spec

(* Whatever is on the screen is of the open photograph, and what lies beneath a picture is of its
   pixels: no decode, render or fallback of a photograph left comes through (showResult(),
   decodeLanded(), showPhoto()). *)
THEOREM ScreenIsOfOpenPhoto == Spec => []ShownIsOfOpenPhoto
<1>1. WindowInv => ShownIsOfOpenPhoto
  BY DEF WindowInv
<1> QED  BY <1>1, WindowHolds, PTL

(* While pixels are awaited the window is busy; and when everything has come to rest it is not,
   and shows the newest look of the newest pixels (syncDecode(), showResult()). *)
THEOREM NewestIsShown == Spec => []SettledShowsNewest
<1>1. WindowInv => SettledShowsNewest
  <2> SUFFICES ASSUME WindowInv PROVE SettledShowsNewest
    OBVIOUS
  <2>1. /\ WindowTyped /\ WindowAlone /\ DocumentHolds /\ BusyHolds /\ NewestHolds /\ BeneathHolds
        /\ AwaitedComes /\ RendererTyped /\ PlaceHolds /\ RequestsHold
    BY DEF WindowInv, RendererInv
  <2>2. decodeRequest # 0 \/ redecode # None => Awaited # 0
    BY <2>1 DEF Awaited, DocumentHolds
  <2>3. decodeRequest # 0 \/ redecode # None => busy
    BY <2>1, <2>2 DEF BusyHolds
  <2>4. ASSUME Settled
        PROVE  /\ ~busy /\ decodeRequest = 0 /\ redecode = None
               /\ open # 0 =>
                   /\ decoded # None
                   /\ options \in {decoded.options, failedOptions}
                   /\ latestShown = lastRequest /\ lastRequest >= firstRequest /\ ~provisional
                   /\ image # None /\ image.id = lastRequest =>
                          /\ image.source = decoded
                          /\ image.look = look
                          /\ ~image.whole /\ background # None => beneath = background
    <3>1. /\ posted = <<>> /\ ~landing /\ waiting = None /\ inFlight = None
          /\ at = "wait" /\ pending = None /\ ~sourceChanged
      BY <2>4 DEF Settled, Renderer!Resting
    <3>2. Decoded = {} /\ Results = {} /\ Carriers = {}
      BY <3>1 DEF Decoded, Results, Carriers, At
    <3>3. Awaited = 0
      BY <2>1, <3>1, <3>2 DEF AwaitedComes
    <3>4. ~Owed
      BY <3>1, <3>2 DEF Owed, Rendering
    <3>5. ~busy /\ decodeRequest = 0 /\ redecode = None
      BY <2>1, <2>2, <3>1, <3>3, <3>4 DEF BusyHolds
    <3>6. ASSUME open # 0
          PROVE  /\ decoded # None
                 /\ options \in {decoded.options, failedOptions}
                 /\ latestShown = lastRequest /\ lastRequest >= firstRequest /\ ~provisional
      BY <2>1, <3>1, <3>4, <3>5, <3>6 DEF DocumentHolds, BusyHolds
    <3>7. ASSUME open # 0, image # None, image.id = lastRequest
          PROVE  image.source = decoded /\ image.look = look
      BY <2>1, <3>1, <3>6, <3>7 DEF NewestHolds, IsNewest
    <3>8. ASSUME open # 0, background # None
          PROVE  beneath = background
      <4>1. background.source = backgroundFor.source /\ background.source \in Loader!Decodes
        BY <2>1, <3>8 DEF PlaceHolds, RendererTyped, Images
      <4>2. background.source = decoded
        BY <2>1, <3>1, <4>1, NoneApart DEF RequestsHold, WindowAlone
      <4> QED  BY <2>1, <3>2, <3>6, <3>8, <4>2 DEF BeneathHolds
    <3> QED  BY <3>5, <3>6, <3>7, <3>8
  <2> QED  BY <2>3, <2>4 DEF SettledShowsNewest
<1> QED  BY <1>1, WindowHolds, PTL
-----------------------------------------------------------------------------
(* What each worker promises (see NewestRequest), and the types of all that runs. *)

(* What the loader owes. *)
DecodeOwed ==
    IF waiting # None THEN waiting.id
    ELSE IF inFlight # None /\ inFlight.job.id = lastDecode /\ dropped < lastDecode
         THEN lastDecode
    ELSE 0

(* What the lane may be asked, or do. *)
LaneSteps ==
    \/ LaneStays
    \/ Loader!CancelDecode
    \/ \E document_ \in Documents, options_ \in Options : Loader!Decode(document_, options_)
    \/ Loader!Thread

(* A decode replaces what is owed, a cancel withdraws it, and what the thread delivers is newer
   than all it delivered before. *)
LEMMA LoaderServes ==
    ASSUME LaneHolds, LaneTyped, LaneSteps
    PROVE  [Loader!Newest!Next]_(Loader!Newest!vars)
<1>1. /\ lastDecode \in Nat /\ delivered \in Nat /\ dropped \in Nat
      /\ inFlight \in Flights \cup {None} /\ waiting \in Loader!Decodes \cup {None}
      /\ inFlight # None => inFlight.job \in Loader!Decodes
      /\ waiting # None => waiting.id = lastDecode /\ dropped < lastDecode
  BY DEF LaneTyped, LaneHolds, Flights
<1>2. /\ inFlight # None => /\ inFlight.job.id \in 1 .. lastDecode
                            /\ delivered < inFlight.job.id
      /\ inFlight # None /\ waiting # None => inFlight.job.id < lastDecode
      /\ inFlight # None /\ inFlight.cancelled => inFlight.job.id < lastDecode \/ dropped = lastDecode
  BY <1>1, DecodeFields DEF LaneHolds
<1> DEFINE Same == DecodeOwed' = DecodeOwed /\ lastDecode' = lastDecode
                   /\ delivered' = delivered /\ dropped' = dropped
<1>3. ASSUME Same PROVE UNCHANGED Loader!Newest!vars
  BY Zenon, <1>3 DEF Loader!Newest!vars, DecodeOwed
<1>4. CASE LaneStays
  BY <1>3, <1>4 DEF LaneStays, DecodeOwed
<1>5. CASE Loader!CancelDecode
  <2>1. /\ waiting' = None /\ dropped' = lastDecode /\ lastDecode' = lastDecode
        /\ delivered' = delivered
    BY <1>5 DEF Loader!CancelDecode
  <2>2. DecodeOwed' = 0
    BY <1>1, <2>1 DEF DecodeOwed
  <2>3. CASE dropped = lastDecode
    <3>1. DecodeOwed = 0
      BY <1>1, <2>3 DEF DecodeOwed
    <3> QED  BY <1>3, <2>1, <2>2, <2>3, <3>1
  <2>4. CASE dropped # lastDecode
    <3>1. Loader!Newest!Withdraw
      BY <2>1, <2>2, <2>4 DEF Loader!Newest!Withdraw, DecodeOwed
    <3> QED  BY <3>1 DEF Loader!Newest!Next
  <2> QED  BY <2>3, <2>4
<1>6. CASE \E document_ \in Documents, options_ \in Options : Loader!Decode(document_, options_)
  <2>1. PICK document_ \in Documents, options_ \in Options : Loader!Decode(document_, options_)
    BY <1>6
  <2>2. /\ lastDecode < DecodeBound /\ lastDecode' = lastDecode + 1
        /\ delivered' = delivered /\ dropped' = dropped
        /\ waiting' = [id |-> lastDecode + 1, document |-> document_, options |-> options_]
    BY <2>1 DEF Loader!Decode
  <2>3. waiting' \in Loader!Decodes
    <3>1. lastDecode + 1 \in 1 .. DecodeBound
      BY <1>1, <2>2, WindowAssumption
    <3> QED  BY <2>2, <3>1 DEF Loader!Decodes
  <2>4. DecodeOwed' = lastDecode + 1
    BY <2>2, <2>3, NoneApart DEF DecodeOwed
  <2>5. Loader!Newest!Ask
    BY <2>2, <2>4 DEF Loader!Newest!Ask, DecodeOwed
  <2> QED  BY <2>5 DEF Loader!Newest!Next
<1>7. CASE Loader!Take
  <2>1. /\ inFlight = None /\ waiting # None /\ waiting' = None
        /\ inFlight' = [job |-> waiting, cancelled |-> FALSE]
        /\ lastDecode' = lastDecode /\ delivered' = delivered /\ dropped' = dropped
    BY <1>7 DEF Loader!Take
  <2>2. inFlight' \in Flights /\ inFlight'.job = waiting
    BY <1>1, <2>1 DEF Flights
  <2>3. DecodeOwed' = DecodeOwed
    BY <1>1, <2>1, <2>2, NoneApart DEF DecodeOwed
  <2> QED  BY <1>3, <2>1, <2>3
<1>8. CASE \E lands \in BOOLEAN : Loader!Land(lands)
  <2>1. /\ inFlight # None /\ delivered' = inFlight.job.id /\ inFlight' = None
        /\ lastDecode' = lastDecode /\ waiting' = waiting /\ dropped' = dropped
    BY <1>8 DEF Loader!Land
  <2>2. DecodeOwed' = IF DecodeOwed = inFlight.job.id THEN 0 ELSE DecodeOwed
    BY <1>1, <1>2, <2>1 DEF DecodeOwed
  <2>3. Loader!Newest!Answer(inFlight.job.id)
    BY <1>2, <2>1, <2>2 DEF Loader!Newest!Answer, DecodeOwed
  <2> QED  BY <1>2, <2>1, <2>3 DEF Loader!Newest!Next
<1>9. CASE Loader!Abandon
  <2>1. /\ inFlight # None /\ inFlight.cancelled /\ inFlight' = None
        /\ lastDecode' = lastDecode /\ waiting' = waiting /\ delivered' = delivered
        /\ dropped' = dropped
    BY <1>9 DEF Loader!Abandon
  <2>2. DecodeOwed' = DecodeOwed
    BY <1>1, <1>2, <2>1 DEF DecodeOwed
  <2> QED  BY <1>3, <2>1, <2>2
<1> QED  BY <1>4, <1>5, <1>6, <1>7, <1>8, <1>9 DEF LaneSteps, Loader!Thread

(* Photographs and decodes keep within their bounds, and requests shown are numbered from one. *)
WindowBounded ==
    /\ lastDecode <= DecodeBound /\ opened <= DocumentBound
    /\ decodeRequest <= lastDecode
    /\ redecode # None => redecode.id \in 1 .. lastDecode
    /\ image # None => image.id \in 1 .. lastRequest
    /\ provisional => latestShown >= 1

(* A photograph that is open is one of those opened, with a way to decode it. *)
LEMMA OpenIsOpened ==
    ASSUME WindowInv, WindowBounded, open # 0
    PROVE  open \in Documents /\ options \in Options
<1>1. WindowTyped /\ DocumentHolds
  BY DEF WindowInv
<1> QED  BY <1>1, WindowAssumption DEF WindowTyped, DocumentHolds, WindowBounded, Documents

(* syncDecode(), as the lane sees it. *)
LEMMA SyncOfLane ==
    ASSUME NEW pixels, NEW awaited, SyncDecode(pixels, awaited),
           open \in Documents, options' \in Options
    PROVE  LaneSteps
<1>1. \/ LaneStays
      \/ Loader!CancelDecode
      \/ Loader!Decode(open, options')
  BY DEF SyncDecode, loader, LaneStays
<1> QED  BY <1>1 DEF LaneSteps

(* The decode that lands. *)
LEMMA LandingDecode ==
    ASSUME WindowInv, posted # <<>>, Event.kind = "decoded"
    PROVE  1 \in Decoded /\ Event = posted[1] /\ Event.job \in Loader!Decodes /\ Event.job.id # 0
<1>1. posted \in Seq(Events) /\ Event = posted[1] /\ 1 \in 1 .. Len(posted)
  BY DEF WindowInv, WindowTyped, Event
<1>2. 1 \in Decoded
  BY <1>1 DEF Decoded, At
<1>3. posted[1].job \in Loader!Decodes
  BY <1>2, EventFields DEF WindowInv
<1> QED  BY <1>1, <1>2, <1>3, DecodeFields

(* Each step of the window asks one thing of the lane, or nothing. *)
LEMMA LaneOfStep ==
    ASSUME WindowInv, WindowBounded, [Next]_vars
    PROVE  LaneSteps
<1>1. CASE ShowPhoto
  <2>1. /\ open' = opened + 1 /\ opened < DocumentBound /\ options' = SavedOptions
        /\ Loader!Decode(open', options')
    BY <1>1 DEF ShowPhoto
  <2>2. open' \in Documents /\ options' \in Options
    BY <2>1, WindowAssumption DEF WindowInv, WindowTyped, Documents
  <2> QED  BY <2>1, <2>2 DEF LaneSteps
<1>2. CASE Edit
  <2>1. open # 0
    BY <1>2 DEF Edit, Editable
  <2>2. open \in Documents /\ options' \in Options /\ SyncDecode(decoded, redecode)
    BY <1>2, <2>1, OpenIsOpened DEF Edit
  <2> QED  BY <2>2, SyncOfLane
<1>3. CASE LandPixels
  <2>1. /\ Event.kind = "decoded" /\ posted # <<>>
        /\ FirstDecode \/ Redecode
        /\ options' = options /\ SyncDecode(Event.job, None)
    BY <1>3 DEF LandPixels, Receive
  <2>2. Event.job.id # 0
    BY <2>1, LandingDecode
  <2>3. open # 0
    BY <2>1, <2>2 DEF WindowInv, DocumentHolds, FirstDecode, Redecode
  <2> QED  BY <2>1, <2>3, OpenIsOpened, SyncOfLane
<1>4. CASE OpeningFails
  BY <1>4 DEF OpeningFails, LaneSteps
<1>5. CASE LoaderStep
  BY <1>5 DEF LoaderStep, LaneSteps
<1>6. CASE UNCHANGED loader
  BY <1>6 DEF loader, LaneStays, LaneSteps
<1>7. CASE ChangeView \/ Reload \/ CloseBox
  BY <1>6, <1>7 DEF ChangeView, Reload, CloseBox
<1>8. CASE DropDecode \/ RenderLanded \/ RedecodeFails
  BY <1>6, <1>8 DEF DropDecode, RenderLanded, RedecodeFails
<1>9. CASE DropResult \/ ShowPicture \/ ReportFailure \/ ShowFallback
  BY <1>6, <1>9 DEF DropResult, ShowPicture, ReportFailure, ShowFallback, Stay
<1>10. CASE RendererStep \/ UNCHANGED vars
  BY <1>6, <1>10 DEF RendererStep, vars
<1> QED  BY <1>1, <1>2, <1>3, <1>4, <1>5, <1>7, <1>8, <1>9, <1>10 DEF Next, EventLoop
(* Requests are numbered from one, and within the bound. *)
RendererBounded ==
    /\ lastRequest <= RequestBound
    /\ uncounted <= lastRequest
    /\ job # None => job.id >= 1
    /\ lastShown # None => lastShown.id >= 1

(* No answer is newer than what is still to be answered, and a source given since is not that of
   before. *)
AnswersHold ==
    /\ answered \in Nat /\ answered <= lastRequest
    /\ pending # None => answered < lastRequest
    /\ Rendering => answered < job.id
    /\ sourceChanged /\ source # None => source # backgroundFor.source

(* What the renderer may be asked, or do. *)
RendererMoves ==
    \/ UNCHANGED Renderer!unposted
    \/ \E pixels \in Loader!Decodes \cup {None} :
           /\ pixels = None \/ pixels \notin {source, backgroundFor.source}
           /\ Renderer!SetSource(pixels)
    \/ /\ stopping = "no"
       /\ \E of \in Looks, whole, queue_ \in BOOLEAN : Renderer!Request(of, whole, queue_)
    \/ \E now \in BOOLEAN : Renderer!SetCurveHistogramWanted(now)
    \/ Renderer!RequestStop
    \/ Renderer!CancelForStop
    \/ Renderer!Worker

(* What the renderer owes. *)
RenderOwed ==
    IF stopping # "no" THEN 0
    ELSE IF pending # None THEN pending.id
    ELSE IF Renderer!StillOwed THEN job.id
    ELSE 0

(* A request replaces what is owed, another source or the end withdraws it, and a render that ends
   with a result answers it; a render is cancelled, or left, only when it is not owed. *)
LEMMA RendererServes ==
    ASSUME RendererInv, RendererBounded, AnswersHold, RendererMoves
    PROVE  /\ RendererBounded' /\ AnswersHold'
           /\ [Renderer!Newest!Next]_(Renderer!Newest!vars)
<1>1. /\ lastRequest \in Nat /\ uncounted \in Nat /\ answered \in Nat
      /\ source \in Loader!Decodes \cup {None}
      /\ job # None => job.id \in Nat /\ job.source = backgroundFor.source /\ job.source # None
      /\ lastShown # None => lastShown.id \in Nat
      /\ job = None <=> at \in {"wait", "ended"}
      /\ Pausing => job = lastShown
      /\ pending # None => pending.id = lastRequest /\ source # None /\ lastRequest >= 1
      /\ job # None => job.id <= lastRequest /\ (pending # None => job.id < lastRequest)
      /\ lastShown # None => lastShown.id <= lastRequest
      /\ channel # None => job # None
      /\ stopping \in {"no", "requested", "cancelled"}
      /\ at \in {"wait", "start", "render", "standIn", "level0", "pause", "fallback",
              "renderFallback", "check", "startCount", "count", "ended"}
  <2>1. RendererTyped /\ PlaceHolds /\ RequestsHold
    BY DEF RendererInv
  <2>2. job # None => job \in Jobs
    BY <2>1 DEF RendererTyped
  <2>3. lastShown # None => lastShown \in Jobs
    BY <2>1 DEF RendererTyped
  <2>4. \A of \in Jobs : of.id \in Nat /\ of.source # None
    BY NoneApart DEF Jobs
  <2> QED  BY <2>1, <2>2, <2>3, <2>4 DEF RendererTyped, PlaceHolds, RequestsHold, AnswersHold
<1> DEFINE Same == /\ RenderOwed' = RenderOwed /\ lastRequest' = lastRequest
                   /\ answered' = answered /\ source' = source /\ stopping' = stopping
<1>2. Same => UNCHANGED Renderer!Newest!vars
  <2> SUFFICES ASSUME Same PROVE UNCHANGED Renderer!Newest!vars
    OBVIOUS
  <2> QED  BY Zenon DEF Renderer!Newest!vars, RenderOwed
<1>3. /\ <<source, stopping>>' # <<source, stopping>> /\ RenderOwed' = 0
      /\ lastRequest' = lastRequest /\ answered' = answered
      => Renderer!Newest!Next
  BY Zenon DEF Renderer!Newest!Next, Renderer!Newest!Withdraw, RenderOwed
<1> HIDE DEF Same
<1>4. CASE UNCHANGED Renderer!unposted
  <2>1. /\ lastRequest' = lastRequest /\ uncounted' = uncounted /\ job' = job
        /\ lastShown' = lastShown /\ answered' = answered /\ pending' = pending /\ at' = at
        /\ sourceChanged' = sourceChanged /\ source' = source /\ backgroundFor' = backgroundFor
        /\ stopping' = stopping
    BY <1>4 DEF Renderer!unposted, Renderer!shared, Renderer!kept
  <2>2. RendererBounded' /\ AnswersHold'
    BY <2>1 DEF RendererBounded, AnswersHold, Rendering
  <2>3. Same
    BY <2>1 DEF Same, RenderOwed, Renderer!StillOwed
  <2> QED  BY <1>2, <2>2, <2>3
<1>5. CASE \E pixels \in Loader!Decodes \cup {None} :
               /\ pixels = None \/ pixels \notin {source, backgroundFor.source}
               /\ Renderer!SetSource(pixels)
  <2>1. PICK pixels \in Loader!Decodes \cup {None} :
               /\ pixels = None \/ pixels \notin {source, backgroundFor.source}
               /\ Renderer!SetSource(pixels)
    BY <1>5
  <2>2. /\ source' = pixels /\ pending' = None
        /\ sourceChanged' = (sourceChanged \/ pixels # source)
        /\ lastRequest' = lastRequest /\ uncounted' = uncounted /\ job' = job
        /\ lastShown' = lastShown /\ answered' = answered /\ at' = at
        /\ backgroundFor' = backgroundFor /\ stopping' = stopping
    BY <2>1 DEF Renderer!SetSource, Renderer!kept
  <2>3. RendererBounded' /\ AnswersHold'
    BY <2>1, <2>2 DEF RendererBounded, AnswersHold, Rendering
  <2>4. RenderOwed' = 0
    BY <1>1, <2>1, <2>2 DEF RenderOwed, Renderer!StillOwed
  <2>5. source' = source => RenderOwed = 0
    BY <1>1, <2>1, <2>2 DEF RenderOwed, Renderer!StillOwed
  <2>6. source' = source => Same
    BY <2>2, <2>4, <2>5 DEF Same
  <2> QED  BY <1>2, <1>3, <2>2, <2>3, <2>4, <2>6
<1>6. CASE /\ stopping = "no"
           /\ \E of \in Looks, whole, queue_ \in BOOLEAN : Renderer!Request(of, whole, queue_)
  <2>1. PICK of \in Looks, whole \in BOOLEAN, queue_ \in BOOLEAN :
                 Renderer!Request(of, whole, queue_)
    BY <1>6
  <2>2. /\ lastRequest < RequestBound /\ lastRequest' = lastRequest + 1
        /\ pending' = [id |-> lastRequest + 1, look |-> of, whole |-> whole]
        /\ source' = source /\ sourceChanged' = sourceChanged /\ uncounted' = uncounted
        /\ job' = job /\ lastShown' = lastShown /\ answered' = answered /\ at' = at
        /\ backgroundFor' = backgroundFor /\ stopping' = stopping
    BY <2>1 DEF Renderer!Request, Renderer!kept
  <2>3. pending'.id = lastRequest + 1 /\ pending' # None
    <3>1. pending' \in Requests
      BY <1>1, <2>2 DEF Requests
    <3> QED  BY <2>2, <3>1, NoneApart
  <2>4. RendererBounded' /\ AnswersHold'
    BY <1>1, <2>2, <2>3, WindowAssumption DEF RendererBounded, AnswersHold, Rendering
  <2>5. RenderOwed' = lastRequest + 1
    BY <1>6, <2>2, <2>3 DEF RenderOwed
  <2>6. Renderer!Newest!Ask
    BY <2>2, <2>5 DEF Renderer!Newest!Ask, RenderOwed
  <2> QED  BY <2>4, <2>6 DEF Renderer!Newest!Next
<1>7. CASE \E now \in BOOLEAN : Renderer!SetCurveHistogramWanted(now)
  <2>1. /\ lastRequest' = lastRequest /\ uncounted' = uncounted /\ job' = job
        /\ lastShown' = lastShown /\ answered' = answered /\ pending' = pending /\ at' = at
        /\ sourceChanged' = sourceChanged /\ source' = source /\ backgroundFor' = backgroundFor
        /\ stopping' = stopping
    BY <1>7 DEF Renderer!SetCurveHistogramWanted, Renderer!kept
  <2>2. RendererBounded' /\ AnswersHold'
    BY <2>1 DEF RendererBounded, AnswersHold, Rendering
  <2>3. Same
    BY <2>1 DEF Same, RenderOwed, Renderer!StillOwed
  <2> QED  BY <1>2, <2>2, <2>3
<1>8. CASE Renderer!RequestStop \/ Renderer!CancelForStop
  <2>1. /\ lastRequest' = lastRequest /\ uncounted' = uncounted /\ job' = job
        /\ lastShown' = lastShown /\ answered' = answered /\ pending' = pending /\ at' = at
        /\ sourceChanged' = sourceChanged /\ source' = source /\ backgroundFor' = backgroundFor
        /\ stopping' # "no" /\ stopping' # stopping
    BY <1>8 DEF Renderer!RequestStop, Renderer!CancelForStop, Renderer!kept
  <2>2. RendererBounded' /\ AnswersHold'
    BY <2>1 DEF RendererBounded, AnswersHold, Rendering
  <2>3. RenderOwed' = 0
    BY <2>1 DEF RenderOwed
  <2> QED  BY <1>3, <2>1, <2>2, <2>3
<1>9. CASE Renderer!Worker
  <2>a. source' = source /\ stopping' = stopping /\ lastRequest' = lastRequest
    BY <1>9 DEF Renderer!Worker, Renderer!Exit, Renderer!TakeRequest, Renderer!TakeRecount,
         Renderer!StartRender, Renderer!MakeStandIn, Renderer!DeliverStandIn, Renderer!Render,
         Renderer!Interrupted, Renderer!Pause, Renderer!StartFallback, Renderer!RenderFallback,
         Renderer!Check, Renderer!StartCount, Renderer!Count, Renderer!shared
  <2>1. CASE Renderer!TakeRequest
    <3>1. /\ at = "wait" /\ stopping = "no" /\ pending # None /\ pending' = None
          /\ job' = [id |-> pending.id, look |-> pending.look, whole |-> pending.whole,
                     source |-> source]
          /\ at' = "start" /\ sourceChanged' = FALSE /\ answered' = answered
          /\ uncounted' = uncounted
          /\ lastShown' \in {lastShown, None}
      BY <2>1 DEF Renderer!TakeRequest, Renderer!Keep, Renderer!WorkerOwn
    <3>2. job'.id = lastRequest /\ job'.source = source
      BY <1>1, <3>1
    <3>3. RendererBounded' /\ AnswersHold'
      BY <1>1, <2>a, <3>1, <3>2 DEF RendererBounded, AnswersHold, Rendering
    <3>4. RenderOwed' = lastRequest /\ RenderOwed = lastRequest
      BY <1>1, <2>a, <3>1, <3>2 DEF RenderOwed, Renderer!StillOwed
    <3> QED  BY <1>2, <2>a, <3>1, <3>3, <3>4 DEF Same
  <2>2. CASE \E outcome \in {"none", "failure", "picture"} : Renderer!Render(outcome)
    <3>1. PICK outcome \in {"none", "failure", "picture"} : Renderer!Render(outcome)
      BY <2>2
    <3>2. /\ at \in {"render", "level0"} /\ (outcome = "none" => channel.cancelled)
          /\ at' = (IF outcome = "picture" THEN "pause" ELSE "wait")
          /\ job' = (IF outcome = "picture" THEN job ELSE None)
          /\ answered' = (IF outcome = "none" THEN answered ELSE job.id)
          /\ lastShown' = (IF outcome = "picture" THEN job ELSE lastShown)
          /\ backgroundFor'.source = backgroundFor.source
          /\ sourceChanged' = sourceChanged /\ pending' = pending /\ uncounted' = uncounted
      <4>1. /\ at \in {"render", "level0"} /\ (outcome = "none" => channel.cancelled)
            /\ at' = (IF outcome = "picture" THEN "pause" ELSE "wait")
            /\ job' = (IF outcome = "picture" THEN job ELSE None)
            /\ answered' = (IF outcome = "none" THEN answered ELSE job.id)
            /\ lastShown' = (IF outcome = "picture" THEN job ELSE lastShown)
            /\ backgroundFor' \in {backgroundFor, [source |-> job.source, look |-> job.look]}
            /\ sourceChanged' = sourceChanged /\ pending' = pending /\ uncounted' = uncounted
        BY <3>1 DEF Renderer!Render, Renderer!Go, Renderer!WorkerOwn
      <4>2. job # None
        BY <1>1, <4>1
      <4> QED  BY <1>1, <4>1, <4>2
    <3>3. job # None /\ Rendering /\ job.id \in Nat /\ job.id >= 1 /\ answered < job.id
      BY <1>1, <3>2 DEF RendererBounded, AnswersHold, Rendering
    <3>4. RendererBounded' /\ AnswersHold'
      BY <1>1, <2>a, <3>2, <3>3 DEF RendererBounded, AnswersHold, Rendering
    <3>5. RenderOwed' = IF stopping = "no" /\ pending # None THEN lastRequest ELSE 0
      BY <1>1, <2>a, <3>2 DEF RenderOwed, Renderer!StillOwed
    <3>6. CASE outcome = "none"
      <4>1. job.id < lastRequest \/ sourceChanged \/ stopping # "no"
        BY <3>2, <3>3, <3>6 DEF RendererInv, CancelsHold, PlaceHolds
      <4>2. ~(stopping = "no" /\ Renderer!StillOwed)
        BY <1>1, <3>3, <4>1 DEF Renderer!StillOwed, AnswersHold
      <4>3. RenderOwed' = RenderOwed
        BY <1>1, <3>5, <4>2 DEF RenderOwed
      <4> QED  BY <1>2, <2>a, <3>2, <3>4, <3>6, <4>3 DEF Same
    <3>7. CASE outcome # "none"
      <4>1. RenderOwed' = IF RenderOwed = job.id THEN 0 ELSE RenderOwed
        BY <1>1, <3>3, <3>5 DEF RenderOwed
      <4>2. Renderer!Newest!Answer(job.id)
        BY <2>a, <3>2, <3>3, <3>7, <4>1 DEF Renderer!Newest!Answer, RenderOwed
      <4>3. job.id \in 1 .. lastRequest
        BY <1>1, <3>3
      <4> QED  BY <3>4, <4>2, <4>3 DEF Renderer!Newest!Next
    <3> QED  BY <3>6, <3>7
  <2>3. ASSUME /\ answered' = answered /\ pending' = pending
               /\ \/ job' = job /\ (Rendering' <=> Rendering)
                  \/ ~Rendering /\ ~Rendering' /\ job' \in {job, lastShown, None}
               /\ lastShown' \in {lastShown, None}
               /\ uncounted' = uncounted \/ (job # None /\ uncounted' = job.id)
               /\ \/ sourceChanged' = FALSE
                  \/ sourceChanged' = sourceChanged /\ backgroundFor'.source = backgroundFor.source
        PROVE  RendererBounded' /\ AnswersHold' /\ [Renderer!Newest!Next]_(Renderer!Newest!vars)
    <3>1. RendererBounded' /\ AnswersHold'
      BY <1>1, <2>a, <2>3 DEF RendererBounded, AnswersHold
    <3>2. RenderOwed' = RenderOwed
      BY <1>1, <2>a, <2>3 DEF RenderOwed, Renderer!StillOwed, Rendering
    <3> QED  BY <1>2, <2>a, <2>3, <3>1, <3>2 DEF Same
  <2>4. CASE Renderer!Exit \/ Renderer!Interrupted \/ Renderer!Pause \/ Renderer!Check
             \/ Renderer!StartFallback \/ Renderer!StartCount
    <3>1. /\ answered' = answered /\ pending' = pending /\ ~Rendering /\ ~Rendering'
          /\ job' \in {job, None} /\ lastShown' = lastShown /\ uncounted' = uncounted
          /\ sourceChanged' = sourceChanged /\ backgroundFor' = backgroundFor
      BY <2>4 DEF Renderer!Exit, Renderer!Interrupted, Renderer!Pause, Renderer!Check,
                  Renderer!StartFallback, Renderer!StartCount, Renderer!Go, Renderer!shared,
                  Renderer!kept, Renderer!WorkerOwn, Rendering
    <3> QED  BY <2>3, <3>1
  <2>5. CASE Renderer!StartRender \/ Renderer!MakeStandIn \/ Renderer!DeliverStandIn
    <3>1. /\ answered' = answered /\ pending' = pending /\ Rendering /\ Rendering'
          /\ job' = job /\ lastShown' = lastShown /\ uncounted' = uncounted
          /\ sourceChanged' = sourceChanged /\ backgroundFor' = backgroundFor
      BY <2>5 DEF Renderer!StartRender, Renderer!MakeStandIn, Renderer!DeliverStandIn,
                  Renderer!Go, Renderer!shared, Renderer!kept, Renderer!WorkerOwn, Rendering
    <3> QED  BY <2>3, <3>1
  <2>6. CASE Renderer!TakeRecount
    <3>1. /\ answered' = answered /\ pending' = pending /\ ~Rendering /\ ~Rendering'
          /\ job' \in {job, lastShown} /\ lastShown' \in {lastShown, None}
          /\ uncounted' = uncounted /\ sourceChanged' = FALSE
      BY <2>6 DEF Renderer!TakeRecount, Renderer!kept, Renderer!WorkerOwn, Rendering
    <3> QED  BY <2>3, <3>1
  <2>7. CASE \E outcome \in {"none", "failure", "picture"} : Renderer!RenderFallback(outcome)
    <3>1. /\ answered' = answered /\ pending' = pending /\ ~Rendering /\ ~Rendering'
          /\ job' \in {job, None} /\ lastShown' = lastShown /\ uncounted' = uncounted
          /\ sourceChanged' = sourceChanged /\ backgroundFor'.source = backgroundFor.source
      BY <2>7 DEF Renderer!RenderFallback, Renderer!Go, Rendering
    <3> QED  BY <2>3, <3>1
  <2>8. CASE \E outcome \in {"none", "current", "failed", "counted"} : Renderer!Count(outcome)
    <3>1. /\ answered' = answered /\ pending' = pending /\ ~Rendering /\ ~Rendering'
          /\ job # None /\ job' \in {job, None} /\ lastShown' = lastShown
          /\ uncounted' \in {uncounted, job.id}
          /\ sourceChanged' = sourceChanged /\ backgroundFor' = backgroundFor
      BY <1>1, <2>8 DEF Renderer!Count, Renderer!Go, Rendering
    <3> QED  BY <2>3, <3>1
  <2> QED  BY <1>9, <2>1, <2>2, <2>4, <2>5, <2>6, <2>7, <2>8 DEF Renderer!Worker
<1> QED  BY <1>4, <1>5, <1>6, <1>7, <1>8, <1>9 DEF RendererMoves

(* requestRender(), with the look and the view of then. *)
LEMMA RenderIsAsked ==
    ASSUME WindowInv, RequestRender(TRUE) \/ RequestRender(FALSE),
           look' \in Looks, zoomed' \in BOOLEAN
    PROVE  RendererMoves
<1>1. PICK queue_ \in BOOLEAN : RequestRender(queue_)
  OBVIOUS
<1>2. (~zoomed') \in BOOLEAN
  BY Zenon
<1>3. PICK of \in Looks, whole \in BOOLEAN : of = look' /\ whole = ~zoomed'
  BY <1>2
<1>4. Renderer!Request(of, whole, queue_)
  BY <1>1, <1>3 DEF RequestRender, Renderer!Request
<1>5. stopping = "no"
  BY DEF WindowInv, WindowAlone
<1> QED  BY <1>4, <1>5 DEF RendererMoves

(* Each step of the window asks one thing of the renderer, or nothing. *)
LEMMA RendererOfStep ==
    ASSUME WindowInv, [Next]_vars
    PROVE  RendererMoves
<1>1. CASE UNCHANGED renderer
  BY <1>1 DEF renderer, Renderer!unposted, Renderer!shared, Renderer!kept, RendererMoves
<1>2. CASE ShowPhoto \/ OpeningFails
  BY <1>2 DEF ShowPhoto, OpeningFails, RendererMoves
<1>3. CASE Edit \/ ChangeView
  <2>1. open # 0 /\ look \in Looks
    BY <1>3 DEF Edit, ChangeView, Editable, WindowInv, DocumentHolds
  <2>2. look' \in Looks /\ zoomed' \in BOOLEAN
    BY <1>3, <2>1 DEF Edit, ChangeView, WindowInv, WindowTyped
  <2>3. RequestRender(TRUE) \/ RequestRender(FALSE)
    BY <1>3 DEF Edit, ChangeView
  <2> QED  BY <2>2, <2>3, RenderIsAsked
<1>4. CASE RenderLanded
  <2>1. look' = look /\ zoomed' = zoomed /\ landing /\ RequestRender(FALSE)
    BY <1>4 DEF RenderLanded, document
  <2>2. look \in Looks /\ zoomed \in BOOLEAN
    BY <2>1 DEF WindowInv, DocumentHolds, WindowTyped
  <2> QED  BY <2>1, <2>2, RenderIsAsked
<1>5. CASE LandPixels
  <2>1. /\ Event.kind = "decoded" /\ posted # <<>> /\ Renderer!SetSource(Event.job)
    BY <1>5 DEF LandPixels, Receive
  <2>2. 1 \in Decoded /\ Event.job = posted[1].job /\ Event.job \in Loader!Decodes
    BY <2>1, LandingDecode
  <2>3. \A pixels \in Loader!Decodes : Held(pixels) => pixels # Event.job
    BY <2>2, HeadIsNewer
  <2>4. source = decoded /\ source \in Loader!Decodes \cup {None}
        /\ backgroundFor.source \in Loader!Decodes \cup {None}
    BY DEF WindowInv, WindowAlone, RendererInv, RendererTyped
  <2>5. Event.job \notin {source, backgroundFor.source}
    BY <2>2, <2>3, <2>4, NoneApart DEF Held
  <2> QED  BY <2>1, <2>2, <2>5 DEF RendererMoves
<1>6. CASE RendererStep
  BY <1>6 DEF RendererStep, RendererMoves
<1>7. CASE Reload \/ CloseBox \/ DropDecode \/ RedecodeFails
  BY <1>1, <1>7 DEF Reload, CloseBox, DropDecode, RedecodeFails
<1>8. CASE DropResult \/ ShowPicture \/ ReportFailure \/ ShowFallback
  BY <1>1, <1>8 DEF DropResult, ShowPicture, ReportFailure, ShowFallback, Stay
<1>9. CASE LoaderStep \/ UNCHANGED vars
  BY <1>1, <1>9 DEF LoaderStep, vars
<1> QED  BY <1>2, <1>3, <1>4, <1>5, <1>6, <1>7, <1>8, <1>9 DEF Next, EventLoop

(* Requests are only added, and decodes up to the cap. *)
LEMMA NumbersGrow ==
    ASSUME WindowInv, WindowBounded, RendererBounded, AnswersHold, [Next]_vars
    PROVE  /\ lastDecode \in Nat /\ lastDecode' \in Nat /\ lastDecode <= lastDecode'
           /\ lastDecode' <= DecodeBound
           /\ lastRequest \in Nat /\ lastRequest' \in Nat /\ lastRequest <= lastRequest'
<1>1. WindowInv'
  BY WindowNext
<1>2. /\ lastDecode \in Nat /\ lastDecode' \in Nat /\ lastRequest \in Nat /\ lastRequest' \in Nat
  BY <1>1 DEF WindowInv, WindowTyped, RendererInv, RendererTyped
<1>3. lastDecode' \in {lastDecode, lastDecode + 1} /\ lastDecode' <= DecodeBound
  <2>1. \/ lastDecode' = lastDecode
        \/ lastDecode < DecodeBound /\ lastDecode' = lastDecode + 1
    BY LaneOfStep DEF LaneSteps, LaneStays, Loader!CancelDecode, Loader!Decode, Loader!Thread,
                      Loader!Take, Loader!Land, Loader!Abandon
  <2> QED  BY <1>2, <2>1, WindowAssumption DEF WindowBounded
<1>4. [Renderer!Newest!Next]_(Renderer!Newest!vars)
  BY RendererOfStep, RendererServes DEF WindowInv
<1>5. lastRequest' \in {lastRequest, lastRequest + 1}
  BY <1>4 DEF Renderer!Newest!Next, Renderer!Newest!vars, Renderer!Newest!Ask,
              Renderer!Newest!Answer, Renderer!Newest!Withdraw
<1> QED  BY <1>2, <1>3, <1>5

(* syncDecode() names a decode that was asked for. *)
LEMMA SyncOfRedecode ==
    ASSUME WindowInv, NEW pixels, NEW awaited, SyncDecode(pixels, awaited),
           lastDecode \in Nat
    PROVE  \/ redecode' \in {None, awaited}
           \/ redecode'.id = lastDecode' /\ lastDecode' = lastDecode + 1
BY DEF SyncDecode, Loader!Decode

(* The bounds stay kept. *)
LEMMA WindowStaysBounded ==
    ASSUME WindowInv, WindowBounded, RendererBounded, AnswersHold, [Next]_vars
    PROVE  WindowBounded'
<1>1. /\ lastDecode \in Nat /\ lastDecode' \in Nat /\ lastDecode <= lastDecode'
      /\ lastDecode' <= DecodeBound
      /\ lastRequest \in Nat /\ lastRequest' \in Nat /\ lastRequest <= lastRequest'
  BY NumbersGrow
<1>2. /\ opened \in Nat /\ opened <= DocumentBound /\ DocumentBound \in Nat
      /\ decodeRequest \in Nat /\ decodeRequest <= lastDecode
      /\ redecode # None => redecode.id \in 1 .. lastDecode
      /\ image # None => image.id \in 1 .. lastRequest
      /\ provisional => latestShown >= 1
      /\ latestShown \in Nat
  BY WindowAssumption DEF WindowInv, WindowTyped, WindowBounded
<1>3. opened' <= DocumentBound
  <2>1. opened' = opened \/ (opened < DocumentBound /\ opened' = opened + 1)
    BY DEF Next, EventLoop, ShowPhoto, Edit, ChangeView, Reload, CloseBox, DropDecode, LandPixels,
           RenderLanded, RedecodeFails, OpeningFails, DropResult, ShowPicture, ReportFailure,
           ShowFallback, Stay, LoaderStep, RendererStep, vars, window, document
  <2> QED  BY <1>2, <2>1
<1>4. decodeRequest' <= lastDecode'
  <2>1. decodeRequest' \in {decodeRequest, 0, lastDecode'}
    BY DEF Next, EventLoop, ShowPhoto, Edit, ChangeView, Reload, CloseBox, DropDecode, LandPixels,
           RenderLanded, RedecodeFails, OpeningFails, DropResult, ShowPicture, ReportFailure,
           ShowFallback, Stay, LoaderStep, RendererStep, vars, window, decoding
  <2> QED  BY <1>1, <1>2, <2>1
<1>5. redecode' # None => redecode'.id \in 1 .. lastDecode'
  <2>1. \/ redecode' \in {None, redecode}
        \/ redecode'.id = lastDecode' /\ lastDecode' = lastDecode + 1
    <3>1. CASE Edit
      BY <1>1, <3>1, SyncOfRedecode DEF Edit
    <3>2. CASE LandPixels
      BY <1>1, <3>2, SyncOfRedecode DEF LandPixels
    <3> QED  BY <3>1, <3>2 DEF Next, EventLoop, ShowPhoto, ChangeView, Reload, CloseBox, DropDecode,
           RenderLanded, RedecodeFails, OpeningFails, DropResult, ShowPicture, ReportFailure,
           ShowFallback, Stay, LoaderStep, RendererStep, vars, window, decoding
  <2> QED  BY <1>1, <1>2, <2>1
<1>6. /\ image' # None => image'.id \in 1 .. lastRequest'
      /\ provisional' => latestShown' >= 1
  <2>1. CASE ShowPicture
    <3>1. /\ posted # <<>> /\ Event.kind = "picture" /\ ~Behind
          /\ latestShown' = Event.id /\ provisional' = Event.provisional
          /\ image' = [id |-> Event.id, whole |-> Event.whole,
                       source |-> Event.image.source, look |-> Event.image.look]
      BY <2>1 DEF ShowPicture, Receive
    <3>2. Event = posted[1] /\ 1 \in 1 .. Len(posted)
      BY <3>1 DEF WindowInv, WindowTyped, Event
    <3>3. 1 \in Results
      BY <3>1, <3>2 DEF Results, At
    <3>4. Event.id \in Nat /\ Event.id <= lastRequest
      BY <3>2, <3>3, EventFields DEF WindowInv, ResultsInOrder, Passed
    <3>5. Event.id >= 1
      BY <1>2, <3>1, <3>4 DEF Behind
    <3>6. image'.id = Event.id
      BY <3>1
    <3> QED  BY <1>1, <3>1, <3>4, <3>5, <3>6
  <2>2. CASE image' \in {image, None} /\ provisional' \in {provisional, FALSE} /\ latestShown' = latestShown
    <3>1. provisional' => provisional
      BY Zenon, <2>2
    <3>2. provisional' => latestShown' >= 1
      BY <1>2, <2>2, <3>1
    <3> QED  BY <1>1, <1>2, <2>2, <3>2
  <2>3. CASE ReportFailure
    <3>1. provisional' = FALSE /\ image' = image
      BY <2>3 DEF ReportFailure
    <3> QED  BY <1>1, <1>2, <3>1
  <2> QED  BY <2>1, <2>2, <2>3 DEF Next, EventLoop, ShowPhoto, Edit, ChangeView, Reload, CloseBox,
           DropDecode, LandPixels, RenderLanded, RedecodeFails, OpeningFails, DropResult,
           ShowFallback, Stay, LoaderStep, RendererStep, vars, window, view
<1> QED  BY <1>1, <1>3, <1>4, <1>5, <1>6 DEF WindowBounded

(* A source that the window gives is other pixels than those the worker keeps. *)
LEMMA RendererOfCalls ==
    ASSUME Renderer!Next
    PROVE  RendererMoves
<1>1. CASE \E pixels \in Renderer!Fresh \cup {None} : Renderer!SetSource(pixels)
  <2>1. PICK pixels \in Renderer!Fresh \cup {None} : Renderer!SetSource(pixels)
    BY <1>1
  <2>2. pixels \in Loader!Decodes \cup {None}
        /\ (pixels = None \/ pixels \notin {source, backgroundFor.source})
    BY <2>1 DEF Renderer!Fresh
  <2> QED  BY <2>1, <2>2 DEF RendererMoves
<1>2. CASE /\ stopping = "no"
           /\ \E of \in Looks, whole, queue_ \in BOOLEAN : Renderer!Request(of, whole, queue_)
  BY <1>2 DEF RendererMoves
<1>3. CASE \E now \in BOOLEAN : Renderer!SetCurveHistogramWanted(now)
  BY <1>3 DEF RendererMoves
<1>4. CASE Renderer!RequestStop \/ Renderer!CancelForStop \/ Renderer!Worker
  BY <1>4 DEF RendererMoves
<1> QED  BY <1>1, <1>2, <1>3, <1>4 DEF Renderer!Next, Renderer!Calls

(* The renderer that runs alone has two decodes of the first photograph and fewer requests. *)
LEMMA AloneIsRenderer ==
    ASSUME Alone!Next, lastRequest \in Nat
    PROVE  Renderer!Next
<1>1. AloneBound <= RequestBound /\ AloneBound \in Nat /\ RequestBound \in Nat
  BY BoundsAssumption, WindowAssumption
<1>2. ASSUME NEW id \in 1 .. 2
      PROVE  [id |-> id, document |-> 1, options |-> SavedOptions] \in Loader!Decodes
  <2>1. id \in 1 .. DecodeBound /\ 1 \in Documents
    BY <1>2, BoundsAssumption, WindowAssumption DEF Documents
  <2> QED  BY <2>1, WindowAssumption DEF Loader!Decodes
<1>3. CASE Alone!Calls
  <2>1. stopping = "no" /\ posted' = <<>>
    BY <1>3 DEF Alone!Calls
  <2>2. CASE \E pixels \in Alone!Fresh \cup {None} : Alone!SetSource(pixels)
    <3>1. PICK pixels \in Alone!Fresh \cup {None} : Alone!SetSource(pixels)
      BY <2>2
    <3>2. pixels \in Renderer!Fresh \cup {None}
      BY <1>2, <3>1 DEF Alone!Fresh, Renderer!Fresh
    <3>3. Renderer!SetSource(pixels)
      BY <3>1 DEF Alone!SetSource, Renderer!SetSource, Alone!kept, Renderer!kept,
                  Alone!Cancelled, Renderer!Cancelled
    <3> QED  BY <2>1, <3>2, <3>3 DEF Renderer!Next, Renderer!Calls
  <2>3. CASE source # None /\ \E of \in Looks, whole, queue_ \in BOOLEAN :
                                  Alone!Request(of, whole, queue_)
    <3>1. PICK of \in Looks, whole \in BOOLEAN, queue_ \in BOOLEAN : Alone!Request(of, whole, queue_)
      BY <2>3
    <3>2. lastRequest < RequestBound
      BY <1>1, <3>1 DEF Alone!Request
    <3>3. Renderer!Request(of, whole, queue_)
      BY <3>1, <3>2 DEF Alone!Request, Renderer!Request, Alone!kept, Renderer!kept,
                        Alone!Cancelled, Renderer!Cancelled
    <3> QED  BY <2>1, <2>3, <3>3 DEF Renderer!Next, Renderer!Calls
  <2>4. CASE \E now \in BOOLEAN : Alone!SetCurveHistogramWanted(now)
    <3>1. PICK now \in BOOLEAN : Alone!SetCurveHistogramWanted(now)
      BY <2>4
    <3>2. Renderer!SetCurveHistogramWanted(now)
      BY <3>1 DEF Alone!SetCurveHistogramWanted, Renderer!SetCurveHistogramWanted, Alone!kept,
                  Renderer!kept
    <3> QED  BY <2>1, <3>2 DEF Renderer!Next, Renderer!Calls
  <2> QED  BY <1>3, <2>2, <2>3, <2>4 DEF Alone!Calls
<1>4. CASE Alone!RequestStop \/ Alone!CancelForStop
  BY <1>4 DEF Alone!RequestStop, Alone!CancelForStop, Renderer!RequestStop, Renderer!CancelForStop,
              Alone!kept, Renderer!kept, Alone!Cancelled, Renderer!Cancelled, Renderer!Next
<1>5. CASE Alone!Worker
  <2> USE DEF Alone!Go, Renderer!Go, Alone!shared, Renderer!shared, Alone!kept, Renderer!kept,
              Alone!WorkerOwn, Renderer!WorkerOwn, Alone!StartChannel, Renderer!StartChannel,
              Alone!Post, Renderer!Post, Alone!Picture, Renderer!Picture
  <2>1. Alone!Exit => Renderer!Exit
    BY DEF Alone!Exit, Renderer!Exit
  <2>2. Alone!TakeRequest => Renderer!TakeRequest
    BY DEF Alone!TakeRequest, Renderer!TakeRequest, Alone!Keep, Renderer!Keep
  <2>3. Alone!TakeRecount => Renderer!TakeRecount
    BY DEF Alone!TakeRecount, Renderer!TakeRecount, Alone!NoBackground, Renderer!NoBackground
  <2>4. Alone!StartRender => Renderer!StartRender
    BY DEF Alone!StartRender, Renderer!StartRender
  <2>5. Alone!MakeStandIn => Renderer!MakeStandIn
    BY DEF Alone!MakeStandIn, Renderer!MakeStandIn
  <2>6. Alone!DeliverStandIn => Renderer!DeliverStandIn
    BY DEF Alone!DeliverStandIn, Renderer!DeliverStandIn
  <2>7. ASSUME NEW outcome \in {"none", "failure", "picture"}, Alone!Render(outcome)
        PROVE  Renderer!Render(outcome)
    BY <2>7 DEF Alone!Render, Renderer!Render
  <2>8. Alone!Interrupted => Renderer!Interrupted
    BY DEF Alone!Interrupted, Renderer!Interrupted
  <2>9. Alone!Pause => Renderer!Pause
    BY DEF Alone!Pause, Renderer!Pause
  <2>10. Alone!StartFallback => Renderer!StartFallback
    BY DEF Alone!StartFallback, Renderer!StartFallback
  <2>11. ASSUME NEW outcome \in {"none", "failure", "picture"}, Alone!RenderFallback(outcome)
         PROVE  Renderer!RenderFallback(outcome)
    BY <2>11 DEF Alone!RenderFallback, Renderer!RenderFallback
  <2>12. Alone!Check => Renderer!Check
    BY DEF Alone!Check, Renderer!Check
  <2>13. Alone!StartCount => Renderer!StartCount
    BY DEF Alone!StartCount, Renderer!StartCount
  <2>14. ASSUME NEW outcome \in {"none", "current", "failed", "counted"}, Alone!Count(outcome)
         PROVE  Renderer!Count(outcome)
    BY <2>14 DEF Alone!Count, Renderer!Count
  <2>15. Renderer!Worker
    BY <1>5, <2>1, <2>2, <2>3, <2>4, <2>5, <2>6, <2>7, <2>8, <2>9, <2>10, <2>11, <2>12, <2>13,
       <2>14 DEF Alone!Worker, Renderer!Worker
  <2> QED  BY <2>15 DEF Renderer!Next
<1> QED  BY <1>3, <1>4, <1>5 DEF Alone!Next

(* Pictures and submissions are numbered from one, within their bounds, and what waits to be
   counted was submitted since the panel was emptied last. *)
WellNumbered(count) == count.serial >= 1 /\ count.picture \in 1 .. PictureBound

PanelBounded ==
    /\ lastSerial <= SubmitBound /\ generation <= ClearBound /\ pictures <= PictureBound
    /\ next # None => WellNumbered(next) /\ next.generation = generation
    /\ counting # None => WellNumbered(counting)
    /\ \A i \in 1 .. Len(posted) : WellNumbered(posted[i].count)
    /\ picture # None => picture >= 1
    /\ lastMeasured # None => lastMeasured >= 1
    /\ shown # None => shown.picture \in 1 .. PictureBound

(* What the counter owes. *)
CountOwed ==
    IF destroying # "no" THEN 0
    ELSE IF next # None THEN next.serial
    ELSE IF counting # None /\ counting.generation = generation THEN counting.serial
    ELSE 0

(* submitMeasured(), of a picture there is. *)
LEMMA MeasuredServes ==
    ASSUME PanelInv, PanelBounded, NEW pixels \in Nat \cup {None}, NEW seen \in BOOLEAN,
           pixels # None => pixels \in 1 .. PictureBound,
           Panel!SubmitMeasured(pixels, seen), destroying = "no", posted' = posted,
           shown' = shown, pictures' \in Nat, pictures' <= PictureBound, picture' \in {picture, pixels}
    PROVE  PanelBounded' /\ [Panel!Counter!Newest!Next]_(Panel!Counter!Newest!vars)
<1>1. /\ lastSerial \in Nat /\ generation \in Nat /\ None \notin Nat /\ None \notin Counts
      /\ SubmitBound \in Nat /\ PictureBound \in Nat
  BY BoundsAssumption DEF PanelInv, PanelTyped, Counts
<1>2. CASE UNCHANGED <<lastMeasured, Panel!counter>>
  <2>1. /\ next' = next /\ lastSerial' = lastSerial /\ generation' = generation
        /\ counting' = counting /\ destroying' = destroying /\ finished' = finished
        /\ lastMeasured' = lastMeasured
    BY <1>2 DEF Panel!counter
  <2>2. PanelBounded'
    BY <1>1, <2>1 DEF PanelBounded, WellNumbered
  <2>3. UNCHANGED Panel!Counter!Newest!vars
    BY Zenon, <2>1 DEF Panel!Counter!Newest!vars
  <2> QED  BY <2>2, <2>3
<1>3. CASE pixels # None /\ lastMeasured' = pixels /\ Panel!Counter!Submit(pixels)
  <2>1. /\ lastSerial < SubmitBound /\ lastSerial' = lastSerial + 1
        /\ next' = [serial |-> lastSerial + 1, generation |-> generation, picture |-> pixels]
        /\ generation' = generation /\ counting' = counting /\ destroying' = destroying
        /\ finished' = finished
    BY <1>3 DEF Panel!Counter!Submit
  <2>2. next' \in Counts /\ next'.serial = lastSerial + 1 /\ next'.generation = generation
        /\ next'.picture = pixels
    BY <1>1, <1>3, <2>1 DEF Counts
  <2>3. PanelBounded'
    BY <1>1, <1>3, <2>1, <2>2 DEF PanelBounded, WellNumbered
  <2>4. CountOwed' = lastSerial + 1
    BY <1>1, <2>1, <2>2 DEF CountOwed
  <2>5. Panel!Counter!Newest!Ask
    BY <2>1, <2>4 DEF Panel!Counter!Newest!Ask, CountOwed
  <2> QED  BY <2>3, <2>5 DEF Panel!Counter!Newest!Next
<1> QED  BY <1>2, <1>3 DEF Panel!SubmitMeasured

(* A picture replaces the one that waits, emptying the panel or the end withdraws it, and the
   thread finishes them in order. *)
LEMMA CounterServes ==
    ASSUME PanelInv, PanelBounded, [Panel!Next]_(Panel!vars)
    PROVE  PanelBounded' /\ [Panel!Counter!Newest!Next]_(Panel!Counter!Newest!vars)
<1>1. /\ lastSerial \in Nat /\ generation \in Nat /\ finished \in Nat /\ pictures \in Nat
      /\ ClearBound \in Nat /\ PictureBound \in Nat
      /\ None \notin Nat /\ None \notin Counts
      /\ next \in Counts \cup {None} /\ counting \in Counts \cup {None}
      /\ picture \in Nat \cup {None} /\ inSight \in BOOLEAN
      /\ picture # None => picture <= pictures
      /\ posted \in Seq(Reports) /\ Len(posted) \in Nat
      /\ destroying \in {"no", "abandoned", "stopped"}
  BY BoundsAssumption DEF PanelInv, PanelTyped, Counts
<1>2. /\ next # None => /\ next.serial = lastSerial /\ next.serial \in Nat
                        /\ counting # None => counting.serial < lastSerial
      /\ counting # None => /\ counting.serial \in Nat /\ counting.serial <= lastSerial
                            /\ finished < counting.serial /\ counting.generation <= generation
                            /\ counting.generation \in Nat
      /\ codes # "none" => counting # None
  BY <1>1 DEF PanelInv, CountsHold, PartsAreOfBefore, WasSubmitted, Counts
<1> DEFINE Same == /\ CountOwed' = CountOwed /\ lastSerial' = lastSerial
                   /\ finished' = finished /\ generation' = generation /\ destroying' = destroying
<1>3. Same => UNCHANGED Panel!Counter!Newest!vars
  <2> SUFFICES ASSUME Same PROVE UNCHANGED Panel!Counter!Newest!vars
    OBVIOUS
  <2> QED  BY Zenon DEF Panel!Counter!Newest!vars, CountOwed
<1>4. /\ <<generation, destroying>>' # <<generation, destroying>> /\ CountOwed' = 0
      /\ lastSerial' = lastSerial /\ finished' = finished
      => Panel!Counter!Newest!Next
  BY Zenon DEF Panel!Counter!Newest!Next, Panel!Counter!Newest!Withdraw, CountOwed
<1> HIDE DEF Same
<1>5. CASE Panel!ShowPicture
  <2>1. /\ destroying = "no" /\ pictures < PictureBound /\ pictures' = pictures + 1
        /\ picture' = pictures + 1 /\ Panel!SubmitMeasured(pictures + 1, inSight)
        /\ posted' = posted /\ shown' = shown
    BY <1>5 DEF Panel!ShowPicture
  <2>2. PICK pixels \in Nat : pixels = pictures + 1
    BY <1>1
  <2>3. /\ Panel!SubmitMeasured(pixels, inSight) /\ pixels \in 1 .. PictureBound
        /\ pictures' \in Nat /\ pictures' <= PictureBound /\ picture' \in {picture, pixels}
    BY <1>1, <2>1, <2>2
  <2> QED  BY <1>1, <2>1, <2>3, MeasuredServes
<1>6. CASE Panel!Reveal
  <2>1. /\ destroying = "no" /\ pictures' = pictures /\ picture' = picture
        /\ Panel!SubmitMeasured(picture, TRUE) /\ posted' = posted /\ shown' = shown
    BY <1>6 DEF Panel!Reveal
  <2>2. pictures <= PictureBound /\ (picture # None => picture \in 1 .. PictureBound)
    BY <1>1 DEF PanelBounded
  <2> QED  BY <1>1, <2>1, <2>2, MeasuredServes
<1>7. CASE Panel!LeavePhoto \/ Panel!Hide
  <2>1. /\ destroying = "no" /\ generation < ClearBound /\ generation' = generation + 1
        /\ next' = None /\ lastSerial' = lastSerial /\ counting' = counting
        /\ destroying' = destroying /\ finished' = finished /\ lastMeasured' = None
        /\ shown' = None /\ posted' = posted /\ pictures' = pictures
        /\ picture' \in {picture, None}
    BY <1>7 DEF Panel!LeavePhoto, Panel!Hide, Panel!Empty, Panel!Counter!Clear
  <2>2. PanelBounded'
    BY <1>1, <2>1 DEF PanelBounded, WellNumbered
  <2>3. CountOwed' = 0
    BY <1>1, <1>2, <2>1 DEF CountOwed
  <2>4. <<generation, destroying>>' # <<generation, destroying>>
    BY <1>1, <2>1
  <2> QED  BY <1>4, <2>1, <2>2, <2>3, <2>4
<1>8. CASE Panel!ShowHistogram
  <2>1. /\ next' = next /\ lastSerial' = lastSerial /\ generation' = generation
        /\ counting' = counting /\ destroying' = destroying /\ finished' = finished
        /\ lastMeasured' = lastMeasured /\ pictures' = pictures /\ picture' = picture
        /\ posted # <<>> /\ posted' = Tail(posted)
        /\ \/ shown' = shown
           \/ shown' = [picture |-> Head(posted).count.picture, codes |-> Head(posted).codes]
    BY <1>8 DEF Panel!ShowHistogram, Panel!counter
  <2>2. /\ Len(posted') = Len(posted) - 1 /\ Head(posted) = posted[1] /\ 1 \in 1 .. Len(posted)
        /\ \A i \in 1 .. Len(posted') : i + 1 \in 1 .. Len(posted) /\ posted'[i] = posted[i + 1]
    BY <1>1, <2>1
  <2>3. \A i \in 1 .. Len(posted') : WellNumbered(posted'[i].count)
    BY <2>2 DEF PanelBounded
  <2>4. shown' # None => shown'.picture \in 1 .. PictureBound
    BY <2>1, <2>2 DEF PanelBounded, WellNumbered
  <2>5. PanelBounded'
    BY <1>1, <2>1, <2>3, <2>4 DEF PanelBounded, WellNumbered
  <2>6. Same
    BY <2>1 DEF Same, CountOwed
  <2> QED  BY <1>3, <2>5, <2>6
<1>9. CASE Panel!Destroy
  <2>1. /\ destroying' # destroying /\ destroying' # "no" /\ next' \in {next, None}
        /\ lastSerial' = lastSerial /\ generation' = generation /\ counting' = counting
        /\ finished' = finished /\ posted' = posted /\ lastMeasured' = lastMeasured
        /\ pictures' = pictures /\ picture' = picture /\ shown' = shown
    BY <1>9 DEF Panel!Destroy, Panel!Counter!AbandonAll, Panel!Counter!RequestStop, Panel!panel
  <2>2. PanelBounded'
    BY <1>1, <2>1 DEF PanelBounded, WellNumbered
  <2>3. CountOwed' = 0
    BY <2>1 DEF CountOwed
  <2>4. <<generation, destroying>>' # <<generation, destroying>>
    BY <2>1
  <2> QED  BY <1>4, <2>1, <2>2, <2>3, <2>4
<1>10. CASE Panel!CounterStep
  <2>1. /\ lastMeasured' = lastMeasured /\ pictures' = pictures /\ picture' = picture
        /\ shown' = shown
    BY <1>10 DEF Panel!CounterStep, Panel!panel
  <2>2. CASE Panel!Counter!Take
    <3>1. /\ counting = None /\ next # None /\ counting' = next /\ next' = None
          /\ lastSerial' = lastSerial /\ generation' = generation /\ destroying' = destroying
          /\ finished' = finished /\ posted' = posted
      BY <2>2 DEF Panel!Counter!Take
    <3>2. PanelBounded'
      BY <1>1, <2>1, <3>1 DEF PanelBounded, WellNumbered
    <3>3. Same
      BY <1>1, <3>1 DEF Same, CountOwed, PanelBounded
    <3> QED  BY <1>3, <3>2, <3>3
  <2>3. CASE \E result \in {"all", "part", "failed"} : Panel!Counter!Count(result)
    <3>1. /\ next' = next /\ lastSerial' = lastSerial /\ generation' = generation
          /\ counting' = counting /\ destroying' = destroying /\ finished' = finished
          /\ posted' = posted
      BY <2>3 DEF Panel!Counter!Count
    <3>2. PanelBounded'
      BY <1>1, <2>1, <3>1 DEF PanelBounded, WellNumbered
    <3>3. Same
      BY <3>1 DEF Same, CountOwed
    <3> QED  BY <1>3, <3>2, <3>3
  <2>4. CASE Panel!Counter!Deliver
    <3>1. /\ codes # "none" /\ next' = next /\ lastSerial' = lastSerial
          /\ generation' = generation /\ counting' = None /\ destroying' = destroying
          /\ finished' = counting.serial
          /\ \/ posted' = posted
             \/ posted' = Append(posted, [kind |-> "histogram", count |-> counting, codes |-> codes])
      BY <2>4 DEF Panel!Counter!Deliver
    <3>2. counting # None
      BY <1>2, <3>1
    <3>3. \A i \in 1 .. Len(posted') : WellNumbered(posted'[i].count)
      <4>1. CASE posted' = posted
        BY <4>1 DEF PanelBounded
      <4>2. CASE posted' = Append(posted, [kind |-> "histogram", count |-> counting, codes |-> codes])
        <5>1. ASSUME NEW i \in 1 .. Len(posted')
              PROVE  \/ i \in 1 .. Len(posted) /\ posted'[i] = posted[i]
                     \/ posted'[i].count = counting
          BY <1>1, <4>2
        <5>2. WellNumbered(counting)
          BY <3>2 DEF PanelBounded
        <5>3. ASSUME NEW i \in 1 .. Len(posted'), posted'[i].count = counting
              PROVE  WellNumbered(posted'[i].count)
          BY <5>2, <5>3
        <5> QED  BY <5>1, <5>3 DEF PanelBounded
      <4> QED  BY <3>1, <4>1, <4>2
    <3>4. PanelBounded'
      BY <1>1, <2>1, <3>1, <3>3 DEF PanelBounded, WellNumbered
    <3>5. CountOwed' = IF CountOwed = counting.serial THEN 0 ELSE CountOwed
      BY <1>1, <1>2, <3>1, <3>2 DEF CountOwed
    <3>6. Panel!Counter!Newest!Answer(counting.serial)
      BY <1>2, <3>1, <3>2, <3>5 DEF Panel!Counter!Newest!Answer, CountOwed
    <3>7. counting.serial \in 1 .. lastSerial
      BY <1>1, <1>2, <3>2 DEF PanelBounded, WellNumbered
    <3> QED  BY <3>4, <3>6, <3>7 DEF Panel!Counter!Newest!Next
  <2> QED  BY <1>10, <2>2, <2>3, <2>4 DEF Panel!CounterStep, Panel!Counter!Thread
<1>11. CASE UNCHANGED Panel!vars
  <2>1. /\ next' = next /\ lastSerial' = lastSerial /\ generation' = generation
        /\ counting' = counting /\ destroying' = destroying /\ finished' = finished
        /\ lastMeasured' = lastMeasured /\ pictures' = pictures /\ picture' = picture
        /\ posted' = posted /\ shown' = shown
    BY <1>11 DEF Panel!vars, Panel!counter, Panel!panel
  <2>2. PanelBounded'
    BY <1>1, <2>1 DEF PanelBounded, WellNumbered
  <2>3. Same
    BY <2>1 DEF Same, CountOwed
  <2> QED  BY <1>3, <2>2, <2>3
<1> QED  BY <1>5, <1>6, <1>7, <1>8, <1>9, <1>10, <1>11 DEF Panel!Next

(* Exports are numbered within the bound, and boxes are of two kinds. *)
ExportsBounded ==
    /\ lastId <= ExportBound
    /\ closeWhenIdle \in BOOLEAN
    /\ boxes \in Seq({"running", "failed"})

(* closeEvent() shows one box at most. *)
LEMMA ClosingBoxes ==
    ASSUME NEW names, NEW over, over \in Seq({"running", "failed"}),
           Queue!CloseEvent(names, over)
    PROVE  closeWhenIdle' \in BOOLEAN /\ boxes' \in Seq({"running", "failed"})
<1>1. boxes' = over \/ boxes' = <<"running">> \o over
  BY DEF Queue!CloseEvent
<1>2. <<"running">> \o over \in Seq({"running", "failed"})
  <2>1. <<"running">> \in Seq({"running", "failed"})
    OBVIOUS
  <2> QED  BY <2>1, ConcatProperties
<1>3. closeWhenIdle' \in BOOLEAN
  BY Zenon DEF Queue!CloseEvent
<1> QED  BY <1>1, <1>2, <1>3

LEMMA IdleBoxes ==
    ASSUME NEW names, NEW over, over \in Seq({"running", "failed"}), closeWhenIdle \in BOOLEAN,
           Queue!CloseIfIdle(names, over)
    PROVE  closeWhenIdle' \in BOOLEAN /\ boxes' \in Seq({"running", "failed"})
BY ClosingBoxes DEF Queue!CloseIfIdle

(* The bound stays kept, and the boxes are what they were. *)
LEMMA ExportsStayBounded ==
    ASSUME ExportsInv, ExportsBounded, [Queue!Next]_(Queue!vars)
    PROVE  ExportsBounded'
<1>1. lastId \in Nat /\ ExportBound \in Nat
  BY BoundsAssumption DEF ExportsInv, ExportsInOrder
<1>2. lastId' <= ExportBound
  <2>1. lastId' = lastId \/ (lastId < ExportBound /\ lastId' = lastId + 1)
    BY DEF Queue!Next, Queue!Enqueue, Queue!CloseWindow, Queue!ChooseWait, Queue!ChooseCancel,
           Queue!ShowExportResult, Queue!DismissFailure, Queue!ThreadStep, Queue!Thread,
           Queue!Take, Queue!Execute, Queue!exports, Queue!vars
  <2> QED  BY <1>1, <2>1 DEF ExportsBounded
<1>3. ASSUME boxes # <<>> PROVE Tail(boxes) \in Seq({"running", "failed"})
  BY <1>3 DEF ExportsBounded
<1>4. /\ closeWhenIdle' \in BOOLEAN
      /\ boxes' \in Seq({"running", "failed"})
  <2>1. CASE Queue!CloseWindow
    BY <2>1, ClosingBoxes DEF Queue!CloseWindow, ExportsBounded
  <2>2. CASE Queue!ChooseWait
    <3>1. closeWhenIdle' = TRUE /\ boxes # <<>> /\ boxes' = Tail(boxes)
      BY <2>2 DEF Queue!ChooseWait
    <3>2. closeWhenIdle' \in BOOLEAN
      BY Zenon, <3>1
    <3> QED  BY <1>3, <3>1, <3>2
  <2>3. CASE Queue!ChooseCancel
    <3>1. closeWhenIdle' = closeWhenIdle /\ boxes # <<>> /\ boxes' = Tail(boxes)
      BY <2>3 DEF Queue!ChooseCancel
    <3> QED  BY <1>3, <3>1 DEF ExportsBounded
  <2>4. CASE Queue!ShowExportResult
    <3>1. \/ boxes' = <<"failed">> \o boxes /\ closeWhenIdle' = closeWhenIdle
          \/ Queue!CloseIfIdle(exportNames', boxes)
      BY <2>4 DEF Queue!ShowExportResult
    <3>2. <<"failed">> \o boxes \in Seq({"running", "failed"})
      <4>1. <<"failed">> \in Seq({"running", "failed"})
        OBVIOUS
      <4> QED  BY <4>1, ConcatProperties DEF ExportsBounded
    <3> QED  BY <3>1, <3>2, IdleBoxes DEF ExportsBounded
  <2>5. CASE Queue!DismissFailure
    <3>1. boxes # <<>> /\ Queue!CloseIfIdle(exportNames, Tail(boxes))
      BY <2>5 DEF Queue!DismissFailure
    <3> QED  BY <1>3, <3>1, IdleBoxes DEF ExportsBounded
  <2>6. CASE Queue!Enqueue \/ Queue!ThreadStep \/ UNCHANGED Queue!vars
    <3>1. closeWhenIdle' = closeWhenIdle /\ boxes' = boxes
      BY <2>6 DEF Queue!Enqueue, Queue!ThreadStep, Queue!Thread, Queue!Take, Queue!Execute,
                  Queue!closing, Queue!vars
    <3> QED  BY <3>1 DEF ExportsBounded
  <2> QED  BY <2>1, <2>2, <2>3, <2>4, <2>5, <2>6 DEF Queue!Next
<1> QED  BY <1>2, <1>4 DEF ExportsBounded

-----------------------------------------------------------------------------
(* All that runs. *)

(* What holds of each part while it is the one that runs. *)
WindowPart == WindowInv /\ WindowBounded /\ RendererBounded /\ AnswersHold

RendererPart == RendererInv /\ RendererBounded /\ AnswersHold

PanelPart == PanelInv /\ PanelBounded

ExportsPart == ExportsInv /\ ExportsBounded

(* The window, its loader and the panel before their first step, whatever is posted. *)
WindowIdle ==
    /\ Loader!Init
    /\ opened = 0 /\ open = 0 /\ options = None /\ look = None /\ decoded = None
    /\ decodeRequest = 0 /\ redecode = None /\ failedOptions = None
    /\ firstRequest = 0 /\ latestShown = 0 /\ provisional = FALSE /\ zoomed = FALSE
    /\ image = None /\ beneath = None /\ busy = FALSE /\ reporting = FALSE /\ landing = FALSE

PanelIdle ==
    /\ Panel!Counter!Init
    /\ pictures = 0 /\ picture = None /\ inSight = FALSE /\ lastMeasured = None
    /\ shownSerial = 0 /\ shown = None

ExportsIdle ==
    /\ queue = <<>> /\ lastId = 0 /\ running = 0 /\ exportNames = {} /\ closeWhenIdle = FALSE
    /\ boxes = <<>> /\ closed = FALSE

(* The part that runs keeps what holds of it, and the others stay as they began. *)
MCInv ==
    /\ part \in {"window", "renderer", "panel", "exports"}
    /\ IF part = "window" THEN WindowPart ELSE WindowIdle
    /\ part = "renderer" => RendererPart
    /\ part \in {"panel", "exports"} => Renderer!Init
    /\ IF part = "panel" THEN PanelPart ELSE PanelIdle
    /\ IF part = "exports" THEN ExportsPart ELSE ExportsIdle

(* Everything at its beginning. *)
LEMMA PartsStart == MCInit => MCInv
<1> SUFFICES ASSUME MCInit PROVE MCInv
  OBVIOUS
<1>1. /\ part \in {"window", "renderer", "panel", "exports"}
      /\ Init /\ Panel!Init /\ Queue!Init
  BY DEF MCInit
<1>2. WindowIdle /\ Renderer!Init
  BY <1>1 DEF Init, WindowIdle
<1>3. PanelIdle /\ ExportsIdle
  BY <1>1 DEF Panel!Init, Queue!Init, PanelIdle, ExportsIdle
<1>4. RendererPart
  <2>1. RendererInv
    BY <1>2, RendererStarts
  <2>2. /\ lastRequest = 0 /\ uncounted = 0 /\ job = None /\ lastShown = None /\ answered = 0
        /\ pending = None /\ at = "wait" /\ source = None
    BY <1>2 DEF Renderer!Init
  <2>3. RendererBounded /\ AnswersHold
    BY <2>2, WindowAssumption DEF RendererBounded, AnswersHold, Rendering
  <2> QED  BY <2>1, <2>3 DEF RendererPart
<1>5. WindowPart
  <2>1. WindowInv
    BY <1>1, WindowStarts
  <2>2. /\ lastDecode = 0 /\ opened = 0 /\ decodeRequest = 0 /\ redecode = None /\ image = None
        /\ ~provisional
    BY <1>2 DEF WindowIdle, Loader!Init
  <2>3. WindowBounded
    BY <2>2, WindowAssumption DEF WindowBounded
  <2> QED  BY <1>4, <2>1, <2>3 DEF WindowPart, RendererPart
<1>6. PanelPart
  <2>1. PanelInv
    BY <1>1, PanelStarts
  <2>2. /\ lastSerial = 0 /\ generation = 0 /\ pictures = 0 /\ next = None /\ counting = None
        /\ posted = <<>> /\ picture = None /\ lastMeasured = None /\ shown = None
    BY <1>1 DEF Panel!Init, Panel!Counter!Init
  <2>3. Len(posted) = 0 /\ 1 .. 0 = {}
    BY <2>2
  <2>4. PanelBounded
    BY <2>2, <2>3, BoundsAssumption DEF PanelBounded
  <2> QED  BY <2>1, <2>4 DEF PanelPart
<1>7. ExportsPart
  <2>1. ExportsInv
    BY <1>1, ExportsStart
  <2>2. lastId = 0 /\ closeWhenIdle = FALSE /\ boxes = <<>>
    BY <1>1 DEF Queue!Init
  <2>3. closeWhenIdle \in BOOLEAN
    BY Zenon, <2>2
  <2>4. boxes \in Seq({"running", "failed"})
    BY <2>2
  <2> QED  BY <2>1, <2>2, <2>3, <2>4, BoundsAssumption DEF ExportsPart, ExportsBounded
<1> QED  BY <1>1, <1>2, <1>3, <1>4, <1>5, <1>6, <1>7 DEF MCInv

(* A worker without a step has nothing new to answer. *)
LEMMA WorkersRest ==
    /\ UNCHANGED loader => UNCHANGED Loader!Newest!vars
    /\ UNCHANGED renderer => UNCHANGED Renderer!Newest!vars
    /\ UNCHANGED panelVars => UNCHANGED Panel!Counter!Newest!vars
<1>1. UNCHANGED loader => UNCHANGED Loader!Newest!vars
  BY Zenon DEF loader, Loader!Newest!vars
<1>2. UNCHANGED renderer => UNCHANGED Renderer!Newest!vars
  BY Zenon DEF renderer, Renderer!Newest!vars, Renderer!StillOwed
<1>3. UNCHANGED panelVars => UNCHANGED Panel!Counter!Newest!vars
  BY Zenon DEF panelVars, Panel!Counter!Newest!vars
<1> QED  BY <1>1, <1>2, <1>3

(* The parts that do not run stay as they began. *)
LEMMA PartsRest ==
    /\ UNCHANGED <<loader, window>> /\ WindowIdle => WindowIdle'
    /\ UNCHANGED panelVars /\ PanelIdle => PanelIdle'
    /\ UNCHANGED queueVars /\ ExportsIdle => ExportsIdle'
    /\ UNCHANGED renderer /\ Renderer!Init => Renderer!Init'
<1>1. UNCHANGED <<loader, window>> /\ WindowIdle => WindowIdle'
  BY Zenon DEF WindowIdle, Loader!Init, loader, window, document, decoding, view
<1>2. UNCHANGED panelVars /\ PanelIdle => PanelIdle'
  BY Zenon DEF PanelIdle, Panel!Counter!Init, panelVars
<1>3. UNCHANGED queueVars /\ ExportsIdle => ExportsIdle'
  BY Zenon DEF ExportsIdle, queueVars
<1>4. UNCHANGED renderer /\ Renderer!Init => Renderer!Init'
  BY Zenon DEF Renderer!Init, Renderer!NoBackground, renderer
<1> QED  BY <1>1, <1>2, <1>3, <1>4

(* What the three workers may do in a step, and what they promise at the start. *)
WorkersStep ==
    /\ [Loader!Newest!Next]_(Loader!Newest!vars)
    /\ [Renderer!Newest!Next]_(Renderer!Newest!vars)
    /\ [Panel!Counter!Newest!Next]_(Panel!Counter!Newest!vars)

(* Every step is of the part that runs. *)
LEMMA PartsNext ==
    ASSUME MCInv, [MCNext]_MCvars
    PROVE  MCInv' /\ WorkersStep
<1>1. CASE InWindow(Next)
  <2>1. part = "window" /\ part' = part /\ Next /\ UNCHANGED panelVars /\ UNCHANGED queueVars
    BY <1>1 DEF InWindow
  <2>2. WindowPart /\ PanelIdle /\ ExportsIdle
    BY <2>1 DEF MCInv
  <2>3. WindowInv' /\ WindowBounded'
    BY <2>1, <2>2, WindowNext, WindowStaysBounded DEF WindowPart
  <2>4. /\ RendererBounded' /\ AnswersHold'
        /\ [Renderer!Newest!Next]_(Renderer!Newest!vars)
    BY <2>1, <2>2, RendererOfStep, RendererServes DEF WindowPart, WindowInv
  <2>5. [Loader!Newest!Next]_(Loader!Newest!vars)
    BY <2>1, <2>2, LaneOfStep, LoaderServes DEF WindowPart, WindowInv, WindowTyped, LaneTyped
  <2>6. WindowPart' /\ PanelIdle' /\ ExportsIdle'
    BY <2>1, <2>2, <2>3, <2>4, PartsRest DEF WindowPart
  <2> QED  BY <2>1, <2>4, <2>5, <2>6, WorkersRest DEF MCInv, WorkersStep
<1>2. CASE InRenderer(Alone!Next)
  <2>1. /\ part = "renderer" /\ part' = part /\ Alone!Next
        /\ UNCHANGED loader /\ UNCHANGED window /\ UNCHANGED panelVars /\ UNCHANGED queueVars
    BY <1>2 DEF InRenderer
  <2>2. RendererPart /\ WindowIdle /\ PanelIdle /\ ExportsIdle
    BY <2>1 DEF MCInv
  <2>3. Renderer!Next
    BY <2>1, <2>2, AloneIsRenderer DEF RendererPart, RendererInv, RendererTyped
  <2>4. RendererInv'
    BY <2>2, <2>3, RendererNext DEF RendererPart
  <2>5. /\ RendererBounded' /\ AnswersHold'
        /\ [Renderer!Newest!Next]_(Renderer!Newest!vars)
    BY <2>2, <2>3, RendererOfCalls, RendererServes DEF RendererPart
  <2>6. RendererPart' /\ WindowIdle' /\ PanelIdle' /\ ExportsIdle'
    BY <2>1, <2>2, <2>4, <2>5, PartsRest DEF RendererPart
  <2> QED  BY <2>1, <2>5, <2>6, WorkersRest DEF MCInv, WorkersStep
<1>3. CASE InPanel(Panel!Next)
  <2>1. /\ part = "panel" /\ part' = part /\ Panel!Next
        /\ UNCHANGED loader /\ UNCHANGED renderer /\ UNCHANGED window /\ UNCHANGED queueVars
    BY <1>3 DEF InPanel
  <2>2. PanelPart /\ WindowIdle /\ Renderer!Init /\ ExportsIdle
    BY <2>1 DEF MCInv
  <2>3. /\ PanelInv' /\ PanelBounded'
        /\ [Panel!Counter!Newest!Next]_(Panel!Counter!Newest!vars)
    BY <2>1, <2>2, PanelNext, CounterServes DEF PanelPart
  <2>4. PanelPart' /\ WindowIdle' /\ Renderer!Init' /\ ExportsIdle'
    BY <2>1, <2>2, <2>3, PartsRest DEF PanelPart
  <2> QED  BY <2>1, <2>3, <2>4, WorkersRest DEF MCInv, WorkersStep
<1>4. CASE InExports(Queue!Next)
  <2>1. /\ part = "exports" /\ part' = part /\ Queue!Next
        /\ UNCHANGED loader /\ UNCHANGED renderer /\ UNCHANGED window /\ UNCHANGED panelVars
    BY <1>4 DEF InExports
  <2>2. ExportsPart /\ WindowIdle /\ Renderer!Init /\ PanelIdle
    BY <2>1 DEF MCInv
  <2>3. ExportsInv' /\ ExportsBounded'
    BY <2>1, <2>2, ExportsNext, ExportsStayBounded DEF ExportsPart
  <2>4. ExportsPart' /\ WindowIdle' /\ Renderer!Init' /\ PanelIdle'
    BY <2>1, <2>2, <2>3, PartsRest DEF ExportsPart
  <2> QED  BY <2>1, <2>4, WorkersRest DEF MCInv, WorkersStep
<1>5. CASE UNCHANGED MCvars
  <2>1. /\ part' = part /\ posted' = posted
        /\ UNCHANGED loader /\ UNCHANGED renderer /\ UNCHANGED window /\ UNCHANGED panelVars
        /\ UNCHANGED queueVars
    BY <1>5 DEF MCvars
  <2>2. UNCHANGED vars /\ UNCHANGED Panel!vars /\ UNCHANGED Queue!vars
    BY Zenon, <2>1 DEF vars, Panel!vars, Panel!counter, Panel!panel, panelVars, Queue!vars,
                       Queue!exports, Queue!closing, queueVars
  <2>3. CASE part = "window"
    <3>1. WindowPart /\ PanelIdle /\ ExportsIdle
      BY <2>3 DEF MCInv
    <3>2. /\ WindowInv' /\ WindowBounded' /\ RendererBounded' /\ AnswersHold'
      BY <2>2, <3>1, WindowNext, WindowStaysBounded, RendererOfStep, RendererServes
         DEF WindowPart, WindowInv
    <3>3. WindowPart' /\ PanelIdle' /\ ExportsIdle'
      BY <2>1, <3>1, <3>2, PartsRest DEF WindowPart
    <3> QED  BY <2>1, <2>3, <3>3, WorkersRest DEF MCInv, WorkersStep
  <2>4. CASE part = "renderer"
    <3>1. RendererPart /\ WindowIdle /\ PanelIdle /\ ExportsIdle
      BY <2>4 DEF MCInv
    <3>2. UNCHANGED Renderer!vars /\ UNCHANGED Renderer!unposted
      BY Zenon, <2>1 DEF renderer, Renderer!vars, Renderer!unposted, Renderer!shared, Renderer!kept
    <3>3. RendererInv' /\ RendererBounded' /\ AnswersHold'
      BY <3>1, <3>2, RendererNext, RendererServes DEF RendererPart, RendererMoves
    <3>4. RendererPart' /\ WindowIdle' /\ PanelIdle' /\ ExportsIdle'
      BY <2>1, <3>1, <3>3, PartsRest DEF RendererPart
    <3> QED  BY <2>1, <2>4, <3>4, WorkersRest DEF MCInv, WorkersStep
  <2>5. CASE part = "panel"
    <3>1. PanelPart /\ WindowIdle /\ Renderer!Init /\ ExportsIdle
      BY <2>5 DEF MCInv
    <3>2. PanelPart' /\ WindowIdle' /\ Renderer!Init' /\ ExportsIdle'
      BY <2>1, <2>2, <3>1, PanelNext, CounterServes, PartsRest DEF PanelPart
    <3> QED  BY <2>1, <2>5, <3>2, WorkersRest DEF MCInv, WorkersStep
  <2>6. CASE part = "exports"
    <3>1. ExportsPart /\ WindowIdle /\ Renderer!Init /\ PanelIdle
      BY <2>6 DEF MCInv
    <3>2. ExportsPart' /\ WindowIdle' /\ Renderer!Init' /\ PanelIdle'
      BY <2>1, <2>2, <3>1, ExportsNext, ExportsStayBounded, PartsRest DEF ExportsPart
    <3> QED  BY <2>1, <2>6, <3>2, WorkersRest DEF MCInv, WorkersStep
  <2> QED  BY <2>3, <2>4, <2>5, <2>6 DEF MCInv
<1>6. InWindow(Next) \/ InRenderer(Alone!Next) \/ InPanel(Panel!Next) \/ InExports(Queue!Next)
      \/ UNCHANGED MCvars
  BY DEF MCNext
<1> QED  BY <1>1, <1>2, <1>3, <1>4, <1>5, <1>6

LEMMA PartsHold == MCSpec => []MCInv
BY PartsStart, PartsNext, PTL DEF MCSpec

(* The loader's decode lane, the renderer and the histogram's counter keep what a worker promises
   that serves only the newest request (see NewestRequest): answers come in the order of the
   requests, and what is owed goes only by its answer, a newer request, or a reason to withdraw
   it.  That no request is owed for ever is checked on the small instance. *)
THEOREM WorkersServeInOrder ==
    MCSpec => /\ Loader!Newest!AnswersRise
              /\ Renderer!Newest!AnswersRise
              /\ Panel!Counter!Newest!AnswersRise
<1>1. MCInit => /\ Loader!Newest!Init
                /\ Renderer!Newest!Init
                /\ Panel!Counter!Newest!Init
  <2> SUFFICES ASSUME MCInit
               PROVE  Loader!Newest!Init /\ Renderer!Newest!Init /\ Panel!Counter!Newest!Init
    OBVIOUS
  <2>1. Loader!Init /\ Renderer!Init /\ Panel!Counter!Init
    BY DEF MCInit, Init, Panel!Init
  <2>2. Loader!Newest!Init
    BY <2>1 DEF Loader!Init, Loader!Newest!Init
  <2>3. Renderer!Newest!Init
    BY <2>1 DEF Renderer!Init, Renderer!Newest!Init, Renderer!StillOwed
  <2>4. Panel!Counter!Newest!Init
    BY <2>1 DEF Panel!Counter!Init, Panel!Counter!Newest!Init
  <2> QED  BY <2>2, <2>3, <2>4
<1>2. MCInv /\ [MCNext]_MCvars => [Loader!Newest!Next]_(Loader!Newest!vars)
  BY PartsNext DEF WorkersStep
<1>3. MCInv /\ [MCNext]_MCvars => [Renderer!Newest!Next]_(Renderer!Newest!vars)
  BY PartsNext DEF WorkersStep
<1>4. MCInv /\ [MCNext]_MCvars => [Panel!Counter!Newest!Next]_(Panel!Counter!Newest!vars)
  BY PartsNext DEF WorkersStep
<1>5. MCSpec => Loader!Newest!AnswersRise
  BY <1>1, <1>2, PartsHold, PTL DEF MCSpec, Loader!Newest!AnswersRise
<1>6. MCSpec => Renderer!Newest!AnswersRise
  BY <1>1, <1>3, PartsHold, PTL DEF MCSpec, Renderer!Newest!AnswersRise
<1>7. MCSpec => Panel!Counter!Newest!AnswersRise
  BY <1>1, <1>4, PartsHold, PTL DEF MCSpec, Panel!Counter!Newest!AnswersRise
<1> QED  BY <1>5, <1>6, <1>7

(* The renderer's variables are typed. *)
LEMMA RendererIsTyped ==
    ASSUME RendererInv, RendererBounded, AnswersHold
    PROVE  Renderer!TypeOK
<1>1. RendererTyped /\ RequestsHold
  BY DEF RendererInv
<1>2. /\ lastRequest \in Nat /\ lastRequest \in 0 .. RequestBound
      /\ answered \in 0 .. lastRequest /\ uncounted \in 0 .. lastRequest
  BY <1>1, WindowAssumption DEF RendererTyped, RendererBounded, AnswersHold
<1>3. pending \in [id : 1 .. lastRequest, look : Looks, whole : BOOLEAN] \cup {None}
  <2>1. pending # None => pending \in Requests /\ pending.id = lastRequest /\ lastRequest >= 1
    BY <1>1, <1>2 DEF RendererTyped, RequestsHold, AnswersHold
  <2>2. ASSUME pending # None
        PROVE  pending \in [id : 1 .. lastRequest, look : Looks, whole : BOOLEAN]
    <3>1. pending.id \in 1 .. lastRequest
      BY <1>2, <2>1, <2>2
    <3> QED  BY <2>1, <2>2, <3>1 DEF Requests
  <2> QED  BY <2>2
<1>4. ASSUME NEW of \in Jobs, of.id >= 1, of.id <= lastRequest
      PROVE  of \in [id : 1 .. lastRequest, look : Looks, whole : BOOLEAN, source : Loader!Decodes]
  <2>1. of.id \in 1 .. lastRequest
    BY <1>2, <1>4 DEF Jobs
  <2> QED  BY <2>1 DEF Jobs
<1>5. {job, lastShown} \subseteq
          [id : 1 .. lastRequest, look : Looks, whole : BOOLEAN, source : Loader!Decodes] \cup {None}
  BY <1>1, <1>4 DEF RendererTyped, RequestsHold, RendererBounded
<1>6. {sourceChanged, cancelsShown, wanted, recount} \subseteq BOOLEAN
  <2>1. /\ sourceChanged \in BOOLEAN /\ cancelsShown \in BOOLEAN
        /\ wanted \in BOOLEAN /\ recount \in BOOLEAN
    BY Zenon, <1>1 DEF RendererTyped
  <2> QED  BY <2>1
<1>7. /\ source \in Loader!Decodes \cup {None}
      /\ channel \in [shown : BOOLEAN, cancelled : BOOLEAN] \cup {None}
      /\ stopping \in {"no", "requested", "cancelled"}
      /\ at \in {"wait", "start", "render", "standIn", "level0", "pause", "fallback",
              "renderFallback", "check", "startCount", "count", "ended"}
      /\ {background, counted} \subseteq [source : Loader!Decodes, look : Looks] \cup {None}
      /\ backgroundFor \in [source : Loader!Decodes \cup {None}, look : Looks \cup {None}]
  BY <1>1 DEF RendererTyped, Channels, Images
<1> QED  BY <1>2, <1>3, <1>5, <1>6, <1>7 DEF Renderer!TypeOK

(* The window's and its loader's are. *)
LEMMA WindowIsTyped ==
    ASSUME WindowInv, WindowBounded, Renderer!TypeOK
    PROVE  TypeOK
<1>1. WindowTyped /\ LaneHolds /\ DocumentHolds
  BY DEF WindowInv
<1>2. /\ lastDecode \in Nat /\ delivered \in Nat /\ dropped \in Nat /\ opened \in Nat
      /\ lastRequest \in Nat /\ decodeRequest \in Nat /\ firstRequest \in Nat /\ latestShown \in Nat
  BY <1>1 DEF WindowTyped, WindowInv, RendererInv, RendererTyped
<1>3. Loader!TypeOK
  BY <1>1, <1>2, WindowAssumption DEF Loader!TypeOK, WindowTyped, LaneHolds, WindowBounded, Flights
<1>4. /\ opened \in 0 .. DocumentBound
      /\ decodeRequest \in 0 .. lastDecode
      /\ firstRequest \in 0 .. lastRequest + 1
      /\ latestShown \in 0 .. lastRequest
  BY <1>1, <1>2, WindowAssumption DEF WindowTyped, WindowBounded
<1>5. redecode \in [id : 1 .. lastDecode, options : Options] \cup {None}
  BY <1>1, <1>2 DEF WindowTyped, WindowBounded, Redecodes
<1>6. image \in [id : 1 .. lastRequest, whole : BOOLEAN, source : Loader!Decodes, look : Looks]
                \cup {None}
  BY <1>1, <1>2 DEF WindowTyped, WindowBounded, Shown
<1>7. {zoomed, provisional, busy, reporting, landing} \subseteq BOOLEAN
  <2>1. /\ zoomed \in BOOLEAN /\ provisional \in BOOLEAN /\ busy \in BOOLEAN
        /\ reporting \in BOOLEAN /\ landing \in BOOLEAN
    BY Zenon, <1>1 DEF WindowTyped
  <2> QED  BY <2>1
<1> QED  BY <1>1, <1>3, <1>4, <1>5, <1>6, <1>7 DEF WindowTyped, TypeOK

(* So are they before the window's first step, whatever the renderer did. *)
LEMMA IdleIsTyped ==
    ASSUME WindowIdle, Renderer!TypeOK
    PROVE  TypeOK
<1>1. /\ lastDecode = 0 /\ waiting = None /\ inFlight = None /\ delivered = 0 /\ dropped = 0
      /\ opened = 0 /\ open = 0 /\ decoded = None /\ decodeRequest = 0 /\ redecode = None
      /\ failedOptions = None /\ firstRequest = 0 /\ latestShown = 0 /\ image = None
      /\ beneath = None
  BY DEF WindowIdle, Loader!Init
<1>2. {zoomed, provisional, busy, reporting, landing} \subseteq BOOLEAN
  BY DEF WindowIdle
<1>3. lastRequest \in Nat
  BY DEF Renderer!TypeOK
<1>4. Loader!TypeOK
  BY <1>1, WindowAssumption DEF Loader!TypeOK
<1>5. opened \in 0 .. DocumentBound /\ firstRequest \in 0 .. lastRequest + 1 /\ latestShown \in 0 .. lastRequest
  BY <1>1, <1>3, WindowAssumption
<1> QED  BY <1>1, <1>2, <1>4, <1>5 DEF TypeOK

(* The panel's and the counter's are. *)
LEMMA PanelIsTyped ==
    ASSUME PanelInv, PanelBounded
    PROVE  Panel!TypeOK
<1>1. PanelTyped /\ CountsHold /\ ShownHolds /\ MeasuredHolds
  BY DEF PanelInv
<1>2. /\ lastSerial \in Nat /\ generation \in Nat /\ finished \in Nat /\ shownSerial \in Nat
      /\ pictures \in Nat /\ None \notin Nat
      /\ SubmitBound \in Nat /\ ClearBound \in Nat /\ PictureBound \in Nat
  BY <1>1, BoundsAssumption DEF PanelTyped
<1>3. ASSUME NEW count \in Counts, WellNumbered(count), WasSubmitted(count)
      PROVE  count \in Panel!Jobs
  <2>1. /\ count.serial \in 1 .. lastSerial /\ count.generation \in 0 .. ClearBound
        /\ count.picture \in 1 .. PictureBound
    BY <1>2, <1>3 DEF WellNumbered, WasSubmitted, Counts, PanelBounded
  <2> QED  BY <2>1 DEF Counts, Panel!Jobs
<1>4. {next, counting} \subseteq Panel!Jobs \cup {None}
  BY <1>1, <1>3 DEF PanelTyped, CountsHold, PanelBounded
<1>5. /\ lastSerial \in 0 .. SubmitBound /\ generation \in 0 .. ClearBound
      /\ {finished, shownSerial} \subseteq 0 .. lastSerial
      /\ pictures \in 0 .. PictureBound
  BY <1>1, <1>2 DEF PanelBounded, CountsHold, MeasuredHolds
<1>6. {picture, lastMeasured} \subseteq 1 .. PictureBound \cup {None}
  <2>1. /\ picture # None => picture \in Nat /\ picture >= 1 /\ picture <= pictures
        /\ lastMeasured # None => lastMeasured \in Nat /\ lastMeasured >= 1 /\ lastMeasured <= pictures
    BY <1>1 DEF PanelTyped, PanelBounded
  <2>2. /\ picture # None => picture \in 1 .. PictureBound
        /\ lastMeasured # None => lastMeasured \in 1 .. PictureBound
    BY <1>2, <1>5, <2>1
  <2> QED  BY <2>2
<1>7. shown \in [picture : 1 .. PictureBound, codes : {"all"}] \cup {None}
  BY <1>1 DEF PanelTyped, ShownHolds, PanelBounded
<1>8. abandon \in BOOLEAN /\ inSight \in BOOLEAN
  BY Zenon, <1>1 DEF PanelTyped
<1>9. codes \in {"none", "all", "part", "failed"} /\ destroying \in {"no", "abandoned", "stopped"}
  BY <1>1 DEF PanelTyped
<1> QED  BY <1>4, <1>5, <1>6, <1>7, <1>8, <1>9 DEF Panel!TypeOK

LEMMA PanelStartsTyped ==
    ASSUME PanelIdle
    PROVE  Panel!TypeOK
<1>1. /\ next = None /\ lastSerial = 0 /\ generation = 0 /\ abandon = FALSE /\ counting = None
      /\ codes = "none" /\ destroying = "no" /\ finished = 0 /\ pictures = 0 /\ picture = None
      /\ inSight = FALSE /\ lastMeasured = None /\ shownSerial = 0 /\ shown = None
  BY DEF PanelIdle, Panel!Counter!Init
<1>2. abandon \in BOOLEAN /\ inSight \in BOOLEAN
  BY Zenon, <1>1
<1>3. 0 \in 0 .. SubmitBound /\ 0 \in 0 .. ClearBound /\ 0 \in 0 .. PictureBound
  BY BoundsAssumption
<1> QED  BY <1>1, <1>2, <1>3 DEF Panel!TypeOK

(* The export queue's are. *)
LEMMA ExportsAreTyped ==
    ASSUME ExportsInv, ExportsBounded
    PROVE  Queue!TypeOK
<1>1. ExportsInOrder /\ NamesMatch
  BY DEF ExportsInv
<1>2. /\ lastId \in Nat /\ ExportBound \in Nat /\ queue \in Seq(Nat) /\ Len(queue) \in Nat
      /\ Len(queue) <= lastId /\ running \in 0 .. lastId - Len(queue)
  BY <1>1, BoundsAssumption DEF ExportsInOrder
<1>3. queue \in Seq(1 .. lastId)
  <2>1. \A i \in 1 .. Len(queue) : queue[i] \in 1 .. lastId
    BY <1>1, <1>2 DEF ExportsInOrder
  <2> QED  BY <1>2, <2>1
<1>4. running \in 0 .. lastId /\ lastId \in 0 .. ExportBound
  BY <1>2 DEF ExportsBounded
<1>5. exportNames \subseteq 1 .. lastId
  <2>1. lastId - Len(queue) + 1 .. lastId \subseteq 1 .. lastId
    BY <1>2
  <2>2. {running} \ {0} \subseteq 1 .. lastId
    BY <1>4
  <2>3. \A i \in 1 .. Len(posted) : posted[i].id \in 1 .. lastId
    BY <1>1, <1>2 DEF ExportsInOrder
  <2> QED  BY <1>1, <2>1, <2>2, <2>3 DEF NamesMatch, ToReport
<1>6. {closeWhenIdle, closed} \subseteq BOOLEAN
  <2>1. closeWhenIdle \in BOOLEAN /\ closed \in BOOLEAN
    BY Zenon, <1>1 DEF ExportsBounded, ExportsInOrder
  <2> QED  BY <2>1
<1> QED  BY <1>3, <1>4, <1>5, <1>6 DEF Queue!TypeOK, ExportsBounded

LEMMA ExportsStartTyped ==
    ASSUME ExportsIdle
    PROVE  Queue!TypeOK
<1>1. /\ queue = <<>> /\ lastId = 0 /\ running = 0 /\ exportNames = {} /\ boxes = <<>>
  BY DEF ExportsIdle
<1>2. {closeWhenIdle, closed} \subseteq BOOLEAN
  BY DEF ExportsIdle
<1> QED  BY <1>1, <1>2, BoundsAssumption DEF Queue!TypeOK

(* Every variable of every part has its type, within the bounds. *)
THEOREM PartsAreTyped == MCSpec => []MCTypeOK
<1>1. MCInv => MCTypeOK
  <2> SUFFICES ASSUME MCInv PROVE MCTypeOK
    OBVIOUS
  <2>1. Renderer!TypeOK
    <3>1. CASE part \in {"panel", "exports"}
      <4>1. Renderer!Init
        BY <3>1 DEF MCInv
      <4>2. RendererInv
        BY <4>1, RendererStarts
      <4>3. RendererBounded /\ AnswersHold
        <5>1. /\ lastRequest = 0 /\ uncounted = 0 /\ job = None /\ lastShown = None
              /\ answered = 0 /\ pending = None /\ at = "wait" /\ source = None
          BY <4>1 DEF Renderer!Init
        <5> QED  BY <5>1, WindowAssumption DEF RendererBounded, AnswersHold, Rendering
      <4> QED  BY <4>2, <4>3, RendererIsTyped
    <3>2. CASE part \in {"window", "renderer"}
      BY <3>2, RendererIsTyped DEF MCInv, WindowPart, RendererPart, WindowInv
    <3> QED  BY <3>1, <3>2 DEF MCInv
  <2>2. TypeOK
    BY <2>1, WindowIsTyped, IdleIsTyped DEF MCInv, WindowPart
  <2>3. Panel!TypeOK
    BY PanelIsTyped, PanelStartsTyped DEF MCInv, PanelPart
  <2>4. Queue!TypeOK
    BY ExportsAreTyped, ExportsStartTyped DEF MCInv, ExportsPart
  <2> QED  BY <2>2, <2>3, <2>4 DEF MCTypeOK
<1> QED  BY <1>1, PartsHold, PTL
=============================================================================
