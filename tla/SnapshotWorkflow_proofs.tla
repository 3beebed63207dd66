------------------------ MODULE SnapshotWorkflow_proofs ------------------------
(***************************************************************************)
(* What the window keeps whatever order edits, writes, results, dialogs    *)
(* and reports of the watcher come in: for every file, every batch size,   *)
(* any number of writes under way and of sessions opened.                  *)
(***************************************************************************)
EXTENDS SnapshotWorkflow, Snapshots_proofs

Members(s) == {s[i] : i \in 1 .. Len(s)}

Rising(s) == \A i, j \in 1 .. Len(s) : i < j => s[i].ticket < s[j].ticket

Before(S, T) == \A one \in S, other \in T : one.ticket < other.ticket

Given(S) ==
    \A write \in S : 1 <= write.ticket /\ write.ticket <= tickets /\ write.owner <= serial

(* Where each dialog leaves its handler. *)
Dialogs ==
    {NoDialog}
        \cup [op : {"create", "rename", "delete", "discard"}, id : MaybeId, serial : Nat]
        \cup [op : {"open"}, document : Contents]

Typed ==
    /\ TypeOK
    /\ Sound(file)
    /\ dialog \in Dialogs

(* The window's list, the one it read before a dialog, and the lists under way *)
(* are lists that the file has had.                                            *)
SessionHolds == Open => WellFormed(session) /\ Past(session.held, file.snapshots)

DialogHolds ==
    dialog.op = "open" =>
        Sound(dialog.document) /\ Past(dialog.document.snapshots, file.snapshots)

(* A list comes with a structural write that was not given up, and under the id *)
(* that a created snapshot was given lists the look it was made of.             *)
Bears(result, current) ==
    result.listing # Nothing =>
        /\ ~isPatch(result)
        /\ result.failure # "error"
        /\ Past(result.listing.snapshots, current)
        /\ result.failure = "none" /\ result.change.op = "create" =>
              result.listing.snapshots.entries[result.id].recipe = result.change.draft.recipe

ResultsBear == \A result \in Members(results) : Bears(result, file.snapshots)

(* Only patches are carried out together. *)
RunHolds ==
    /\ reread => run # << >> /\ ~isPatch(run[1])
    /\ run # << >> /\ ~isPatch(run[1]) => Len(run) = 1

(* What is under way was asked for in the order of its tickets. *)
InOrder ==
    /\ Rising(results) /\ Rising(run) /\ Rising(queue)
    /\ Before(Members(results), Members(run))
    /\ Before(Members(results), Members(queue))
    /\ Before(Members(run), Members(queue))
    /\ Given(Members(results)) /\ Given(Members(run)) /\ Given(Members(queue))

(* What the window does not know yet is on its way. *)
NewsComes ==
    Open /\ ~changed /\ ~early =>
        \/ session.held.revision = file.snapshots.revision
        \/ \E result \in Members(results) :
              /\ result.listing # Nothing
              /\ result.listing.snapshots.revision = file.snapshots.revision

(* That the list is past says nothing of what is on its way, so the results, the *)
(* list a dialog keeps and the order of the queue come along.                    *)
Inv ==
    /\ Typed /\ SessionHolds /\ DialogHolds /\ ResultsBear
    /\ RunHolds /\ InOrder /\ TicketIsOwed /\ NewsComes

-----------------------------------------------------------------------------
(* What sequences that are put together, taken from and mapped hold. *)
LEMMA MembersOf ==
    ASSUME NEW S, NEW s \in Seq(S)
    PROVE  /\ Members(s) \subseteq S
           /\ \A i \in 1 .. Len(s) : s[i] \in Members(s)
           /\ s # << >> => s[1] \in Members(s)
           /\ s = << >> => Members(s) = {}
           /\ Members(s) = {} => s = << >>
<1>1. Len(s) \in Nat /\ (s # << >> => Len(s) # 0) /\ (s = << >> => Len(s) = 0)
  BY LenProperties, EmptySeq
<1>2. \A i \in 1 .. Len(s) : s[i] \in S
  BY ElementOfSeq
<1>3. s # << >> => 1 \in 1 .. Len(s)
  BY <1>1
<1>4. s = << >> => 1 .. Len(s) = {}
  BY <1>1
<1> QED  BY <1>1, <1>2, <1>3, <1>4 DEF Members

(* Two sequences put together have the members of both. *)
LEMMA MembersOfConcat ==
    ASSUME NEW S, NEW s \in Seq(S), NEW t \in Seq(S)
    PROVE  /\ s \o t \in Seq(S)
           /\ Members(s \o t) = Members(s) \cup Members(t)
<1> DEFINE u == s \o t
<1>1. Len(s) \in Nat /\ Len(t) \in Nat
  BY LenProperties
<1>2. /\ u \in Seq(S)
      /\ Len(u) = Len(s) + Len(t)
      /\ \A i \in 1 .. Len(s) + Len(t) : u[i] = IF i <= Len(s) THEN s[i] ELSE t[i - Len(s)]
  BY ConcatProperties
<1> HIDE DEF u
<1>3. ASSUME NEW e \in Members(u)
      PROVE  e \in Members(s) \cup Members(t)
  <2>1. PICK i \in 1 .. Len(u) : e = u[i]
    BY DEF Members
  <2>2. CASE i <= Len(s)
    BY <1>1, <1>2, <2>1, <2>2 DEF Members
  <2>3. CASE ~(i <= Len(s))
    <3>1. i - Len(s) \in 1 .. Len(t) /\ e = t[i - Len(s)]
      BY <1>1, <1>2, <2>1, <2>3
    <3> QED  BY <3>1 DEF Members
  <2> QED  BY <2>2, <2>3
<1>4. ASSUME NEW e \in Members(s)
      PROVE  e \in Members(u)
  <2>1. PICK i \in 1 .. Len(s) : e = s[i]
    BY DEF Members
  <2>2. i \in 1 .. Len(u) /\ e = u[i]
    BY <1>1, <1>2, <2>1
  <2> QED  BY <2>2 DEF Members
<1>5. ASSUME NEW e \in Members(t)
      PROVE  e \in Members(u)
  <2>1. PICK i \in 1 .. Len(t) : e = t[i]
    BY DEF Members
  <2> DEFINE j == i + Len(s)
  <2>2. j \in 1 .. Len(u) /\ ~(j <= Len(s)) /\ j - Len(s) = i
    BY <1>1, <1>2
  <2>3. e = u[j]
    BY <1>2, <2>1, <2>2
  <2> QED  BY <2>2, <2>3 DEF Members
<1> QED  BY <1>2, <1>3, <1>4, <1>5 DEF u

(* They rise when each does and the second is later than the first. *)
LEMMA RisingConcat ==
    ASSUME NEW S, NEW s \in Seq(S), NEW t \in Seq(S),
           Rising(s), Rising(t), Before(Members(s), Members(t))
    PROVE  Rising(s \o t)
<1> DEFINE u == s \o t
<1>1. Len(s) \in Nat /\ Len(t) \in Nat
  BY LenProperties
<1>2. /\ Len(u) = Len(s) + Len(t)
      /\ \A i \in 1 .. Len(s) + Len(t) : u[i] = IF i <= Len(s) THEN s[i] ELSE t[i - Len(s)]
  BY ConcatProperties
<1> HIDE DEF u
<1> SUFFICES ASSUME NEW i \in 1 .. Len(u), NEW j \in 1 .. Len(u), i < j
             PROVE  u[i].ticket < u[j].ticket
  BY DEF Rising, u
<1>3. CASE j <= Len(s)
  <2>1. i \in 1 .. Len(s) /\ j \in 1 .. Len(s) /\ u[i] = s[i] /\ u[j] = s[j]
    BY <1>1, <1>2, <1>3
  <2> QED  BY <2>1 DEF Rising
<1>4. CASE ~(j <= Len(s)) /\ i <= Len(s)
  <2>1. i \in 1 .. Len(s) /\ j - Len(s) \in 1 .. Len(t) /\ u[i] = s[i] /\ u[j] = t[j - Len(s)]
    BY <1>1, <1>2, <1>4
  <2>2. s[i] \in Members(s) /\ t[j - Len(s)] \in Members(t)
    BY <2>1, MembersOf
  <2> QED  BY <2>1, <2>2 DEF Before
<1>5. CASE ~(i <= Len(s))
  <2>1. /\ i - Len(s) \in 1 .. Len(t) /\ j - Len(s) \in 1 .. Len(t)
        /\ i - Len(s) < j - Len(s)
        /\ u[i] = t[i - Len(s)] /\ u[j] = t[j - Len(s)]
    BY <1>1, <1>2, <1>5
  <2> QED  BY <2>1 DEF Rising
<1> QED  BY <1>3, <1>4, <1>5

(* A part of a sequence has the members between its ends, in their order. *)
LEMMA MembersOfPart ==
    ASSUME NEW S, NEW s \in Seq(S), NEW m \in Nat \ {0}, NEW n \in Nat, n <= Len(s)
    PROVE  LET part == SubSeq(s, m, n)
           IN  /\ part \in Seq(S)
               /\ Len(part) = IF m <= n THEN n - m + 1 ELSE 0
               /\ Members(part) = {s[i] : i \in m .. n}
               /\ \A i \in 1 .. n - m + 1 : part[i] = s[m + i - 1]
               /\ Rising(s) => Rising(part)
<1> DEFINE part == SubSeq(s, m, n)
<1>1. Len(s) \in Nat
  BY LenProperties
<1>2. \A i \in m .. n : s[i] \in S
  <2>1. \A i \in m .. n : i \in 1 .. Len(s)
    BY <1>1
  <2> QED  BY <2>1, ElementOfSeq
<1>3. /\ part \in Seq(S)
      /\ Len(part) = IF m <= n THEN n - m + 1 ELSE 0
      /\ \A i \in 1 .. n - m + 1 : part[i] = s[m + i - 1]
  BY <1>2, SubSeqProperties
<1> HIDE DEF part
<1>4. \A i \in 1 .. Len(part) : m + i - 1 \in m .. n /\ part[i] = s[m + i - 1]
  BY <1>3
<1>5. ASSUME NEW i \in m .. n
      PROVE  s[i] \in Members(part)
  <2> DEFINE j == i - m + 1
  <2>1. j \in 1 .. Len(part) /\ m + j - 1 = i
    BY <1>3
  <2>2. part[j] = s[i]
    BY <1>4, <2>1
  <2> QED  BY <2>1, <2>2 DEF Members
<1>6. Members(part) = {s[i] : i \in m .. n}
  BY <1>4, <1>5 DEF Members
<1>7. ASSUME Rising(s)
      PROVE  Rising(part)
  <2> SUFFICES ASSUME NEW i \in 1 .. Len(part), NEW j \in 1 .. Len(part), i < j
               PROVE  part[i].ticket < part[j].ticket
    BY DEF Rising
  <2> DEFINE a == m + i - 1
             b == m + j - 1
  <2>1. a \in 1 .. Len(s) /\ b \in 1 .. Len(s) /\ a < b
    BY <1>1, <1>3
  <2>2. part[i] = s[a] /\ part[j] = s[b]
    BY <1>4
  <2> HIDE DEF a, b
  <2> QED  BY <1>7, <2>1, <2>2 DEF Rising
<1> QED  BY <1>3, <1>6, <1>7 DEF part

(* The head of a rising sequence is earlier than all of its tail. *)
LEMMA MembersOfTail ==
    ASSUME NEW S, NEW s \in Seq(S), s # << >>, Rising(s),
           \A e \in S : e.ticket \in Nat
    PROVE  /\ Head(s) \in S /\ Tail(s) \in Seq(S)
           /\ Members(s) = {Head(s)} \cup Members(Tail(s))
           /\ \A e \in Members(Tail(s)) : Head(s).ticket < e.ticket
           /\ Rising(Tail(s))
<1> DEFINE t == Tail(s)
<1>1. Len(s) \in Nat /\ Len(s) # 0
  BY LenProperties, EmptySeq
<1>2. /\ Head(s) \in S
      /\ t \in Seq(S)
      /\ Len(t) = Len(s) - 1
      /\ \A i \in 1 .. Len(t) : t[i] = s[i + 1]
  BY HeadTailProperties
<1>3. Head(s) = s[1]
  OBVIOUS
<1> HIDE DEF t
<1>4. \A i \in 1 .. Len(t) : i + 1 \in 1 .. Len(s) /\ 1 < i + 1
  BY <1>1, <1>2
<1>5. 1 \in 1 .. Len(s)
  BY <1>1
<1>6. ASSUME NEW e \in Members(s)
      PROVE  e \in {Head(s)} \cup Members(t)
  <2>1. PICK i \in 1 .. Len(s) : e = s[i]
    BY DEF Members
  <2>2. CASE i = 1
    BY <1>3, <2>1, <2>2
  <2>3. CASE i # 1
    <3> DEFINE j == i - 1
    <3>1. j \in 1 .. Len(t) /\ j + 1 = i
      BY <1>1, <1>2, <2>3
    <3>2. e = t[j]
      BY <1>2, <2>1, <3>1
    <3> QED  BY <3>1, <3>2 DEF Members
  <2> QED  BY <2>2, <2>3
<1>7. Members(t) \subseteq Members(s) /\ Head(s) \in Members(s)
  BY <1>2, <1>3, <1>4, <1>5 DEF Members
<1>8. \A e \in Members(t) : Head(s).ticket < e.ticket
  BY <1>2, <1>3, <1>4, <1>5 DEF Members, Rising
<1>9. Rising(t)
  <2> SUFFICES ASSUME NEW i \in 1 .. Len(t), NEW j \in 1 .. Len(t), i < j
               PROVE  t[i].ticket < t[j].ticket
    BY DEF Rising
  <2>1. i + 1 \in 1 .. Len(s) /\ j + 1 \in 1 .. Len(s) /\ i + 1 < j + 1
    BY <1>4
  <2>2. s[i + 1].ticket < s[j + 1].ticket
    BY <2>1 DEF Rising
  <2> QED  BY <1>2, <2>2
<1> QED  BY <1>2, <1>6, <1>7, <1>8, <1>9 DEF t

(* The recursion of Undropped, for the first n of the queue. *)
KeptOf(K, m) ==
    IF m = 0 THEN << >>
    ELSE IF Dropped(queue[m]) THEN K[m - 1] ELSE Append(K[m - 1], queue[m])

IsKept(n, K) == K = [m \in 0 .. n |-> KeptOf(K, m)]

(* The recursion has a solution. *)
LEMMA KeptExists ==
    ASSUME NEW n \in Nat
    PROVE  \E K : IsKept(n, K)
<1> DEFINE P == {m \in Nat : \E K : IsKept(m, K)}
<1>1. 0 \in P
  <2> DEFINE K == [m \in 0 .. 0 |-> << >>]
  <2>1. K = [m \in 0 .. 0 |-> KeptOf(K, m)]
    BY DEF KeptOf
  <2> QED  BY <2>1 DEF IsKept
<1>2. ASSUME NEW m \in P
      PROVE  m + 1 \in P
  <2>1. PICK K : IsKept(m, K)
    OBVIOUS
  <2> DEFINE G == [k \in 0 .. m + 1 |-> IF k <= m THEN K[k] ELSE KeptOf(K, m + 1)]
  <2>2. \A k \in 0 .. m : G[k] = K[k] /\ K[k] = KeptOf(K, k)
    BY <2>1 DEF IsKept
  <2>3. G[m + 1] = KeptOf(K, m + 1) /\ G = [k \in 0 .. m + 1 |-> G[k]]
    OBVIOUS
  <2> HIDE DEF G
  <2>4. \A k \in 0 .. m + 1 : KeptOf(G, k) = KeptOf(K, k)
    <3> SUFFICES ASSUME NEW k \in 0 .. m + 1
                 PROVE  KeptOf(G, k) = KeptOf(K, k)
      OBVIOUS
    <3>1. k # 0 => k - 1 \in 0 .. m
      OBVIOUS
    <3>2. k # 0 => G[k - 1] = K[k - 1]
      BY <3>1, <2>2
    <3> QED  BY <3>2 DEF KeptOf
  <2>5. \A k \in 0 .. m + 1 : G[k] = KeptOf(G, k)
    <3> SUFFICES ASSUME NEW k \in 0 .. m + 1
                 PROVE  G[k] = KeptOf(K, k)
      BY <2>4
    <3>1. k \in 0 .. m \/ k = m + 1
      OBVIOUS
    <3> QED  BY <3>1, <2>2, <2>3
  <2>6. IsKept(m + 1, G)
    BY <2>3, <2>5 DEF IsKept
  <2> QED  BY <2>6
<1>3. P = Nat
  <2> HIDE DEF P
  <2>1. P \subseteq Nat
    BY DEF P
  <2> QED  BY <1>1, <1>2, <2>1, AllOfNat
<1> QED  BY <1>3

(* What is left of the first n of the queue. *)
Leaves(s, n) ==
    /\ s \in Seq(Request)
    /\ \A i \in 1 .. Len(s) : \E j \in 1 .. n : s[i] = queue[j]
    /\ \A j \in 1 .. n : ~Dropped(queue[j]) => \E i \in 1 .. Len(s) : s[i] = queue[j]
    /\ Rising(s)

(* One write more is dropped or kept. *)
LEMMA LeavesOne ==
    ASSUME queue \in Seq(Request), Rising(queue), NEW n \in Nat, n + 1 <= Len(queue),
           NEW s, Leaves(s, n)
    PROVE  IF Dropped(queue[n + 1]) THEN Leaves(s, n + 1)
           ELSE Leaves(Append(s, queue[n + 1]), n + 1)
<1> DEFINE e == queue[n + 1]
           t == Append(s, e)
<1>1. Len(queue) \in Nat /\ n + 1 \in 1 .. Len(queue)
  BY LenProperties
<1>2. e \in Request
  BY <1>1, ElementOfSeq
<1>3. s \in Seq(Request) /\ Len(s) \in Nat
  BY LenProperties DEF Leaves
<1>4. CASE Dropped(e)
  BY <1>4 DEF Leaves
<1>5. CASE ~Dropped(e)
  <2>1. /\ t \in Seq(Request)
        /\ Len(t) = Len(s) + 1
        /\ \A i \in 1 .. Len(s) : t[i] = s[i]
        /\ t[Len(s) + 1] = e
    BY <1>2, <1>3, AppendProperties
  <2>2. \A i \in 1 .. Len(s) : s[i].ticket < e.ticket
    <3> SUFFICES ASSUME NEW i \in 1 .. Len(s) PROVE s[i].ticket < e.ticket
      OBVIOUS
    <3>1. PICK j \in 1 .. n : s[i] = queue[j]
      BY DEF Leaves
    <3>2. j \in 1 .. Len(queue) /\ j < n + 1
      BY <1>1
    <3> QED  BY <1>1, <3>1, <3>2 DEF Rising
  <2> HIDE DEF t
  <2>3. \A i \in 1 .. Len(t) : \E j \in 1 .. n + 1 : t[i] = queue[j]
    <3> SUFFICES ASSUME NEW i \in 1 .. Len(t) PROVE \E j \in 1 .. n + 1 : t[i] = queue[j]
      OBVIOUS
    <3>1. CASE i = Len(s) + 1
      BY <2>1, <3>1
    <3>2. CASE i # Len(s) + 1
      <4>1. i \in 1 .. Len(s)
        BY <1>3, <2>1, <3>2
      <4>2. PICK j \in 1 .. n : s[i] = queue[j]
        BY <4>1 DEF Leaves
      <4>3. j \in 1 .. n + 1
        OBVIOUS
      <4> QED  BY <2>1, <4>1, <4>2, <4>3
    <3> QED  BY <3>1, <3>2
  <2>4. \A j \in 1 .. n + 1 : ~Dropped(queue[j]) => \E i \in 1 .. Len(t) : t[i] = queue[j]
    <3> SUFFICES ASSUME NEW j \in 1 .. n + 1, ~Dropped(queue[j])
                 PROVE  \E i \in 1 .. Len(t) : t[i] = queue[j]
      OBVIOUS
    <3>1. CASE j = n + 1
      <4>1. Len(s) + 1 \in 1 .. Len(t)
        BY <1>3, <2>1
      <4> QED  BY <2>1, <3>1, <4>1
    <3>2. CASE j # n + 1
      <4>1. j \in 1 .. n
        BY <3>2
      <4>2. PICK i \in 1 .. Len(s) : s[i] = queue[j]
        BY <4>1 DEF Leaves
      <4>3. i \in 1 .. Len(t)
        BY <1>3, <2>1
      <4> QED  BY <2>1, <4>2, <4>3
    <3> QED  BY <3>1, <3>2
  <2>5. Rising(t)
    <3> SUFFICES ASSUME NEW i \in 1 .. Len(t), NEW j \in 1 .. Len(t), i < j
                 PROVE  t[i].ticket < t[j].ticket
      BY DEF Rising
    <3>1. i \in 1 .. Len(s) /\ (j \in 1 .. Len(s) \/ j = Len(s) + 1)
      BY <1>3, <2>1
    <3> QED  BY <2>1, <2>2, <3>1 DEF Leaves, Rising
  <2> QED  BY <1>5, <2>1, <2>3, <2>4, <2>5 DEF Leaves, t
<1> QED  BY <1>4, <1>5

(* The queue keeps its structural writes and its order when patches are dropped. *)
LEMMA UndroppedLeaves ==
    ASSUME queue \in Seq(Request), Rising(queue)
    PROVE  Leaves(Undropped, Len(queue))
<1> DEFINE n == Len(queue)
           K == CHOOSE L : IsKept(n, L)
<1>1. n \in Nat
  BY LenProperties
<1>2. IsKept(n, K)
  BY <1>1, KeptExists
<1>3. Undropped = K[n]
  BY DEF Undropped, IsKept, KeptOf
<1> HIDE DEF K
<1>4. \A m \in 0 .. n : K[m] = KeptOf(K, m)
  BY <1>2 DEF IsKept
<1> DEFINE P == {m \in Nat : m <= n => Leaves(K[m], m)}
<1>5. 0 \in P
  <2>1. K[0] = << >>
    BY <1>1, <1>4 DEF KeptOf
  <2>2. << >> \in Seq(Request) /\ Len(<< >>) = 0
    BY EmptySeq
  <2>3. 1 .. Len(<< >>) = {} /\ 1 .. 0 = {}
    BY <2>2
  <2>4. Rising(<< >>)
    BY <2>3 DEF Rising
  <2>5. Leaves(<< >>, 0)
    BY <2>2, <2>3, <2>4 DEF Leaves
  <2> QED  BY <2>1, <2>5
<1>6. ASSUME NEW m \in P
      PROVE  m + 1 \in P
  <2> SUFFICES ASSUME m + 1 <= n PROVE Leaves(K[m + 1], m + 1)
    OBVIOUS
  <2>1. m \in Nat /\ Leaves(K[m], m)
    BY <1>1
  <2>2. m + 1 \in 0 .. n /\ m + 1 # 0 /\ m + 1 - 1 = m
    BY <1>1, <2>1
  <2>3. K[m + 1] = IF Dropped(queue[m + 1]) THEN K[m] ELSE Append(K[m], queue[m + 1])
    BY <1>4, <2>2 DEF KeptOf
  <2> QED  BY <2>1, <2>3, LeavesOne
<1>7. P = Nat
  <2> HIDE DEF P
  <2>1. P \subseteq Nat
    BY DEF P
  <2> QED  BY <1>5, <1>6, <2>1, AllOfNat
<1> QED  BY <1>1, <1>3, <1>7

(* In terms of members: every structural write is left, and nothing is new. *)
LEMMA WhatIsLeft ==
    ASSUME queue \in Seq(Request), Rising(queue)
    PROVE  /\ Undropped \in Seq(Request)
           /\ Rising(Undropped)
           /\ Members(Undropped) \subseteq Members(queue)
           /\ \A write \in Members(queue) : ~isPatch(write) => write \in Members(Undropped)
<1>1. Leaves(Undropped, Len(queue))
  BY UndroppedLeaves
<1> DEFINE s == Undropped
<1> HIDE DEF s
<1>2. Leaves(s, Len(queue))
  BY <1>1 DEF s
<1>3. Members(s) \subseteq Members(queue)
  BY <1>2 DEF Leaves, Members
<1>4. ASSUME NEW write \in Members(queue), ~isPatch(write)
      PROVE  write \in Members(s)
  <2>1. PICK j \in 1 .. Len(queue) : write = queue[j]
    BY DEF Members
  <2>2. ~Dropped(queue[j])
    BY <1>4, <2>1 DEF Dropped
  <2>3. PICK i \in 1 .. Len(s) : s[i] = queue[j]
    BY <1>2, <2>2 DEF Leaves
  <2> QED  BY <2>1, <2>3 DEF Members
<1> QED  BY <1>2, <1>3, <1>4 DEF Leaves, s

-----------------------------------------------------------------------------
(* The parts of the state, as every step finds them. *)
LEMMA ThreeParts ==
    ASSUME NEW q \in Seq(Request), NEW r \in Seq(Request), NEW d \in Seq(SnapshotWriteResult)
    PROVE  {(q \o r \o d)[i] : i \in 1 .. Len(q \o r \o d)} =
               Members(q) \cup Members(r) \cup Members(d)
<1> DEFINE S == Request \cup SnapshotWriteResult
           u == q \o r
<1>1. q \in Seq(S) /\ r \in Seq(S) /\ d \in Seq(S)
  OBVIOUS
<1> HIDE DEF S
<1>2. /\ u \in Seq(S)
      /\ Members(u) = Members(q) \cup Members(r)
  BY <1>1, MembersOfConcat
<1> HIDE DEF u
<1>3. Members(u \o d) = Members(u) \cup Members(d)
  BY <1>1, <1>2, MembersOfConcat
<1> QED  BY <1>2, <1>3 DEF Members, u

(* The types of what is under way, and its three parts. *)
LEMMA PipeParts ==
    ASSUME Typed
    PROVE  /\ queue \in Seq(Request) /\ run \in Seq(Request)
           /\ results \in Seq(SnapshotWriteResult)
           /\ \A write \in Request \cup SnapshotWriteResult :
                 write.ticket \in Nat /\ write.owner \in Nat
           /\ InFlight = Members(queue) \cup Members(run) \cup Members(results)
           /\ Members(queue) \subseteq Request /\ Members(run) \subseteq Request
           /\ Members(results) \subseteq SnapshotWriteResult
           /\ serial \in Nat /\ ticket \in Nat /\ tickets \in Nat
<1>1. /\ queue \in Seq(Request) /\ run \in Seq(Request)
      /\ results \in Seq(SnapshotWriteResult)
      /\ serial \in Nat /\ ticket \in Nat /\ tickets \in Nat
  BY DEF Typed, TypeOK
<1>2. \A write \in Request \cup SnapshotWriteResult :
         write.ticket \in Nat /\ write.owner \in Nat
  BY DEF Request, SnapshotWriteResult
<1>3. /\ Members(queue) \subseteq Request /\ Members(run) \subseteq Request
      /\ Members(results) \subseteq SnapshotWriteResult
  BY <1>1, MembersOf
<1>4. InFlight = Members(queue) \cup Members(run) \cup Members(results)
  BY <1>1, ThreeParts DEF InFlight
<1> QED  BY <1>1, <1>2, <1>3, <1>4

(* The three parts after a step. *)
LEMMA InFlightNext ==
    ASSUME queue' \in Seq(Request), run' \in Seq(Request), results' \in Seq(SnapshotWriteResult)
    PROVE  InFlight' = Members(queue') \cup Members(run') \cup Members(results')
BY ThreeParts DEF InFlight

(* What each kind of change carries. *)
LEMMA ChangeParts ==
    ASSUME NEW change \in SnapshotChange
    PROVE  /\ change.op \in {"create", "rename", "delete", "discard", "thumbnail"}
           /\ change.op = "create" => change.draft \in Snapshot
           /\ change.op = "rename" => change.id \in SnapshotId /\ change.name \in Names
           /\ change.op \in {"delete", "thumbnail"} => change.id \in SnapshotId
<1>1. CASE change \in [op : {"create"}, draft : Snapshot, position : Nat]
  BY <1>1
<1>2. CASE change \in [op : {"rename"}, id : SnapshotId, name : Names]
  BY <1>2
<1>3. CASE change \in [op : {"delete", "thumbnail"}, id : SnapshotId]
  BY <1>3
<1>4. CASE change \in [op : {"discard"}]
  BY <1>4
<1> QED  BY <1>1, <1>2, <1>3, <1>4 DEF SnapshotChange

(* What the window opens on keeps its type, whatever the dialog. *)
LEMMA DialogParts ==
    ASSUME dialog \in Dialogs
    PROVE  /\ dialog.op = "open" => dialog.document \in Contents
           /\ dialog.op \in {"create", "rename", "delete", "discard"} =>
                  dialog.id \in MaybeId /\ dialog.serial \in Nat
<1>1. CASE dialog = NoDialog
  BY <1>1 DEF NoDialog
<1>2. CASE dialog \in [op : {"create", "rename", "delete", "discard"}, id : MaybeId, serial : Nat]
  BY <1>2
<1>3. CASE dialog \in [op : {"open"}, document : Contents]
  BY <1>3
<1> QED  BY <1>1, <1>2, <1>3 DEF Dialogs

(* The types of the file and the session, and how far the session may be behind. *)
LEMMA StateParts ==
    ASSUME Inv
    PROVE  /\ file \in Contents /\ Sound(file)
           /\ file.snapshots \in Collection /\ Valid(file.snapshots)
           /\ file.snapshots.revision \in Nat
           /\ file.unreadable \in Nat /\ file.recipe \in Recipe
           /\ Past(file.snapshots, file.snapshots)
           /\ Open => /\ session \in Sessions /\ WellFormed(session)
                      /\ session.held \in Collection
                      /\ session.held.revision \in Nat
                      /\ session.held.revision <= file.snapshots.revision
                      /\ Past(session.held, file.snapshots)
                      /\ ParentsListed(session.held) /\ Acyclic(session.held)
<1>1. /\ file \in Contents /\ Sound(file)
      /\ file.snapshots \in Collection /\ Valid(file.snapshots)
      /\ file.snapshots.revision \in Nat
      /\ file.unreadable \in Nat /\ file.recipe \in Recipe
  BY DEF Inv, Typed, TypeOK, Contents, Sound, Collection
<1>2. Open => /\ session \in Sessions /\ WellFormed(session)
              /\ Past(session.held, file.snapshots)
  BY DEF Inv, SessionHolds, WellFormed, Anchorable
<1>3. Open => session.held \in Collection
  BY <1>2, SessionParts
<1>4. Open => /\ session.held.revision \in Nat
              /\ session.held.revision <= file.snapshots.revision
              /\ ParentsListed(session.held) /\ Acyclic(session.held)
  BY <1>2, <1>3 DEF Past, IsPast, Lineage, Collection
<1> QED  BY <1>1, <1>2, <1>3, <1>4, PresentIsPast

(* A session that is saved bases its look on what the file lists. *)
LEMMA SavableWell ==
    ASSUME Inv, Open
    PROVE  LET s == Savable(session)
           IN  /\ WellFormed(s) /\ ~editing(s)
               /\ s.held = session.held \/ s.held = file.snapshots
               /\ s.now.recipe \in Recipe /\ s.now.base \in MaybeId
               /\ s.now.base \in Listed(session)
               /\ CanBase(file, s.now.base)
<1> DEFINE settled == Settled(session)
           s == Savable(session)
<1>1. /\ WellFormed(session) /\ session.held \in Collection
      /\ ParentsListed(session.held) /\ Acyclic(session.held)
      /\ file.snapshots \in Collection /\ file.unreadable \in Nat
  BY StateParts
<1>2. /\ WellFormed(settled) /\ ~editing(settled)
      /\ settled.held = session.held
      /\ settled.now.base \in Listed(session)
  BY <1>1, SettledWell DEF Frame, WellFormed, Anchorable, Listed
<1>3. s = IF CanBase(file, settled.now.base) THEN settled ELSE refreshSnapshots(settled, file)
  BY DEF Savable
<1> HIDE DEF settled, s
<1>4. CASE CanBase(file, settled.now.base)
  BY <1>2, <1>3, <1>4, SessionParts DEF WellFormed, Anchorable, s
<1>5. CASE ~CanBase(file, settled.now.base)
  <2> DEFINE base == Survivor(settled.held, settled.now.base, file.snapshots)
  <2>1. /\ WellFormed(s)
        /\ s.held = file.snapshots
        /\ s.now = Moved(settled, file.snapshots, settled.now)
        /\ ~editing(s)
    BY <1>1, <1>2, <1>3, <1>5, RefreshWell
  <2>2. s.now.base = base
    <3>1. settled.now \in Point
      BY <1>2, SessionParts DEF WellFormed, Anchorable
    <3> QED  BY <2>1, <3>1 DEF Moved, Point
  <2>3. base \in (Ids(session.held) \cap Ids(file.snapshots)) \cup {NoId}
    BY <1>1, <1>2, SurvivorIsHeld DEF Listed
  <2>4. s.now.recipe \in Recipe /\ s.now.base \in MaybeId
    BY <2>1, SessionParts DEF WellFormed, Anchorable
  <2> HIDE DEF base
  <2> QED  BY <2>1, <2>2, <2>3, <2>4 DEF CanBase, Listed, s
<1> QED  BY <1>4, <1>5

(* A save keeps the file sound and its list as it is. *)
LEMMA SavedFileWell ==
    ASSUME Inv, NEW s, s.now.recipe \in Recipe, s.now.base \in MaybeId, CanBase(file, s.now.base)
    PROVE  /\ SavedFile(s) \in Contents /\ Sound(SavedFile(s))
           /\ SavedFile(s).snapshots = file.snapshots
<1>1. file \in Contents /\ Sound(file) /\ << >> \in MarkChanges
  BY StateParts, NoMarksType
<1>2. WriteActiveAndBase(file, s.now.recipe, s.now.base, << >>).snapshots = file.snapshots
  BY <1>1, ActiveAndBaseEffect
<1> QED  BY <1>1, <1>2, ActiveAndBaseSound DEF SavedFile

(* Whatever happens, the file stays sound and its list goes on from what it was. *)
FileGoesOn ==
    /\ file' \in Contents /\ Sound(file')
    /\ Later(file.snapshots, file'.snapshots)

(* A save of the session is such a write. *)
LEMMA SaveGoesOn ==
    ASSUME Inv, Open, file' = SavedFile(Savable(session))
    PROVE  FileGoesOn /\ file'.snapshots = file.snapshots
<1> DEFINE s == Savable(session)
<1>1. s.now.recipe \in Recipe /\ s.now.base \in MaybeId /\ CanBase(file, s.now.base)
  BY SavableWell
<1> HIDE DEF s
<1>2. SavedFile(s) \in Contents /\ Sound(SavedFile(s)) /\ SavedFile(s).snapshots = file.snapshots
  BY <1>1, SavedFileWell
<1>3. file' = SavedFile(s)
  BY DEF s
<1> QED  BY <1>2, <1>3, StateParts, SameIsLater DEF FileGoesOn

(* What the writer carries out is a request. *)
LEMMA WriteParts ==
    ASSUME Inv, run # << >>
    PROVE  /\ Write \in Request /\ Change \in SnapshotChange
           /\ Write.ticket \in Nat /\ Write.owner \in Nat
           /\ Write \in Members(run)
           /\ \A i \in 1 .. Len(run) : run[i] \in Request /\ run[i].change \in SnapshotChange
<1>1. run \in Seq(Request)
  BY DEF Inv, Typed, TypeOK
<1>2. \A i \in 1 .. Len(run) : run[i] \in Request
  BY <1>1, ElementOfSeq
<1>3. Write \in Members(run) /\ Members(run) \subseteq Request
  BY <1>1, MembersOf DEF Write
<1> QED  BY <1>2, <1>3 DEF Request, Write, Change

(* So is a structural write. *)
LEMMA WriteChangeGoesOn == Inv /\ WriteChange => FileGoesOn
<1> SUFFICES ASSUME Inv, WriteChange
             PROVE  FileGoesOn
  OBVIOUS
<1>1. /\ file \in Contents /\ Sound(file) /\ file.snapshots \in Collection
      /\ file.snapshots.nextId \in file.snapshots.nextId .. MaximumId
  BY StateParts, SnapshotsAssumption DEF Collection, SnapshotId
<1>2. run # << >>
  BY DEF WriteChange, Current, Running
<1>3. Change \in SnapshotChange
  BY <1>2, WriteParts
<1>4. CASE Change.op = "create"
  <2>1. Change.draft \in Snapshot /\ CanAdd(file, Change.draft) /\ file' = AddSnapshot(file, Change.draft)
    BY <1>3, <1>4, ChangeParts DEF WriteChange
  <2> QED  BY <1>1, <2>1, AddSound, AddLater DEF FileGoesOn
<1>5. CASE Change.op = "rename"
  <2>1. /\ Change.name \in Names /\ Change.id \in Ids(file.snapshots)
        /\ file' = RenameSnapshot(file, Change.id, Change.name)
    BY <1>3, <1>5, ChangeParts DEF WriteChange
  <2> QED  BY <1>1, <2>1, RenameSound, RenameLater DEF FileGoesOn
<1>6. CASE Change.op = "delete"
  <2>1. Change.id \in Ids(file.snapshots) /\ file' = DeleteSnapshot(file, Change.id)
    BY <1>6 DEF WriteChange
  <2> QED  BY <1>1, <2>1, DeleteSound, DeleteLater DEF FileGoesOn
<1>7. CASE Change.op = "discard"
  <2>1. file' = DiscardUnreadable(file, file.snapshots.nextId)
    BY <1>7 DEF WriteChange
  <2> QED  BY <1>1, <2>1, DiscardSound, DiscardLater DEF FileGoesOn
<1> QED  BY <1>4, <1>5, <1>6, <1>7 DEF WriteChange

OthersWrite == OthersAdd \/ OthersDelete \/ OthersMend \/ OthersSave

(* So is whatever others write. *)
LEMMA OthersGoOn == Inv /\ OthersWrite => FileGoesOn
<1> SUFFICES ASSUME Inv, OthersWrite
             PROVE  FileGoesOn
  OBVIOUS
<1>1. file \in Contents /\ Sound(file) /\ file.snapshots \in Collection /\ << >> \in MarkChanges
  BY StateParts, NoMarksType
<1>2. CASE OthersAdd
  <2>1. PICK draft \in Snapshot : CanAdd(file, draft) /\ file' = AddSnapshot(file, draft)
    BY <1>2 DEF OthersAdd, Foreign
  <2> QED  BY <1>1, <2>1, AddSound, AddLater DEF FileGoesOn
<1>3. CASE OthersDelete
  <2>1. PICK id \in Ids(file.snapshots) : file' = DeleteSnapshot(file, id)
    BY <1>3 DEF OthersDelete, Foreign
  <2> QED  BY <1>1, <2>1, DeleteSound, DeleteLater DEF FileGoesOn
<1>4. CASE OthersMend
  <2>1. file' = [file EXCEPT !.unreadable = 0]
    BY <1>4 DEF OthersMend, Foreign
  <2>2. /\ file' \in Contents /\ file'.snapshots = file.snapshots
        /\ file'.savedBase = file.savedBase
    BY <1>1, <2>1 DEF Contents
  <2> QED  BY <1>1, <2>2, SameIsLater DEF FileGoesOn, Sound, CanBase
<1>5. CASE OthersSave
  <2>1. PICK recipe \in Recipe, base \in MaybeId :
           CanBase(file, base) /\ file' = WriteActiveAndBase(file, recipe, base, << >>)
    BY <1>5 DEF OthersSave, Foreign
  <2>2. file'.snapshots = file.snapshots
    BY <1>1, <2>1, ActiveAndBaseEffect
  <2> QED  BY <1>1, <2>1, <2>2, ActiveAndBaseSound, SameIsLater DEF FileGoesOn
<1> QED  BY <1>2, <1>3, <1>4, <1>5 DEF OthersWrite

-----------------------------------------------------------------------------
(* What a call leaves of a session: the list does not go back, and a base that *)
(* was not listed is the look of the snapshot it names.                        *)
Carried(before, after, current) ==
    /\ WellFormed(after)
    /\ Past(after.held, current)
    /\ after.held.revision >= before.held.revision
    /\ after.now.base \notin Listed(before) =>
           after.held.entries[after.now.base].recipe = after.now.recipe

(* A call that leaves the list alone carries nothing new. *)
LEMMA SameCarries ==
    ASSUME NEW before, NEW after, NEW current, WellFormed(after),
           after.held = before.held, Past(before.held, current)
    PROVE  Carried(before, after, current)
<1>1. after.now.base \in Listed(before)
  BY DEF WellFormed, Anchorable, Listed
<1>2. before.held.revision \in Int
  BY ListNumbers DEF Past
<1> QED  BY <1>1, <1>2 DEF Carried

(* A list that is taken in moves the base to an ancestor the session had listed. *)
LEMMA AdoptCarries ==
    ASSUME NEW s, WellFormed(s), NEW news, NEW current,
           news.snapshots \in Collection, news.unreadable \in Nat,
           Past(s.held, current), Past(news.snapshots, current)
    PROVE  LET after == adoptSnapshots(s, news)
           IN  /\ Carried(s, after, current)
               /\ after.now.base \in Listed(s)
               /\ s.now.base \in Ids(news.snapshots) \cup {NoId} => after.now.base = s.now.base
               /\ after.held = s.held \/ after.held = news.snapshots
               /\ after.held.revision >= news.snapshots.revision
<1> DEFINE fresh == news.snapshots
           after == adoptSnapshots(s, news)
<1>1. /\ s.held \in Collection
      /\ s.held.revision \in Nat /\ fresh.revision \in Nat
      /\ ParentsListed(s.held) /\ Acyclic(s.held)
      /\ s.now \in Point /\ s.now.base \in Listed(s)
  BY SessionParts DEF Past, Lineage, Collection, WellFormed, Anchorable
<1>2. /\ WellFormed(after)
      /\ after.held = IF fresh.revision < s.held.revision THEN s.held ELSE fresh
  BY AdoptSnapshotsWell
<1>3. /\ after.now.base \in Listed(s)
      /\ s.now.base \in Ids(fresh) \cup {NoId} => after.now.base = s.now.base
  <2>1. CASE fresh.revision < s.held.revision
    BY <1>1, <2>1 DEF adoptSnapshots
  <2>2. CASE ~(fresh.revision < s.held.revision)
    <3>1. after = refreshSnapshots(s, news)
      BY <2>2 DEF adoptSnapshots
    <3>2. refreshSnapshots(s, news).now = Moved(s, fresh, s.now)
      BY RefreshWell
    <3>3. Moved(s, fresh, s.now).base = Survivor(s.held, s.now.base, fresh)
      BY <1>1 DEF Moved, Point
    <3>4. Survivor(s.held, s.now.base, fresh) \in (Ids(s.held) \cap Ids(fresh)) \cup {NoId}
      BY <1>1, SurvivorIsHeld DEF Listed
    <3>5. s.now.base \in Ids(fresh) \cup {NoId} =>
             Survivor(s.held, s.now.base, fresh) = s.now.base
      BY SurvivorListed
    <3> QED  BY <3>1, <3>2, <3>3, <3>4, <3>5 DEF Listed
  <2> QED  BY <2>1, <2>2
<1> HIDE DEF after
<1>4. /\ after.held.revision >= s.held.revision
      /\ after.held.revision >= fresh.revision
      /\ Past(after.held, current)
  BY <1>1, <1>2
<1> QED  BY <1>2, <1>3, <1>4 DEF Carried, after

(* What a result brings is a reading of the list. *)
LEMMA ResultParts ==
    ASSUME NEW result \in SnapshotWriteResult
    PROVE  /\ result.listing # Nothing =>
                  /\ result.listing \in SnapshotUpdate
                  /\ result.listing.snapshots \in Collection
                  /\ result.listing.unreadable \in Nat
           /\ result.change \in SnapshotChange
BY DEF SnapshotWriteResult, SnapshotUpdate

(* A result of the session's own may anchor the look, but to its own look only. *)
LEMMA FinishedCarries ==
    ASSUME NEW s, WellFormed(s), NEW result \in SnapshotWriteResult, NEW current,
           Past(s.held, current), current \in Collection, Bears(result, current)
    PROVE  LET after == Finished(s, result)
           IN  /\ Carried(s, after, current)
               /\ result.listing # Nothing =>
                      after.held.revision >= result.listing.snapshots.revision
<1> DEFINE after == Finished(s, result)
           listing == result.listing
<1>1. /\ s.held \in Collection /\ s.held.revision \in Int
      /\ s.now.base \in Listed(s)
  BY ListNumbers DEF Past, WellFormed, Anchorable
<1>2. listing # Nothing => /\ listing.snapshots \in Collection
                           /\ listing.unreadable \in Nat
                           /\ Past(listing.snapshots, current)
  BY ResultParts DEF Bears
<1>3. CASE result.failure = "error"
  <2>1. after = s
    BY <1>3 DEF Finished
  <2> QED  BY <1>3, <2>1, SameCarries DEF Bears
<1>4. CASE result.failure = "conflict"
  <2>1. CASE listing = Nothing
    BY <1>4, <2>1, SameCarries DEF Finished
  <2>2. CASE listing # Nothing
    BY <1>2, <1>4, <2>2, AdoptCarries DEF Finished
  <2> QED  BY <2>1, <2>2
<1>5. CASE result.failure = "none" /\ isPatch(result)
  <2>1. listing = Nothing
    BY <1>5 DEF Bears
  <2>2. CASE ~result.written
    BY <1>5, <2>1, <2>2, SameCarries DEF Finished
  <2>3. CASE result.written
    <3> DEFINE id == result.change.id
    <3>1. after = finishThumbnail(s, id)
      BY <1>5, <2>3 DEF Finished
    <3> HIDE DEF after, id
    <3>2. /\ WellFormed(after)
          /\ after.held \in Collection
          /\ after.held.revision = s.held.revision
          /\ SameSnapshots(s.held, after.held)
          /\ \A i \in Ids(s.held) : after.held.entries[i].recipe = s.held.entries[i].recipe
          /\ after.now = s.now
      BY <3>1, FinishThumbnailWell
    <3>3. Past(after.held, current)
      BY <3>2, PastWithThumbnail
    <3> QED  BY <1>1, <2>1, <3>2, <3>3 DEF Carried, after
  <2> QED  BY <2>2, <2>3
<1>6. CASE result.failure = "none" /\ ~isPatch(result) /\ listing = Nothing
  <2>1. after = finishEmptyDiscard(s)
    BY <1>6 DEF Finished
  <2>2. WellFormed(after) /\ after.held = s.held
    BY <2>1, EmptyDiscardWell
  <2> QED  BY <1>6, <2>2, SameCarries
<1>7. CASE /\ result.failure = "none" /\ ~isPatch(result) /\ listing # Nothing
           /\ result.change.op = "create"
  <2> DEFINE id == result.id
             draft == result.change.draft
             adopted == adoptSnapshots(s, listing)
  <2>1. after = finishCreate(s, listing, id, draft, result.change.position)
    BY <1>7 DEF Finished
  <2>2. listing.snapshots.entries[id].recipe = draft.recipe
    BY <1>7 DEF Bears
  <2>3. /\ Carried(s, adopted, current)
        /\ adopted.held = s.held \/ adopted.held = listing.snapshots
        /\ adopted.held.revision >= listing.snapshots.revision
    BY <1>2, <1>7, AdoptCarries
  <2> HIDE DEF after, id, draft
  <2>4. /\ WellFormed(after)
        /\ after.held = adopted.held
        /\ \/ after = adopted
           \/ /\ id \in Ids(after.held)
              /\ after.now.recipe = draft.recipe
              /\ after.now.base = id
    BY <1>2, <1>7, <2>1, FinishCreateWell
  <2> HIDE DEF adopted
  <2>5. CASE after = adopted
    BY <2>3, <2>5 DEF after
  <2>6. CASE after # adopted
    <3>1. after.now.base = id /\ after.now.recipe = draft.recipe /\ id \in Ids(after.held)
      BY <2>4, <2>6
    <3>2. id \notin Listed(s) => after.held = listing.snapshots
      BY <2>3, <2>4, <3>1 DEF Listed
    <3> QED  BY <2>2, <2>3, <2>4, <3>1, <3>2 DEF Carried, after
  <2> QED  BY <2>5, <2>6
<1>8. CASE /\ result.failure = "none" /\ ~isPatch(result) /\ listing # Nothing
           /\ result.change.op # "create"
  <2>1. after = adoptSnapshots(s, listing)
    BY <1>8 DEF Finished
  <2> QED  BY <1>2, <1>8, <2>1, AdoptCarries
<1>9. result.failure \in {"none", "conflict", "error"}
  BY DEF SnapshotWriteResult
<1> QED  BY <1>3, <1>4, <1>5, <1>6, <1>7, <1>8, <1>9

(* A result of an earlier session brings at most its list. *)
LEMMA PassedCarries ==
    ASSUME NEW s, WellFormed(s), NEW result \in SnapshotWriteResult, NEW current,
           Past(s.held, current), Bears(result, current)
    PROVE  LET after == Passed(s, result)
           IN  /\ Carried(s, after, current)
               /\ result.listing # Nothing =>
                      after.held.revision >= result.listing.snapshots.revision
<1>1. CASE result.listing = Nothing
  BY <1>1, SameCarries DEF Passed
<1>2. CASE result.listing # Nothing
  <2>1. /\ result.listing.snapshots \in Collection
        /\ result.listing.unreadable \in Nat
        /\ Past(result.listing.snapshots, current)
        /\ ~isPatch(result)
    BY <1>2, ResultParts DEF Bears
  <2>2. Passed(s, result) = adoptSnapshots(s, result.listing)
    BY <1>2, <2>1 DEF Passed
  <2> QED  BY <2>1, <2>2, AdoptCarries
<1> QED  BY <1>1, <1>2

-----------------------------------------------------------------------------
(* The edits of the user, and the questions the window asks. *)
Edits == Begin \/ SetState \/ Commit \/ Undo \/ RestoreSnapshot

(* An edit leaves the list, the file and the pipeline alone. *)
LEMMA EditsWell ==
    ASSUME Inv, Edits
    PROVE  /\ Open /\ WellFormed(session') /\ session'.held = session.held
           /\ UNCHANGED <<file, serial, ticket, dialog, tickets, writer, changed, early>>
<1>1. Open /\ WellFormed(session)
  BY StateParts DEF Edits, Begin, SetState, Commit, Undo, RestoreSnapshot
<1>2. CASE Begin
  BY <1>1, <1>2, BeginWell DEF Begin, UserEdit, Frame
<1>3. CASE SetState
  BY <1>1, <1>3, SetStateWell DEF SetState, UserEdit, Frame
<1>4. CASE Commit
  BY <1>1, <1>4, SettledWell, CommitIsSettling DEF Commit, UserEdit, Frame
<1>5. CASE Undo
  BY <1>1, <1>5, GoToWell DEF Undo, undo, UserEdit, Frame
<1>6. CASE RestoreSnapshot
  <2>1. PICK id \in Ids(session.held) :
           UserEdit(restoreSnapshot(session, id, session.held.entries[id]))
    BY <1>6 DEF RestoreSnapshot
  <2>2. session.held.entries[id] \in Snapshot
    BY <1>1, StateParts, IdsType
  <2> QED  BY <1>1, <2>1, <2>2, RestoreWell DEF UserEdit, Frame
<1> QED  BY <1>2, <1>3, <1>4, <1>5, <1>6
         DEF Edits, Begin, SetState, Commit, Undo, RestoreSnapshot, UserEdit

Questions == AskCreate \/ AskRename \/ AskDelete \/ AskDiscard

(* A question at most commits the open edit. *)
LEMMA QuestionsWell ==
    ASSUME Inv, Questions
    PROVE  /\ Open /\ WellFormed(session') /\ session'.held = session.held
           /\ dialog' \in Dialogs /\ dialog'.op # "open"
           /\ UNCHANGED <<file, serial, ticket, tickets, writer, changed, early>>
<1>1. Open /\ WellFormed(session) /\ serial \in Nat
  <2>1. Open
    BY DEF Questions, AskCreate, AskRename, AskDelete, AskDiscard, Asks, MayChangeSnapshots, Quiet
  <2> QED  BY <2>1, StateParts, PipeParts DEF Inv
<1>2. session' = session \/ session' = Settled(session)
  BY DEF Questions, AskCreate, AskRename, AskDelete, AskDiscard
<1>3. WellFormed(session') /\ session'.held = session.held
  BY <1>1, <1>2, SettledWell DEF Frame
<1>4. PICK op \in {"create", "rename", "delete", "discard"}, id \in MaybeId : Asks(Question(op, id))
  <2>1. CASE AskCreate
    BY <2>1 DEF AskCreate, MaybeId
  <2>2. CASE AskRename
    BY <2>2 DEF AskRename, MaybeId, Ids
  <2>3. CASE AskDelete
    BY <2>3 DEF AskDelete, MaybeId, Ids
  <2>4. CASE AskDiscard
    BY <2>4 DEF AskDiscard, MaybeId
  <2> QED  BY <2>1, <2>2, <2>3, <2>4 DEF Questions
<1>5. dialog' = [op |-> op, id |-> id, serial |-> serial]
  BY <1>4 DEF Asks, Question
<1>6. dialog' \in Dialogs /\ dialog'.op # "open"
  BY <1>1, <1>5 DEF Dialogs
<1> QED  BY <1>1, <1>3, <1>4, <1>6 DEF Asks

(* What each step does to the file. *)
LEMMA FileStep == Inv /\ [Next]_vars => FileGoesOn
<1> SUFFICES ASSUME Inv, [Next]_vars
             PROVE  FileGoesOn
  OBVIOUS
<1>1. ASSUME UNCHANGED file
      PROVE  FileGoesOn
  BY <1>1, StateParts, SameIsLater DEF FileGoesOn
<1>2. CASE Save
  BY <1>2, SaveGoesOn DEF Save, Quiet
<1>3. CASE SavesOrDiscards
  BY <1>1, <1>3, SaveGoesOn DEF SavesOrDiscards
<1>4. CASE WriteChange
  BY <1>4, WriteChangeGoesOn
<1>5. CASE WritePatches
  <2> DEFINE ids == {run[i].change.id : i \in 1 .. Len(run)} \cap Ids(file.snapshots)
  <2>1. ids \in SUBSET Ids(file.snapshots)
    OBVIOUS
  <2>2. file' = SetThumbnails(file, ids)
    BY <1>5 DEF WritePatches
  <2> HIDE DEF ids
  <2> QED  BY <2>1, <2>2, StateParts, ThumbnailSound, ThumbnailLater DEF FileGoesOn
<1>6. CASE OthersWrite
  BY <1>6, OthersGoOn
<1>7. CASE Edits \/ Questions
  BY <1>1, <1>7, EditsWell, QuestionsWell
<1>8. CASE \/ Agree \/ Decline \/ StoreThumbnail \/ Take
           \/ FindNothingToDiscard \/ Fail \/ MeetConflict \/ ReadFresh
           \/ snapshotWriteLanded \/ sidecarChangedOnDisk
           \/ Leave \/ Opens \/ OpensAndAsks \/ UNCHANGED vars
  BY <1>1, <1>8 DEF Agree, Decline, StoreThumbnail, Take, FindNothingToDiscard, Fail,
     MeetConflict, ReadFresh, snapshotWriteLanded, sidecarChangedOnDisk,
     Leave, Opens, OpensAndAsks, vars
<1> QED  BY <1>2, <1>3, <1>4, <1>5, <1>6, <1>7, <1>8
         DEF Next, CarryOut, Edits, Questions, OthersWrite

(* So what was past stays past. *)
LEMMA AllStaysPast ==
    ASSUME Inv, FileGoesOn
    PROVE  /\ \A held : Past(held, file.snapshots) => Past(held, file'.snapshots)
           /\ file'.snapshots \in Collection
           /\ Past(file'.snapshots, file'.snapshots)
           /\ file'.snapshots.revision >= file.snapshots.revision
<1>1. /\ file.snapshots \in Collection /\ Valid(file.snapshots)
      /\ file'.snapshots \in Collection /\ Valid(file'.snapshots)
      /\ Later(file.snapshots, file'.snapshots)
  BY StateParts DEF FileGoesOn, Contents, Sound
<1>2. \A held : Past(held, file.snapshots) => Past(held, file'.snapshots)
  BY <1>1, PastStays
<1> QED  BY <1>1, <1>2, PresentIsPast DEF Later

(* Sessions are carried on, opened afresh, or given up. *)
GoesOn == Open /\ Carried(session, session', file'.snapshots)

StartsAfresh ==
    /\ serial' = serial + 1
    /\ WellFormed(session')
    /\ Past(session'.held, file'.snapshots)

(* A step that leaves the list alone carries the session on. *)
LEMMA SameGoesOn ==
    ASSUME Inv, FileGoesOn, Open, WellFormed(session'), session'.held = session.held
    PROVE  GoesOn
<1>1. Past(session.held, file'.snapshots)
  BY StateParts, AllStaysPast
<1> QED  BY <1>1, SameCarries DEF GoesOn

(* A session that is shown starts on a list the file has had. *)
LEMMA ShowStarts ==
    ASSUME Inv, FileGoesOn, NEW contents \in Contents, Sound(contents),
           Past(contents.snapshots, file.snapshots), NEW stale, Show(contents, stale)
    PROVE  StartsAfresh /\ session'.held = contents.snapshots
<1>1. WellFormed(session') /\ session'.held = contents.snapshots
  BY OpenedOnWell DEF Show
<1> QED  BY <1>1, AllStaysPast DEF StartsAfresh, Show

(* A result that lands carries the session on, at least to the list it brings. *)
LEMMA LandingGoesOn ==
    ASSUME Inv, snapshotWriteLanded, Open
    PROVE  /\ GoesOn
           /\ Head(results).listing # Nothing =>
                  session'.held.revision >= Head(results).listing.snapshots.revision
<1> DEFINE result == Head(results)
<1>1. results # << >> /\ UNCHANGED file
  BY DEF snapshotWriteLanded
<1>2. /\ WellFormed(session) /\ Past(session.held, file.snapshots)
      /\ file.snapshots \in Collection
  BY StateParts
<1>3. result \in SnapshotWriteResult /\ Bears(result, file.snapshots)
  <2>1. results \in Seq(SnapshotWriteResult)
    BY PipeParts DEF Inv
  <2>2. results[1] \in Members(results) /\ Members(results) \subseteq SnapshotWriteResult
    BY <1>1, <2>1, MembersOf
  <2> QED  BY <2>2 DEF Inv, ResultsBear
<1>4. session' = IF result.owner = serial THEN Finished(session, result)
                 ELSE Passed(session, result)
  BY DEF snapshotWriteLanded
<1> HIDE DEF result
<1>5. CASE result.owner = serial
  <2>1. session' = Finished(session, result)
    BY <1>4, <1>5
  <2>2. LET after == Finished(session, result)
        IN  /\ Carried(session, after, file.snapshots)
            /\ result.listing # Nothing =>
                  after.held.revision >= result.listing.snapshots.revision
    BY <1>2, <1>3, FinishedCarries
  <2> QED  BY <1>1, <2>1, <2>2 DEF GoesOn, result
<1>6. CASE result.owner # serial
  <2>1. session' = Passed(session, result)
    BY <1>4, <1>6
  <2>2. LET after == Passed(session, result)
        IN  /\ Carried(session, after, file.snapshots)
            /\ result.listing # Nothing =>
                  after.held.revision >= result.listing.snapshots.revision
    BY <1>2, <1>3, PassedCarries
  <2> QED  BY <1>1, <2>1, <2>2 DEF GoesOn, result
<1> QED  BY <1>5, <1>6

(* A reading of the list is of the file as it is. *)
LEMMA ListingParts ==
    ASSUME Inv
    PROVE  /\ Listing \in SnapshotUpdate
           /\ Listing.snapshots = file.snapshots /\ Listing.unreadable = file.unreadable
BY StateParts DEF Listing, SnapshotUpdate

(* After a report of the watcher the session holds the file's revision. *)
LEMMA ReportReaches ==
    ASSUME Inv, sidecarChangedOnDisk
    PROVE  /\ (GoesOn /\ serial' = serial) \/ StartsAfresh
           /\ session'.held.revision = file.snapshots.revision
<1> DEFINE same == file.recipe = session.saved
           adopted == IF same THEN adoptSnapshots(session, Listing) ELSE session
           settled == Settled(adopted)
           news == adoptSnapshots(settled, Listing)
<1>1. /\ WellFormed(session) /\ Past(session.held, file.snapshots)
      /\ session.held.revision \in Nat
      /\ file \in Contents /\ Sound(file)
      /\ file.snapshots \in Collection /\ file.snapshots.revision \in Nat
      /\ file.unreadable \in Nat
      /\ Past(file.snapshots, file.snapshots)
      /\ Open /\ UNCHANGED file
      /\ FileGoesOn
  BY StateParts, SameIsLater DEF sidecarChangedOnDisk, FileGoesOn
<1>2. \A s : WellFormed(s) /\ Past(s.held, file.snapshots) =>
         LET after == adoptSnapshots(s, Listing)
         IN  /\ Carried(s, after, file.snapshots)
             /\ after.now.base \in Listed(s)
             /\ s.now.base \in Ids(file.snapshots) \cup {NoId} => after.now.base = s.now.base
             /\ after.held.revision >= file.snapshots.revision
  BY <1>1, ListingParts, AdoptCarries
<1>3. \A held : Past(held, file.snapshots) =>
         held.revision \in Int /\ held.revision <= file.snapshots.revision
  BY ListNumbers DEF Past, IsPast
<1>4. /\ Carried(session, adopted, file.snapshots)
      /\ adopted.now.base \in Listed(session)
      /\ same => adopted.held.revision >= file.snapshots.revision
      /\ adopted.held = session.held \/ adopted.held = file.snapshots
  <2>1. CASE same
    BY <1>1, <1>2, <2>1, ListingParts, AdoptSnapshotsWell
  <2>2. CASE ~same
    BY <1>1, <2>2, SameCarries DEF WellFormed, Anchorable
  <2> QED  BY <2>1, <2>2
<1> HIDE DEF adopted
<1>5. /\ WellFormed(settled) /\ settled.held = adopted.held
      /\ settled.now.base = adopted.now.base
  <2>1. WellFormed(adopted)
    BY <1>4 DEF Carried
  <2>2. /\ WellFormed(Settled(adopted)) /\ Frame(adopted, Settled(adopted))
        /\ Settled(adopted).now = [recipe |-> Settling(adopted), base |-> adopted.now.base]
    BY <2>1, SettledWell
  <2> QED  BY <2>2 DEF Frame
<1> HIDE DEF settled
<1>6. /\ Carried(settled, news, file.snapshots)
      /\ news.now.base \in Listed(settled)
      /\ settled.now.base \in Ids(file.snapshots) \cup {NoId} =>
             news.now.base = settled.now.base
      /\ news.held.revision >= file.snapshots.revision
  BY <1>2, <1>4, <1>5 DEF Carried
<1> HIDE DEF news
<1>7. CASE same /\ session' = adopted /\ serial' = serial
  <2>1. Past(adopted.held, file.snapshots)
    BY <1>4 DEF Carried
  <2> QED  BY <1>1, <1>3, <1>4, <1>7, <2>1 DEF GoesOn
<1>8. CASE session' = news /\ serial' = serial
  <2>1. Past(news.held, file.snapshots) /\ WellFormed(news)
    BY <1>6 DEF Carried
  <2>2. news.held.revision = file.snapshots.revision
    BY <1>1, <1>3, <1>6, <2>1
  <2>3. news.held.revision >= session.held.revision
    BY <1>1, <1>3, <2>2
  <2>4. news.now.base \notin Listed(session) =>
            news.held.entries[news.now.base].recipe = news.now.recipe
    <3>1. CASE adopted.held = session.held
      <4>1. news.now.base \in Listed(session)
        BY <1>5, <1>6, <3>1 DEF Listed
      <4> QED  BY <4>1
    <3>2. CASE adopted.held = file.snapshots
      <4>1. adopted.now.base \in Ids(file.snapshots) \cup {NoId}
        BY <1>4, <3>2 DEF Carried, WellFormed, Anchorable, Listed
      <4>2. news.now.base \in Listed(session)
        BY <1>4, <1>5, <1>6, <4>1
      <4> QED  BY <4>2
    <3> QED  BY <1>4, <3>1, <3>2
  <2> QED  BY <1>1, <1>8, <2>1, <2>2, <2>3, <2>4 DEF GoesOn, Carried
<1>9. CASE Show(file, FALSE)
  BY <1>1, <1>9, ShowStarts
<1> QED  BY <1>7, <1>8, <1>9 DEF sidecarChangedOnDisk, adopted, settled, news

(* A save carries the session on and leaves the list of the file. *)
LEMMA SaveGoes ==
    ASSUME Inv, Save
    PROVE  GoesOn /\ serial' = serial /\ file'.snapshots = file.snapshots
<1> DEFINE s == Savable(session)
           after == Saved(s, TRUE)
<1>1. Open /\ file' = SavedFile(s) /\ session' = after /\ serial' = serial
  BY DEF Save, Quiet
<1>2. /\ WellFormed(s) /\ ~editing(s)
      /\ s.held = session.held \/ s.held = file.snapshots
      /\ s.now.base \in Listed(session)
  BY <1>1, SavableWell
<1>3. FileGoesOn /\ file'.snapshots = file.snapshots
  BY <1>1, SaveGoesOn
<1> HIDE DEF s
<1>4. WellFormed(after) /\ after.held = s.held
  BY <1>2, SavedWell
<1>5. after.now.base = s.now.base
  <2>1. s \in Sessions /\ Settled(s) = s
    BY <1>2 DEF WellFormed, Anchorable, Settled
  <2> QED  BY <2>1 DEF Saved, Sessions
<1> HIDE DEF after
<1>6. /\ Past(session.held, file.snapshots) /\ Past(file.snapshots, file.snapshots)
      /\ session.held.revision <= file.snapshots.revision
      /\ session.held.revision \in Nat
  BY <1>1, StateParts
<1> QED  BY <1>1, <1>2, <1>3, <1>4, <1>5, <1>6 DEF GoesOn, Carried

SessionStays == UNCHANGED <<session, serial>>

(* The steps that do not touch the session. *)
LEMMA WhatStays ==
    ASSUME Inv,
           \/ Agree \/ Decline \/ StoreThumbnail \/ Take \/ CarryOut \/ OthersWrite
           \/ UNCHANGED vars
    PROVE  SessionStays
BY DEF Agree, Decline, StoreThumbnail, Take, CarryOut, WritePatches, WriteChange,
   FindNothingToDiscard, Fail, MeetConflict, ReadFresh, Deliver, OthersWrite, OthersAdd,
   OthersDelete, OthersMend, OthersSave, Foreign, window, vars, SessionStays

(* Every step that leaves a session carries it on or starts it afresh. *)
LEMMA SessionStep ==
    ASSUME Inv, [Next]_vars, Open'
    PROVE  (GoesOn /\ serial' = serial) \/ StartsAfresh
<1>1. FileGoesOn
  BY FileStep
<1>2. CASE Edits \/ Questions
  BY <1>1, <1>2, EditsWell, QuestionsWell, SameGoesOn
<1>3. CASE Save
  BY <1>3, SaveGoes
<1>4. CASE \/ Agree \/ Decline \/ StoreThumbnail \/ Take \/ CarryOut \/ OthersWrite
           \/ UNCHANGED vars
  <2>1. SessionStays
    BY <1>4, WhatStays
  <2>2. Open /\ WellFormed(session')
    BY <2>1, StateParts DEF SessionStays, Open
  <2> QED  BY <1>1, <2>1, <2>2, SameGoesOn DEF SessionStays
<1>5. CASE snapshotWriteLanded
  <2>1. Open /\ serial' = serial
    BY <1>5 DEF snapshotWriteLanded, Open
  <2> QED  BY <1>5, <2>1, LandingGoesOn
<1>6. CASE sidecarChangedOnDisk
  BY <1>6, ReportReaches
<1>7. CASE Leave
  BY <1>7 DEF Leave, Open
<1>8. CASE Opens
  BY <1>1, <1>8, StateParts, ShowStarts DEF Opens
<1>9. CASE OpensAndAsks
  <2>1. Open /\ serial' = serial /\ session' = Settled(session)
    BY <1>9 DEF OpensAndAsks, Open
  <2>2. WellFormed(session') /\ session'.held = session.held
    BY <2>1, StateParts, SettledWell DEF Frame
  <2> QED  BY <1>1, <2>1, <2>2, SameGoesOn
<1>10. CASE SavesOrDiscards
  <2>1. /\ dialog.document \in Contents /\ Sound(dialog.document)
        /\ Past(dialog.document.snapshots, file.snapshots)
    BY <1>10, DialogParts DEF SavesOrDiscards, Inv, Typed, DialogHolds
  <2>2. Show(dialog.document, dialog.document # file')
    BY <1>10 DEF SavesOrDiscards
  <2> QED  BY <1>1, <2>1, <2>2, ShowStarts
<1> QED  BY <1>2, <1>3, <1>4, <1>5, <1>6, <1>7, <1>8, <1>9, <1>10
         DEF Next, Edits, Questions, OthersWrite

(* So the session stays in good order and behind the file. *)
LEMMA SessionHoldsNext == Inv /\ [Next]_vars => SessionHolds'
<1> SUFFICES ASSUME Inv, [Next]_vars, Open'
             PROVE  (WellFormed(session) /\ Past(session.held, file.snapshots))'
  BY DEF SessionHolds
<1> QED  BY SessionStep DEF GoesOn, Carried, StartsAfresh

(* What was read before a dialog stays past while the dialog is shown. *)
LEMMA DialogHoldsNext == Inv /\ [Next]_vars => DialogHolds' /\ dialog' \in Dialogs
<1> SUFFICES ASSUME Inv, [Next]_vars
             PROVE  DialogHolds' /\ dialog' \in Dialogs
  OBVIOUS
<1>1. FileGoesOn /\ \A held : Past(held, file.snapshots) => Past(held, file'.snapshots)
  BY FileStep, AllStaysPast
<1>2. dialog \in Dialogs /\ DialogHolds
  BY DEF Inv, Typed
<1>3. CASE UNCHANGED dialog
  BY <1>1, <1>2, <1>3 DEF DialogHolds
<1>4. CASE dialog' = NoDialog
  BY <1>4 DEF DialogHolds, Dialogs, NoDialog
<1>5. CASE Questions
  BY <1>5, QuestionsWell DEF DialogHolds
<1>6. CASE OpensAndAsks
  <2>1. dialog' = [op |-> "open", document |-> file]
    BY <1>6 DEF OpensAndAsks
  <2> QED  BY <1>1, <2>1, StateParts DEF DialogHolds, Dialogs
<1>7. CASE Edits
  BY <1>3, <1>7, EditsWell
<1>8. CASE \/ Agree \/ Decline \/ SavesOrDiscards
  BY <1>4, <1>8 DEF Agree, Decline, SavesOrDiscards
<1>9. CASE \/ Save \/ StoreThumbnail \/ Take \/ CarryOut \/ OthersWrite
           \/ snapshotWriteLanded \/ sidecarChangedOnDisk \/ Leave \/ Opens \/ UNCHANGED vars
  BY <1>3, <1>9 DEF Save, StoreThumbnail, Take, CarryOut, WritePatches, WriteChange,
     FindNothingToDiscard, Fail, MeetConflict, ReadFresh, Deliver, OthersWrite, OthersAdd,
     OthersDelete, OthersMend, OthersSave, Foreign, window, vars,
     snapshotWriteLanded, sidecarChangedOnDisk, Leave, Opens
<1> QED  BY <1>5, <1>6, <1>7, <1>8, <1>9 DEF Next, Edits, Questions, OthersWrite

-----------------------------------------------------------------------------
(* The pipeline: what is submitted, taken, delivered and landed keeps its order. *)
PipeTyped ==
    /\ queue \in Seq(Request) /\ run \in Seq(Request)
    /\ results \in Seq(SnapshotWriteResult)
    /\ tickets \in Nat /\ serial \in Nat
    /\ reread \in BOOLEAN

Pipe == PipeTyped /\ RunHolds /\ InOrder

(* The pipeline is in order whenever the invariant holds. *)
LEMMA PipeOfInv ==
    ASSUME Inv
    PROVE  Pipe
BY PipeParts DEF Inv, Typed, TypeOK, Pipe, PipeTyped

(* A sequence of one. *)
LEMMA Single ==
    ASSUME NEW S, NEW e \in S
    PROVE  /\ << e >> \in Seq(S) /\ Len(<< e >>) = 1 /\ << e >>[1] = e
           /\ Members(<< e >>) = {e}
           /\ Rising(<< e >>)
<1>1. << e >> \in Seq(S) /\ Len(<< e >>) = 1 /\ << e >>[1] = e
  OBVIOUS
<1>2. 1 .. 1 = {1}
  OBVIOUS
<1> QED  BY <1>1, <1>2 DEF Members, Rising

(* A submitted write has the latest ticket, and no structural write is dropped for it. *)
LEMMA SubmitKeepsOrder ==
    ASSUME Inv, Open, NEW change \in SnapshotChange, Submit(change),
           UNCHANGED <<run, reread, results, serial>>
    PROVE  /\ Pipe' /\ tickets' = tickets + 1
           /\ \E write \in Members(queue') :
                 /\ write.ticket = tickets + 1 /\ write.owner = serial /\ write.change = change
                 /\ Members(queue') \subseteq Members(queue) \cup {write}
           /\ \A write \in Members(queue) : ~isPatch(write) => write \in Members(queue')
<1> DEFINE new == [ticket |-> tickets + 1, owner |-> serial,
                   expected |-> session.held.revision, change |-> change]
           left == Undropped
<1>1. /\ Typed /\ InOrder /\ RunHolds /\ reread \in BOOLEAN
      /\ queue \in Seq(Request) /\ run \in Seq(Request) /\ results \in Seq(SnapshotWriteResult)
      /\ tickets \in Nat /\ serial \in Nat
  BY PipeParts DEF Inv, Typed, TypeOK
<1>2. new \in Request
  BY <1>1, StateParts DEF Request
<1>3. tickets' = tickets + 1 /\ queue' = Append(left, new)
  BY DEF Submit
<1>4. /\ left \in Seq(Request)
      /\ Rising(left)
      /\ Members(left) \subseteq Members(queue)
      /\ \A write \in Members(queue) : ~isPatch(write) => write \in Members(left)
  BY <1>1, WhatIsLeft DEF InOrder
<1>5. new.ticket = tickets + 1 /\ new.owner = serial /\ new.change = change
  OBVIOUS
<1> HIDE DEF new, left
<1>6. \A write \in Members(results) \cup Members(run) \cup Members(queue) :
         /\ write.ticket \in Nat /\ write.owner \in Nat
         /\ 1 <= write.ticket /\ write.ticket <= tickets /\ write.owner <= serial
  BY <1>1, PipeParts DEF InOrder, Given
<1>7. /\ queue' = left \o << new >>
      /\ << new >> \in Seq(Request) /\ Members(<< new >>) = {new} /\ Rising(<< new >>)
  BY <1>2, <1>3, <1>4, Single, AppendIsConcat
<1>8. Before(Members(left), Members(<< new >>))
  BY <1>1, <1>4, <1>5, <1>6, <1>7 DEF Before
<1>9. /\ queue' \in Seq(Request) /\ Rising(queue')
      /\ Members(queue') = Members(left) \cup {new}
  <2> DEFINE last == << new >>
  <2>1. /\ queue' = left \o last
        /\ last \in Seq(Request) /\ Members(last) = {new} /\ Rising(last)
        /\ Before(Members(left), Members(last))
    BY <1>7, <1>8
  <2> HIDE DEF last
  <2>2. /\ left \o last \in Seq(Request)
        /\ Members(left \o last) = Members(left) \cup Members(last)
    BY <1>4, <2>1, MembersOfConcat
  <2>3. Rising(left \o last)
    BY <1>4, <2>1, RisingConcat
  <2> QED  BY <2>1, <2>2, <2>3
<1>10. InOrder'
  <2>1. Before(Members(results), Members(queue')) /\ Before(Members(run), Members(queue'))
    BY <1>1, <1>4, <1>5, <1>6, <1>9 DEF InOrder, Before
  <2>2. \A write \in Members(results) \cup Members(run) \cup Members(queue') :
           1 <= write.ticket /\ write.ticket <= tickets + 1 /\ write.owner <= serial
    BY <1>1, <1>4, <1>5, <1>6, <1>9
  <2> QED  BY <1>1, <1>3, <1>9, <2>1, <2>2 DEF InOrder, Given
<1>11. RunHolds'
  BY <1>1 DEF RunHolds, isPatch
<1> QED  BY <1>1, <1>3, <1>4, <1>5, <1>9, <1>10, <1>11 DEF Pipe, PipeTyped

(* A set of numbers below a bound has a largest, so the batch has a size. *)
LEMMA Largest ==
    ASSUME NEW n \in Nat, NEW S \in SUBSET (0 .. n), S # {}
    PROVE  \E m \in S : \A other \in S : other <= m
<1> DEFINE P == {k \in Nat : \A T \in SUBSET (0 .. k) :
                                T # {} => \E m \in T : \A other \in T : other <= m}
<1>1. 0 \in P
  <2> SUFFICES ASSUME NEW T \in SUBSET (0 .. 0), T # {}
               PROVE  \E m \in T : \A other \in T : other <= m
    OBVIOUS
  <2>1. \A other \in T : other = 0
    OBVIOUS
  <2>2. PICK m \in T : TRUE
    OBVIOUS
  <2> QED  BY <2>1, <2>2
<1>2. ASSUME NEW k \in P
      PROVE  k + 1 \in P
  <2> SUFFICES ASSUME NEW T \in SUBSET (0 .. k + 1), T # {}
               PROVE  \E m \in T : \A other \in T : other <= m
    OBVIOUS
  <2>1. CASE k + 1 \in T
    BY <2>1
  <2>2. CASE k + 1 \notin T
    <3>1. T \in SUBSET (0 .. k)
      BY <2>2
    <3> QED  BY <3>1
  <2> QED  BY <2>1, <2>2
<1>3. P \subseteq Nat
  OBVIOUS
<1> HIDE DEF P
<1>4. P = Nat
  BY <1>1, <1>2, <1>3, AllOfNat
<1>5. n \in P
  BY <1>4
<1> QED  BY <1>5 DEF P

(* The writer takes one write, or patches only. *)
LEMMA BatchSizeIs ==
    ASSUME queue \in Seq(Request), queue # << >>
    PROVE  /\ BatchSize \in 1 .. Len(queue)
           /\ BatchSize = 1 \/ isPatch(queue[1])
<1> DEFINE sizes == {n \in 1 .. Len(queue) :
                        \/ n = 1
                        \/ n <= maximumBatch /\ \A i \in 1 .. n : isPatch(queue[i])}
<1>1. Len(queue) \in Nat /\ Len(queue) # 0
  BY LenProperties, EmptySeq
<1>2. sizes \in SUBSET (0 .. Len(queue)) /\ 1 \in sizes
  BY <1>1
<1>3. \A n \in sizes : n \in 1 .. Len(queue) /\ (n = 1 \/ isPatch(queue[1]))
  BY <1>1
<1>4. BatchSize = CHOOSE n \in sizes : \A other \in sizes : other <= n
  BY DEF BatchSize
<1> HIDE DEF sizes
<1>5. \E n \in sizes : \A other \in sizes : other <= n
  BY <1>1, <1>2, Largest
<1>6. BatchSize \in sizes
  BY <1>4, <1>5
<1> QED  BY <1>3, <1>6

(* Taking moves writes from the head of the queue, and loses none. *)
LEMMA TakeKeepsOrder ==
    ASSUME Inv, Take
    PROVE  /\ Pipe'
           /\ Members(queue) \cup Members(run) = Members(queue') \cup Members(run')
<1> DEFINE n == BatchSize
<1>1. /\ Typed /\ InOrder /\ RunHolds /\ reread \in BOOLEAN
      /\ queue \in Seq(Request) /\ run \in Seq(Request) /\ results \in Seq(SnapshotWriteResult)
      /\ tickets \in Nat /\ serial \in Nat
  BY PipeParts DEF Inv, Typed, TypeOK
<1>2. /\ queue # << >> /\ run = << >>
      /\ run' = SubSeq(queue, 1, n)
      /\ queue' = SubSeq(queue, n + 1, Len(queue))
      /\ UNCHANGED <<results, reread, tickets, serial>>
  BY DEF Take, window
<1>3. n \in 1 .. Len(queue) /\ (n = 1 \/ isPatch(queue[1])) /\ Len(queue) \in Nat
  BY <1>1, <1>2, BatchSizeIs, LenProperties
<1> HIDE DEF n
<1>4. /\ run' \in Seq(Request) /\ Len(run') = n
      /\ Members(run') = {queue[i] : i \in 1 .. n}
      /\ \A i \in 1 .. n - 1 + 1 : run'[i] = queue[1 + i - 1]
      /\ Rising(run')
  BY <1>1, <1>2, <1>3, MembersOfPart DEF InOrder
<1>5. /\ queue' \in Seq(Request)
      /\ Members(queue') = {queue[i] : i \in n + 1 .. Len(queue)}
      /\ Rising(queue')
  BY <1>1, <1>2, <1>3, MembersOfPart DEF InOrder
<1>6. Members(queue) = Members(run') \cup Members(queue')
  <2>1. 1 .. Len(queue) = (1 .. n) \cup (n + 1 .. Len(queue))
    BY <1>3
  <2>2. Members(queue) = {queue[i] : i \in (1 .. n) \cup (n + 1 .. Len(queue))}
    BY <2>1 DEF Members
  <2> QED  BY <1>4, <1>5, <2>2
<1>7. Before(Members(run'), Members(queue'))
  <2> SUFFICES ASSUME NEW one \in Members(run'), NEW other \in Members(queue')
               PROVE  one.ticket < other.ticket
    BY DEF Before
  <2>1. PICK i \in 1 .. n : one = queue[i]
    BY <1>4
  <2>2. PICK j \in n + 1 .. Len(queue) : other = queue[j]
    BY <1>5
  <2>3. i \in 1 .. Len(queue) /\ j \in 1 .. Len(queue) /\ i < j
    BY <1>3
  <2> QED  BY <1>1, <2>1, <2>2, <2>3 DEF InOrder, Rising
<1>8. run'[1] = queue[1]
  BY <1>3, <1>4
<1>9. Members(run) = {}
  BY <1>1, <1>2, MembersOf
<1>10. InOrder'
  BY <1>1, <1>2, <1>4, <1>5, <1>6, <1>7 DEF InOrder, Before, Given
<1>11. RunHolds'
  BY <1>1, <1>2, <1>3, <1>4, <1>8 DEF RunHolds, isPatch
<1> QED  BY <1>1, <1>2, <1>4, <1>5, <1>6, <1>9, <1>10, <1>11 DEF Pipe, PipeTyped

(* A result answers the write it was made from. *)
SameWrite(result, write) ==
    result.ticket = write.ticket /\ result.owner = write.owner /\ result.change = write.change

Answers(delivered) ==
    /\ delivered \in Seq(SnapshotWriteResult)
    /\ Len(delivered) = Len(run)
    /\ \A i \in 1 .. Len(run) : SameWrite(delivered[i], run[i])

(* Answers have the tickets, the owners and the changes of what was carried out. *)
LEMMA AnswersCorrespond ==
    ASSUME Inv, NEW delivered, Answers(delivered)
    PROVE  /\ Rising(delivered)
           /\ \A result \in Members(delivered) : \E write \in Members(run) : SameWrite(result, write)
           /\ \A write \in Members(run) : \E result \in Members(delivered) : SameWrite(result, write)
<1>1. Rising(run)
  BY DEF Inv, InOrder
<1>2. Rising(delivered)
  BY <1>1 DEF Answers, SameWrite, Rising
<1>3. ASSUME NEW result \in Members(delivered)
      PROVE  \E write \in Members(run) : SameWrite(result, write)
  <2>1. PICK i \in 1 .. Len(delivered) : result = delivered[i]
    BY DEF Members
  <2>2. i \in 1 .. Len(run) /\ SameWrite(result, run[i])
    BY <2>1 DEF Answers
  <2> QED  BY <2>2 DEF Members
<1>4. ASSUME NEW write \in Members(run)
      PROVE  \E result \in Members(delivered) : SameWrite(result, write)
  <2>1. PICK i \in 1 .. Len(run) : write = run[i]
    BY DEF Members
  <2>2. i \in 1 .. Len(delivered) /\ SameWrite(delivered[i], write)
    BY <2>1 DEF Answers
  <2> QED  BY <2>2 DEF Members
<1> QED  BY <1>2, <1>3, <1>4

(* Delivered results queue up behind those that have not landed. *)
LEMMA DeliverKeepsOrder ==
    ASSUME Inv, NEW delivered, Answers(delivered), Deliver(delivered)
    PROVE  Pipe' /\ Members(results') = Members(results) \cup Members(delivered)
<1>1. /\ Typed /\ InOrder /\ RunHolds
      /\ queue \in Seq(Request) /\ run \in Seq(Request) /\ results \in Seq(SnapshotWriteResult)
      /\ tickets \in Nat /\ serial \in Nat
  BY PipeParts DEF Inv
<1>2. /\ results' = results \o delivered /\ run' = << >> /\ reread' = FALSE
      /\ UNCHANGED <<queue, tickets, serial>>
  BY DEF Deliver, window
<1>3. /\ delivered \in Seq(SnapshotWriteResult) /\ Rising(delivered)
      /\ \A result \in Members(delivered) : \E write \in Members(run) : SameWrite(result, write)
  BY AnswersCorrespond DEF Answers
<1>4. Before(Members(results), Members(delivered)) /\ Before(Members(delivered), Members(queue))
  BY <1>1, <1>3 DEF InOrder, Before, SameWrite
<1>5. Given(Members(delivered))
  BY <1>1, <1>3 DEF InOrder, Given, SameWrite
<1>6. /\ results' \in Seq(SnapshotWriteResult)
      /\ Members(results') = Members(results) \cup Members(delivered)
  BY <1>1, <1>2, <1>3, MembersOfConcat
<1>7. Rising(results')
  BY <1>1, <1>2, <1>3, <1>4, RisingConcat DEF InOrder
<1>8. run' \in Seq(Request) /\ Members(run') = {} /\ Rising(run')
  <2>1. << >> \in Seq(Request) /\ Len(<< >>) = 0
    BY EmptySeq
  <2>2. 1 .. Len(<< >>) = {}
    BY <2>1
  <2> QED  BY <1>2, <2>1, <2>2 DEF Members, Rising
<1>9. InOrder'
  <2>1. Before(Members(results'), Members(queue')) /\ Before(Members(results'), Members(run'))
        /\ Before(Members(run'), Members(queue'))
    BY <1>1, <1>2, <1>4, <1>6, <1>8 DEF InOrder, Before
  <2>2. Given(Members(results')) /\ Given(Members(run')) /\ Given(Members(queue'))
    BY <1>1, <1>2, <1>5, <1>6, <1>8 DEF InOrder, Given
  <2> QED  BY <1>1, <1>2, <1>7, <1>8, <2>1, <2>2 DEF InOrder, Before, Given
<1>10. RunHolds'
  BY <1>2 DEF RunHolds
<1> QED  BY <1>1, <1>2, <1>6, <1>8, <1>9, <1>10 DEF Pipe, PipeTyped

(* What the writer delivers bears what it found, and the news of its own write. *)
Delivers(delivered) ==
    /\ Answers(delivered) /\ Deliver(delivered)
    /\ \A result \in Members(delivered) : Bears(result, file'.snapshots)
    /\ \/ file'.snapshots.revision = file.snapshots.revision
       \/ \E result \in Members(delivered) :
             /\ result.listing # Nothing
             /\ result.listing.snapshots.revision = file'.snapshots.revision

(* The results that bring no list. *)
LEMMA PlainDelivers ==
    ASSUME Inv, run # << >>, NEW failure \in {"none", "error"}, NEW written \in [1 .. Len(run) -> BOOLEAN],
           LET delivered == [i \in 1 .. Len(run) |-> Result(run[i], failure, written[i], Nothing, NoId)]
           IN  Deliver(delivered),
           file'.snapshots.revision = file.snapshots.revision
    PROVE  \E delivered : Delivers(delivered)
<1> DEFINE result(i) == Result(run[i], failure, written[i], Nothing, NoId)
           delivered == [i \in 1 .. Len(run) |-> result(i)]
<1>1. run \in Seq(Request) /\ Len(run) \in Nat /\ NoId \in 0 .. MaximumId
  BY PipeParts, LenProperties, SnapshotsAssumption DEF Inv, NoId
<1>2. \A i \in 1 .. Len(run) : run[i] \in Request
  BY <1>1, ElementOfSeq
<1>3. \A i \in 1 .. Len(run) : /\ result(i) \in SnapshotWriteResult
                               /\ SameWrite(result(i), run[i])
                               /\ result(i).listing = Nothing
  BY <1>1, <1>2 DEF Result, Request, SnapshotWriteResult, SameWrite
<1> HIDE DEF result
<1>4. delivered \in Seq(SnapshotWriteResult) /\ Len(delivered) = Len(run)
  BY <1>1, <1>3
<1>5. \A i \in 1 .. Len(run) : delivered[i] = result(i)
  OBVIOUS
<1>6. Deliver(delivered)
  BY DEF result
<1> HIDE DEF delivered
<1>7. Answers(delivered)
  BY <1>3, <1>4, <1>5 DEF Answers
<1>8. \A r \in Members(delivered) : r.listing = Nothing
  BY <1>3, <1>4, <1>5 DEF Members
<1> QED  BY <1>6, <1>7, <1>8 DEF Delivers, Bears

(* The one result of a structural write. *)
LEMMA OneDelivers ==
    ASSUME Inv, run # << >>, ~isPatch(Write), NEW result \in SnapshotWriteResult,
           SameWrite(result, Write), Bears(result, file'.snapshots), Deliver(<< result >>),
           \/ file'.snapshots.revision = file.snapshots.revision
           \/ /\ result.listing # Nothing
              /\ result.listing.snapshots.revision = file'.snapshots.revision
    PROVE  \E delivered : Delivers(delivered)
<1> DEFINE delivered == << result >>
<1>1. Len(run) = 1
  BY DEF Inv, RunHolds, Write
<1>2. /\ delivered \in Seq(SnapshotWriteResult) /\ Len(delivered) = 1 /\ delivered[1] = result
      /\ Members(delivered) = {result}
  BY Single
<1>3. Deliver(delivered)
  OBVIOUS
<1> HIDE DEF delivered
<1>4. \A i \in 1 .. Len(run) : i = 1
  BY <1>1
<1>5. Answers(delivered)
  BY <1>1, <1>2, <1>4 DEF Answers, Write
<1> QED  BY <1>2, <1>3, <1>5 DEF Delivers

(* Whatever becomes of a write, the writer delivers such results, or reads again first. *)
LEMMA CarryOutDelivers ==
    ASSUME Inv, CarryOut, ~MeetConflict
    PROVE  \E delivered : Delivers(delivered)
<1>1. /\ file \in Contents /\ Sound(file) /\ file.snapshots \in Collection
      /\ file.snapshots.nextId \in 0 .. MaximumId
      /\ file.snapshots.nextId \in Nat /\ file.snapshots.revision \in Nat
  BY StateParts, SnapshotsAssumption DEF Collection, SnapshotId
<1>2. FileGoesOn /\ Past(file'.snapshots, file'.snapshots)
  BY FileStep, AllStaysPast DEF Next
<1>3. run # << >>
  BY DEF Inv, RunHolds, CarryOut, WritePatches, WriteChange, Current, Running,
         FindNothingToDiscard, Fail, ReadFresh
<1>4. Write \in Request /\ Change \in SnapshotChange
  BY <1>3, WriteParts
<1>5. 0 \in 0 .. MaximumId
  BY SnapshotsAssumption
<1>6. CASE WritePatches
  <2> DEFINE ids == {run[i].change.id : i \in 1 .. Len(run)} \cap Ids(file.snapshots)
             written == [i \in 1 .. Len(run) |-> run[i].change.id \in Ids(file.snapshots)]
  <2>1. file'.snapshots.revision = file.snapshots.revision
    <3>1. ids \in SUBSET Ids(file.snapshots) /\ file' = SetThumbnails(file, ids)
      BY <1>6 DEF WritePatches
    <3> HIDE DEF ids
    <3> QED  BY <1>1, <3>1, ThumbnailEffect
  <2>2. written \in [1 .. Len(run) -> BOOLEAN]
    OBVIOUS
  <2>3. Deliver([i \in 1 .. Len(run) |-> Result(run[i], "none", written[i], Nothing, NoId)])
    <3>1. [i \in 1 .. Len(run) |-> Result(run[i], "none", written[i], Nothing, NoId)] =
          [i \in 1 .. Len(run) |-> Result(run[i], "none", run[i].change.id \in Ids(file.snapshots),
                                          Nothing, NoId)]
      OBVIOUS
    <3> QED  BY <1>6, <3>1 DEF WritePatches
  <2> HIDE DEF written
  <2> QED  BY <1>3, <2>1, <2>2, <2>3, PlainDelivers
<1>7. CASE Fail
  <2> DEFINE written == [i \in 1 .. Len(run) |-> FALSE]
  <2>1. written \in [1 .. Len(run) -> BOOLEAN]
    OBVIOUS
  <2>2. Deliver([i \in 1 .. Len(run) |-> Result(run[i], "error", written[i], Nothing, NoId)])
    <3>1. [i \in 1 .. Len(run) |-> Result(run[i], "error", written[i], Nothing, NoId)] =
          [i \in 1 .. Len(run) |-> Result(run[i], "error", FALSE, Nothing, NoId)]
      OBVIOUS
    <3> QED  BY <1>7, <3>1 DEF Fail
  <2>3. file'.snapshots.revision = file.snapshots.revision
    BY <1>7 DEF Fail
  <2> HIDE DEF written
  <2> QED  BY <1>3, <2>1, <2>2, <2>3, PlainDelivers
<1>8. CASE FindNothingToDiscard
  <2> DEFINE result == Result(Write, "none", FALSE, Nothing, NoId)
  <2>1. result \in SnapshotWriteResult /\ SameWrite(result, Write) /\ result.listing = Nothing
    BY <1>4, <1>5 DEF Result, Request, SnapshotWriteResult, SameWrite, NoId
  <2>2. /\ Deliver(<< result >>) /\ ~isPatch(Write)
        /\ file'.snapshots.revision = file.snapshots.revision
    BY <1>8 DEF FindNothingToDiscard, Current
  <2> HIDE DEF result
  <2> QED  BY <1>3, <2>1, <2>2, OneDelivers DEF Bears
<1>9. CASE WriteChange
  <2> DEFINE id == file.snapshots.nextId
             listing == [snapshots |-> file'.snapshots, unreadable |-> file'.unreadable]
             result == Result(Write, "none", TRUE, listing, id)
  <2>1. listing \in SnapshotUpdate /\ listing # Nothing
    BY <1>2, WorkflowAssumption DEF FileGoesOn, Contents, SnapshotUpdate
  <2>2. listing.snapshots = file'.snapshots
    OBVIOUS
  <2>3. Deliver(<< result >>) /\ ~isPatch(Write)
    BY <1>9 DEF WriteChange, Current, Listing
  <2> HIDE DEF listing
  <2>4. /\ result \in SnapshotWriteResult /\ SameWrite(result, Write)
        /\ result.listing = listing /\ result.failure = "none"
        /\ result.change = Change /\ result.id = id
    BY <1>1, <1>4, <2>1 DEF Result, Request, SnapshotWriteResult, SameWrite, Change
  <2>5. Change.op = "create" => file'.snapshots.entries[id].recipe = Change.draft.recipe
    <3> SUFFICES ASSUME Change.op = "create"
                 PROVE  file'.snapshots.entries[id].recipe = Change.draft.recipe
      OBVIOUS
    <3>1. Change.draft \in Snapshot /\ CanAdd(file, Change.draft) /\ file' = AddSnapshot(file, Change.draft)
      BY <1>4, <1>9, ChangeParts DEF WriteChange
    <3>2. id \in SnapshotId
      BY <1>1, <3>1, FreshId DEF CanAdd, Sound, Valid
    <3> QED  BY <1>1, <3>1, <3>2 DEF AddSnapshot, Edited, Contents, Collection
  <2> HIDE DEF id, result
  <2>6. ~isPatch(result)
    BY <2>3, <2>4 DEF isPatch, Change
  <2>7. Bears(result, file'.snapshots)
    BY <1>2, <2>2, <2>4, <2>5, <2>6 DEF Bears
  <2> QED  BY <1>3, <2>1, <2>2, <2>3, <2>4, <2>7, OneDelivers
<1>10. CASE ReadFresh
  <2>1. PICK fresh \in {Listing, Nothing} :
           Deliver(<< Result(Write, "conflict", FALSE, fresh, NoId) >>)
    BY <1>10 DEF ReadFresh
  <2> DEFINE result == Result(Write, "conflict", FALSE, fresh, NoId)
  <2>2. file' = file /\ ~isPatch(Write)
    BY <1>10 DEF ReadFresh, Inv, RunHolds, Write
  <2>3. fresh \in SnapshotUpdate \cup {Nothing} /\ (fresh # Nothing => fresh.snapshots = file.snapshots)
    BY ListingParts
  <2>4. /\ result \in SnapshotWriteResult /\ SameWrite(result, Write)
        /\ result.listing = fresh /\ result.failure = "conflict" /\ result.change = Change
    BY <1>4, <1>5, <2>3 DEF Result, Request, SnapshotWriteResult, SameWrite, NoId, Change
  <2>5. Deliver(<< result >>)
    BY <2>1
  <2> HIDE DEF result
  <2>6. ~isPatch(result)
    BY <2>2, <2>4 DEF isPatch, Change
  <2>7. Bears(result, file'.snapshots)
    BY <1>2, <2>2, <2>3, <2>4, <2>6 DEF Bears
  <2> QED  BY <1>3, <2>2, <2>4, <2>5, <2>7, OneDelivers
<1> QED  BY <1>6, <1>7, <1>8, <1>9, <1>10 DEF CarryOut

(* The result that lands has the earliest ticket under way. *)
LEMMA LandingKeepsOrder ==
    ASSUME Inv, snapshotWriteLanded
    PROVE  /\ Pipe'
           /\ Head(results) \in SnapshotWriteResult
           /\ Members(results) = {Head(results)} \cup Members(results')
           /\ \A write \in Members(results') \cup Members(run) \cup Members(queue) :
                 Head(results).ticket < write.ticket
<1>1. /\ Typed /\ InOrder /\ RunHolds /\ reread \in BOOLEAN
      /\ queue \in Seq(Request) /\ run \in Seq(Request) /\ results \in Seq(SnapshotWriteResult)
      /\ tickets \in Nat /\ serial \in Nat
  BY PipeParts DEF Inv, Typed, TypeOK
<1>2. /\ results # << >> /\ results' = Tail(results)
      /\ UNCHANGED <<queue, run, reread, tickets, serial>>
  BY DEF snapshotWriteLanded
<1>3. \A e \in SnapshotWriteResult : e.ticket \in Nat
  BY DEF SnapshotWriteResult
<1>4. /\ Head(results) \in SnapshotWriteResult /\ results' \in Seq(SnapshotWriteResult)
      /\ Members(results) = {Head(results)} \cup Members(results')
      /\ \A e \in Members(results') : Head(results).ticket < e.ticket
      /\ Rising(results')
  BY <1>1, <1>2, <1>3, MembersOfTail DEF InOrder
<1>5. InOrder'
  BY <1>1, <1>2, <1>4 DEF InOrder, Before, Given
<1>6. RunHolds'
  BY <1>1, <1>2 DEF RunHolds, isPatch
<1>7. \A write \in Members(run) \cup Members(queue) : Head(results).ticket < write.ticket
  BY <1>1, <1>4 DEF InOrder, Before
<1> QED  BY <1>1, <1>2, <1>4, <1>5, <1>6, <1>7 DEF Pipe, PipeTyped

(* A new session owns nothing that is under way. *)
LEMMA PipeStays ==
    ASSUME Inv, UNCHANGED <<tickets, writer>>, serial' = serial \/ serial' = serial + 1
    PROVE  Pipe'
<1>1. Pipe /\ UNCHANGED <<tickets, queue, run, reread, results>>
  BY PipeOfInv DEF writer
<1>2. \A write \in Members(results) \cup Members(run) \cup Members(queue) : write.owner \in Nat
  BY PipeParts DEF Inv
<1>3. Given(Members(results))' /\ Given(Members(run))' /\ Given(Members(queue))'
  <2>1. \A write \in Members(results) \cup Members(run) \cup Members(queue) :
           1 <= write.ticket /\ write.ticket <= tickets /\ write.owner <= serial
    BY <1>1 DEF Pipe, InOrder, Given
  <2>2. \A write \in Members(results) \cup Members(run) \cup Members(queue) :
           1 <= write.ticket /\ write.ticket <= tickets /\ write.owner <= serial'
    BY <1>1, <1>2, <2>1 DEF Pipe, PipeTyped
  <2> QED  BY <1>1, <2>2 DEF Given, Members
<1>4. InOrder'
  BY <1>1, <1>3 DEF Pipe, InOrder, Rising, Before, Members
<1>5. RunHolds'
  BY <1>1 DEF Pipe, RunHolds, isPatch
<1> QED  BY <1>1, <1>4, <1>5 DEF Pipe, PipeTyped

(* What is submitted is a change. *)
LEMMA ChangesType ==
    ASSUME Inv, Open, dialog.op \in {"create", "rename", "delete", "discard"}, NEW change \in Changes
    PROVE  change \in SnapshotChange /\ change.op # "thumbnail"
<1>1. /\ session \in Sessions /\ session.held \in Collection
      /\ session.now.recipe \in Recipe /\ session.now.base \in MaybeId
      /\ session.position \in Nat
      /\ Ids(session.held) \subseteq SnapshotId
  <2>1. session \in Sessions /\ session.held \in Collection
    BY StateParts
  <2> QED  BY <2>1, SessionParts, IdsType DEF Sessions
<1>2. CASE dialog.op = "create"
  <2>1. PICK name \in NewNames :
           change = [op |-> "create", draft |-> DraftOf(session, session.now.recipe, name),
                     position |-> session.position]
    BY <1>2 DEF Changes
  <2>2. DraftOf(session, session.now.recipe, name) \in Snapshot
    BY <1>1, WorkflowAssumption DEF DraftOf, Snapshot
  <2> QED  BY <1>1, <2>1, <2>2 DEF SnapshotChange
<1>3. CASE dialog.op = "rename"
  <2>1. PICK name \in Names :
           /\ dialog.id \in Ids(session.held)
           /\ change = [op |-> "rename", id |-> dialog.id, name |-> name]
    BY <1>3 DEF Changes
  <2> QED  BY <1>1, <2>1 DEF SnapshotChange
<1>4. CASE dialog.op = "delete"
  <2>1. dialog.id \in Ids(session.held) /\ change = [op |-> "delete", id |-> dialog.id]
    BY <1>4 DEF Changes
  <2> QED  BY <1>1, <2>1 DEF SnapshotChange
<1>5. CASE dialog.op = "discard"
  BY <1>5 DEF Changes, SnapshotChange
<1> QED  BY <1>2, <1>3, <1>4, <1>5

(* The answer to a question submits a structural write. *)
LEMMA AgreeSubmits ==
    ASSUME Inv, Agree
    PROVE  /\ Open /\ ticket = 0 /\ ticket' = tickets'
           /\ UNCHANGED <<file, session, serial, run, reread, results, changed, early>>
           /\ \E change \in SnapshotChange : change.op # "thumbnail" /\ Submit(change)
BY ChangesType DEF Agree

(* A rendered picture submits a patch. *)
LEMMA ThumbnailSubmits ==
    ASSUME Inv, StoreThumbnail
    PROVE  /\ Open
           /\ UNCHANGED <<file, window, run, reread, results, changed, early>>
           /\ \E change \in SnapshotChange : change.op = "thumbnail" /\ Submit(change)
<1>1. Open /\ Ids(session.held) \subseteq SnapshotId
  BY StateParts, IdsType DEF StoreThumbnail
<1>2. PICK id \in Ids(session.held) : Submit([op |-> "thumbnail", id |-> id])
  BY DEF StoreThumbnail
<1>3. [op |-> "thumbnail", id |-> id] \in SnapshotChange
  BY <1>1 DEF SnapshotChange
<1> QED  BY <1>1, <1>2, <1>3 DEF StoreThumbnail

(* The steps that leave the pipeline alone: which session they leave, and its ticket. *)
Elsewhere ==
    /\ UNCHANGED <<tickets, writer>>
    /\ ticket' = ticket \/ ticket' = 0
    /\ \/ serial' = serial + 1
       \/ serial' = serial /\ ticket' = ticket /\ (Open' => Open)
       \/ serial' = serial /\ ~Open'

(* Those steps: edits, questions, saves, reports, openings and the writes of others. *)
LEMMA ElsewhereSteps ==
    ASSUME Inv,
           \/ Edits \/ Questions \/ Save \/ Decline \/ sidecarChangedOnDisk \/ Leave \/ Opens
           \/ OpensAndAsks \/ SavesOrDiscards \/ OthersWrite \/ UNCHANGED vars
    PROVE  Elsewhere
<1>1. CASE Edits \/ Questions
  BY <1>1, EditsWell, QuestionsWell DEF Elsewhere
<1>2. CASE Save \/ Decline \/ OthersWrite \/ UNCHANGED vars
  BY <1>2 DEF Save, Quiet, Decline, OthersWrite, OthersAdd, OthersDelete, OthersMend, OthersSave,
     Foreign, window, vars, Elsewhere, Open
<1>3. CASE sidecarChangedOnDisk \/ Opens \/ SavesOrDiscards
  BY <1>3 DEF sidecarChangedOnDisk, Opens, SavesOrDiscards, Show, Elsewhere
<1>4. CASE Leave
  BY <1>4 DEF Leave, Elsewhere, Open
<1>5. CASE OpensAndAsks
  BY <1>5 DEF OpensAndAsks, Elsewhere, Open
<1> QED  BY <1>1, <1>2, <1>3, <1>4, <1>5

(* Only a structural write meets a conflict. *)
LEMMA ConflictKeepsOrder ==
    ASSUME Inv, MeetConflict
    PROVE  Pipe' /\ UNCHANGED <<file, window, tickets, queue, run, results, changed, early>>
<1>1. /\ Pipe /\ reread' = TRUE
      /\ run # << >> /\ ~isPatch(run[1])
      /\ UNCHANGED <<file, window, tickets, queue, run, results, changed, early>>
  BY PipeOfInv DEF MeetConflict, Running, Write
<1>2. serial' = serial
  BY <1>1 DEF window
<1>3. InOrder'
  BY <1>1, <1>2 DEF Pipe, InOrder, Rising, Before, Given, Members
<1>4. RunHolds'
  BY <1>1 DEF Pipe, RunHolds, isPatch
<1> QED  BY <1>1, <1>2, <1>3, <1>4 DEF Pipe, PipeTyped

(* No step disturbs the order. *)
LEMMA PipeStep == Inv /\ [Next]_vars => Pipe'
<1> SUFFICES ASSUME Inv, [Next]_vars
             PROVE  Pipe'
  OBVIOUS
<1>1. CASE Agree
  BY <1>1, AgreeSubmits, SubmitKeepsOrder
<1>2. CASE StoreThumbnail
  BY <1>2, ThumbnailSubmits, SubmitKeepsOrder DEF window
<1>3. CASE Take
  BY <1>3, TakeKeepsOrder
<1>4. CASE CarryOut
  BY <1>4, ConflictKeepsOrder, CarryOutDelivers, DeliverKeepsOrder DEF Delivers
<1>5. CASE snapshotWriteLanded
  BY <1>5, LandingKeepsOrder
<1>6. CASE \/ Edits \/ Questions \/ Save \/ Decline \/ sidecarChangedOnDisk \/ Leave \/ Opens
           \/ OpensAndAsks \/ SavesOrDiscards \/ OthersWrite \/ UNCHANGED vars
  BY <1>6, ElsewhereSteps, PipeStays DEF Elsewhere
<1> QED  BY <1>1, <1>2, <1>3, <1>4, <1>5, <1>6 DEF Next, Edits, Questions, OthersWrite

(* The ticket: what is under way as three sets. *)
UnderWay == Members(queue) \cup Members(run) \cup Members(results)

OwedIn(S, t, owner, open) ==
    /\ t # 0 => \E write \in S : ~isPatch(write) /\ write.ticket = t
    /\ open => \A write \in S : ~isPatch(write) /\ write.owner = owner => write.ticket = t

(* The ticket speaks of the members of the three parts, before and after a step. *)
LEMMA TicketMeans ==
    /\ Inv => OwedIn(UnderWay, ticket, serial, Open)
    /\ Pipe' => (TicketIsOwed' <=> OwedIn(UnderWay', ticket', serial', Open'))
<1>1. Inv => InFlight = UnderWay
  BY PipeParts DEF Inv, UnderWay
<1>2. Inv => OwedIn(UnderWay, ticket, serial, Open)
  BY <1>1 DEF Inv, TicketIsOwed, OwedIn
<1>3. Pipe' => InFlight' = UnderWay'
  BY InFlightNext DEF Pipe, PipeTyped, UnderWay, Members
<1> QED  BY <1>2, <1>3 DEF TicketIsOwed, OwedIn

(* No step loses an owed write, or owes a second one. *)
LEMMA OwedStep == Inv /\ [Next]_vars => TicketIsOwed'
<1> SUFFICES ASSUME Inv, [Next]_vars
             PROVE  OwedIn(UnderWay', ticket', serial', Open')
  BY PipeStep, TicketMeans
<1>0. /\ OwedIn(UnderWay, ticket, serial, Open)
      /\ serial \in Nat /\ tickets \in Nat
      /\ \A write \in UnderWay : /\ write.ticket \in Nat /\ write.owner \in Nat
                                 /\ 1 <= write.ticket /\ write.owner <= serial
      /\ UnderWay' = Members(queue') \cup Members(run') \cup Members(results')
  BY TicketMeans, PipeParts DEF Inv, UnderWay, Members, InOrder, Given
<1>1. CASE Agree
  <2>1. /\ Open /\ ticket = 0 /\ ticket' = tickets'
        /\ UNCHANGED <<session, serial, run, reread, results>>
    BY <1>1, AgreeSubmits
  <2>2. PICK change \in SnapshotChange : change.op # "thumbnail" /\ Submit(change)
    BY <1>1, AgreeSubmits
  <2>3. /\ tickets' = tickets + 1
        /\ \E write \in Members(queue') :
              /\ write.ticket = tickets + 1 /\ write.owner = serial /\ write.change = change
              /\ Members(queue') \subseteq Members(queue) \cup {write}
    BY <2>1, <2>2, SubmitKeepsOrder
  <2>4. PICK new \in Members(queue') :
           /\ new.ticket = tickets + 1 /\ new.change = change
           /\ Members(queue') \subseteq Members(queue) \cup {new}
    BY <2>3
  <2>5. UnderWay' \subseteq UnderWay \cup {new} /\ new \in UnderWay'
    BY <1>0, <2>1, <2>4 DEF UnderWay
  <2>6. ~isPatch(new) /\ new.ticket = ticket'
    BY <2>1, <2>2, <2>3, <2>4 DEF isPatch
  <2>7. \A write \in UnderWay : ~(~isPatch(write) /\ write.owner = serial)
    BY <1>0, <2>1 DEF OwedIn
  <2> QED  BY <2>1, <2>5, <2>6, <2>7 DEF OwedIn
<1>2. CASE StoreThumbnail
  <2>1. Open /\ UNCHANGED <<session, serial, ticket, run, reread, results>>
    BY <1>2, ThumbnailSubmits DEF window
  <2>2. PICK change \in SnapshotChange : change.op = "thumbnail" /\ Submit(change)
    BY <1>2, ThumbnailSubmits
  <2>3. /\ \E write \in Members(queue') :
              /\ write.ticket = tickets + 1 /\ write.owner = serial /\ write.change = change
              /\ Members(queue') \subseteq Members(queue) \cup {write}
        /\ \A write \in Members(queue) : ~isPatch(write) => write \in Members(queue')
    BY <2>1, <2>2, SubmitKeepsOrder
  <2>4. PICK new \in Members(queue') :
           new.change = change /\ Members(queue') \subseteq Members(queue) \cup {new}
    BY <2>3
  <2>5. isPatch(new)
    BY <2>2, <2>4 DEF isPatch
  <2>6. /\ UnderWay' \subseteq UnderWay \cup {new}
        /\ \A write \in UnderWay : ~isPatch(write) => write \in UnderWay'
    BY <1>0, <2>1, <2>3, <2>4 DEF UnderWay
  <2>7. Open' = Open
    BY <2>1 DEF Open
  <2> QED  BY <1>0, <2>1, <2>5, <2>6, <2>7 DEF OwedIn
<1>3. CASE Take
  <2>1. /\ Members(queue) \cup Members(run) = Members(queue') \cup Members(run')
        /\ UNCHANGED <<session, serial, ticket, results>>
    BY <1>3, TakeKeepsOrder DEF Take, window
  <2>2. UnderWay' = UnderWay /\ Open' = Open
    BY <1>0, <2>1 DEF UnderWay, Open
  <2> QED  BY <1>0, <2>1, <2>2
<1>4. CASE MeetConflict
  <2>1. UNCHANGED <<session, serial, ticket, queue, run, results>>
    BY <1>4 DEF MeetConflict, window
  <2>2. UnderWay' = UnderWay /\ Open' = Open
    BY <1>0, <2>1 DEF UnderWay, Open
  <2> QED  BY <1>0, <2>1, <2>2
<1>5. CASE CarryOut /\ ~MeetConflict
  <2>1. PICK delivered : Delivers(delivered)
    BY <1>5, CarryOutDelivers
  <2>2. /\ Members(results') = Members(results) \cup Members(delivered)
        /\ UNCHANGED <<session, serial, ticket, queue>> /\ run' = << >>
    BY <2>1, DeliverKeepsOrder DEF Delivers, Deliver, window
  <2>3. Members(run') = {}
    BY <2>2, EmptySeq, MembersOf
  <2>4. /\ \A result \in Members(delivered) : \E write \in Members(run) : SameWrite(result, write)
        /\ \A write \in Members(run) : \E result \in Members(delivered) : SameWrite(result, write)
    BY <2>1, AnswersCorrespond DEF Delivers
  <2>5. UnderWay' = Members(queue) \cup Members(results) \cup Members(delivered)
    BY <1>0, <2>2, <2>3
  <2>6. \A result \in UnderWay' : \E write \in UnderWay : SameWrite(result, write)
    BY <2>4, <2>5 DEF UnderWay, SameWrite
  <2>7. \A write \in UnderWay : \E result \in UnderWay' : SameWrite(result, write)
    BY <2>4, <2>5 DEF UnderWay, SameWrite
  <2>8. Open' = Open
    BY <2>2 DEF Open
  <2>9. ticket' # 0 => \E result \in UnderWay' : ~isPatch(result) /\ result.ticket = ticket'
    BY <1>0, <2>2, <2>7 DEF OwedIn, SameWrite, isPatch
  <2>10. Open' => \A result \in UnderWay' : ~isPatch(result) /\ result.owner = serial'
                                                => result.ticket = ticket'
    BY <1>0, <2>2, <2>6, <2>8 DEF OwedIn, SameWrite, isPatch
  <2> QED  BY <2>9, <2>10 DEF OwedIn
<1>6. CASE snapshotWriteLanded
  <2> DEFINE head == Head(results)
  <2>1. /\ Members(results) = {head} \cup Members(results')
        /\ \A write \in Members(results') \cup Members(run) \cup Members(queue) :
              head.ticket < write.ticket
        /\ head \in SnapshotWriteResult
    BY <1>6, LandingKeepsOrder
  <2>2. /\ UNCHANGED <<serial, queue, run>>
        /\ ticket' = IF ticket = head.ticket THEN 0 ELSE ticket
        /\ Open' => Open
    BY <1>6 DEF snapshotWriteLanded, Open
  <2> HIDE DEF head
  <2>3. UnderWay = {head} \cup UnderWay' /\ \A write \in UnderWay' : head.ticket < write.ticket
    BY <1>0, <2>1, <2>2 DEF UnderWay
  <2>4. head.ticket \in Nat /\ \A write \in UnderWay' : write.ticket # head.ticket
    BY <1>0, <2>3
  <2> QED  BY <1>0, <2>2, <2>3, <2>4 DEF OwedIn
<1>7. CASE \/ Edits \/ Questions \/ Save \/ Decline \/ sidecarChangedOnDisk \/ Leave \/ Opens
           \/ OpensAndAsks \/ SavesOrDiscards \/ OthersWrite \/ UNCHANGED vars
  <2>1. Elsewhere
    BY <1>7, ElsewhereSteps
  <2>2. UnderWay' = UnderWay
    BY <1>0, <2>1 DEF UnderWay, Elsewhere, writer
  <2>3. serial' = serial + 1 => \A write \in UnderWay : write.owner # serial'
    BY <1>0
  <2> QED  BY <1>0, <2>1, <2>2, <2>3 DEF Elsewhere, OwedIn
<1> QED  BY <1>1, <1>2, <1>3, <1>4, <1>5, <1>6, <1>7
         DEF Next, Edits, Questions, OthersWrite, CarryOut

(* The results on their way keep bearing lists of the past. *)
LEMMA ResultsBearNext == Inv /\ [Next]_vars => ResultsBear'
<1> SUFFICES ASSUME Inv, [Next]_vars
             PROVE  ResultsBear'
  OBVIOUS
<1>1. \A held : Past(held, file.snapshots) => Past(held, file'.snapshots)
  BY FileStep, AllStaysPast
<1>2. \A result \in Members(results) : Bears(result, file'.snapshots)
  BY <1>1 DEF Inv, ResultsBear, Bears
<1>3. ASSUME Members(results') \subseteq Members(results)
      PROVE  ResultsBear'
  BY <1>2, <1>3 DEF ResultsBear, Members
<1>4. CASE CarryOut /\ ~MeetConflict
  <2>1. PICK delivered : Delivers(delivered)
    BY <1>4, CarryOutDelivers
  <2>2. Members(results') = Members(results) \cup Members(delivered)
    BY <2>1, DeliverKeepsOrder DEF Delivers
  <2>3. \A result \in Members(results') : Bears(result, file'.snapshots)
    BY <1>2, <2>1, <2>2 DEF Delivers
  <2> QED  BY <2>3 DEF ResultsBear, Members
<1>5. CASE snapshotWriteLanded
  BY <1>3, <1>5, LandingKeepsOrder
<1>6. CASE Agree \/ StoreThumbnail \/ Take \/ MeetConflict
  <2>1. results' = results
    BY <1>6, AgreeSubmits, ThumbnailSubmits DEF Take, MeetConflict
  <2> QED  BY <1>3, <2>1
<1>7. CASE \/ Edits \/ Questions \/ Save \/ Decline \/ sidecarChangedOnDisk \/ Leave \/ Opens
           \/ OpensAndAsks \/ SavesOrDiscards \/ OthersWrite \/ UNCHANGED vars
  <2>1. results' = results
    BY <1>7, ElsewhereSteps DEF Elsewhere, writer
  <2> QED  BY <1>3, <2>1
<1> QED  BY <1>4, <1>5, <1>6, <1>7 DEF Next, Edits, Questions, OthersWrite, CarryOut

(* The types are kept. *)
LEMMA TypedNext == Inv /\ [Next]_vars => Typed'
<1> SUFFICES ASSUME Inv, [Next]_vars
             PROVE  Typed'
  OBVIOUS
<1>1. /\ file' \in Contents /\ Sound(file') /\ dialog' \in Dialogs
      /\ Open' => session' \in Sessions
  BY FileStep, DialogHoldsNext, SessionHoldsNext DEF FileGoesOn, SessionHolds, WellFormed, Anchorable
<1>2. Pipe'
  BY PipeStep
<1>3. /\ serial \in Nat /\ ticket \in Nat /\ tickets \in Nat
      /\ changed \in BOOLEAN /\ early \in BOOLEAN
  BY DEF Inv, Typed, TypeOK
<1>4. ticket' \in Nat
  <2>1. CASE Agree
    BY <1>2, <2>1, AgreeSubmits DEF Pipe, PipeTyped
  <2>2. CASE StoreThumbnail \/ Take \/ CarryOut
    <3>1. ticket' = ticket
      BY <2>2 DEF StoreThumbnail, Take, CarryOut, WritePatches, WriteChange,
         FindNothingToDiscard, Fail, MeetConflict, ReadFresh, Deliver, window
    <3> QED  BY <1>3, <3>1
  <2>3. CASE snapshotWriteLanded
    BY <1>3, <2>3 DEF snapshotWriteLanded
  <2>4. CASE \/ Edits \/ Questions \/ Save \/ Decline \/ sidecarChangedOnDisk \/ Leave \/ Opens
             \/ OpensAndAsks \/ SavesOrDiscards \/ OthersWrite \/ UNCHANGED vars
    BY <1>3, <2>4, ElsewhereSteps DEF Elsewhere
  <2> QED  BY <2>1, <2>2, <2>3, <2>4 DEF Next, Edits, Questions, OthersWrite
<1>5. changed' \in BOOLEAN /\ early' \in BOOLEAN
  <2>1. CASE Edits \/ Questions
    BY <1>3, <2>1, EditsWell, QuestionsWell
  <2>2. CASE \/ Save \/ Decline \/ Agree \/ StoreThumbnail \/ Take \/ CarryOut
             \/ snapshotWriteLanded \/ Leave \/ OpensAndAsks \/ UNCHANGED vars
    BY <1>3, <2>2 DEF Save, Decline, Agree, StoreThumbnail, Take, CarryOut, WritePatches,
       WriteChange, FindNothingToDiscard, Fail, MeetConflict, ReadFresh, Deliver,
       snapshotWriteLanded, Leave, OpensAndAsks, vars
  <2>3. CASE OthersWrite
    BY <1>3, <2>3 DEF OthersWrite, OthersAdd, OthersDelete, OthersMend, OthersSave, Foreign
  <2>4. CASE sidecarChangedOnDisk \/ Opens \/ SavesOrDiscards
    BY <1>3, <2>4 DEF sidecarChangedOnDisk, Opens, SavesOrDiscards, Show
  <2> QED  BY <2>1, <2>2, <2>3, <2>4 DEF Next, Edits, Questions, OthersWrite
<1> QED  BY <1>1, <1>2, <1>4, <1>5 DEF Typed, TypeOK, Pipe, PipeTyped

(* News: a list of the file's revision is held, or is on its way. *)
NewsIn(S, revision) ==
    \E result \in S :
        result.listing # Nothing /\ result.listing.snapshots.revision = revision

(* News stays on its way while neither revision changes. *)
LEMMA NewsStays ==
    ASSUME Inv, Open, ~changed, ~early,
           file'.snapshots.revision = file.snapshots.revision,
           session'.held.revision = session.held.revision,
           Members(results) \subseteq Members(results')
    PROVE  \/ session'.held.revision = file'.snapshots.revision
           \/ NewsIn(Members(results'), file'.snapshots.revision)
BY DEF Inv, NewsComes, NewsIn

(* A write of the window sends its news along, and a landing brings them in. *)
LEMMA NewsStep == Inv /\ [Next]_vars => NewsComes'
<1> SUFFICES ASSUME Inv, [Next]_vars, Open', ~changed', ~early'
             PROVE  \/ session'.held.revision = file'.snapshots.revision
                    \/ NewsIn(Members(results'), file'.snapshots.revision)
  BY DEF NewsComes, NewsIn, Members
<1>1. CASE Edits \/ Questions
  <2>1. /\ Open /\ session'.held = session.held
        /\ UNCHANGED <<file, writer, changed, early>>
    BY <1>1, EditsWell, QuestionsWell
  <2> QED  BY <2>1, NewsStays DEF writer
<1>2. CASE Save
  <2>1. /\ Open /\ UNCHANGED <<writer, changed, early>>
        /\ session' = Saved(Savable(session), TRUE)
    BY <1>2 DEF Save, Quiet
  <2>2. file'.snapshots = file.snapshots
    BY <1>2, SaveGoes
  <2>3. WellFormed(Savable(session)) /\ (\/ Savable(session).held = session.held
                                         \/ Savable(session).held = file.snapshots)
    BY <2>1, SavableWell
  <2>4. Saved(Savable(session), TRUE).held = Savable(session).held
    BY <2>3, SavedWell
  <2> QED  BY <2>1, <2>2, <2>3, <2>4, NewsStays DEF writer
<1>3. CASE Decline \/ Agree \/ StoreThumbnail \/ Take \/ MeetConflict \/ UNCHANGED vars
  <2>1. UNCHANGED <<file, session, results, changed, early>>
    BY <1>3 DEF Decline, Agree, StoreThumbnail, Take, MeetConflict, window, writer, vars
  <2>2. Open
    BY <2>1 DEF Open
  <2> QED  BY <2>1, <2>2, NewsStays
<1>4. CASE CarryOut /\ ~MeetConflict
  <2>1. PICK delivered : Delivers(delivered)
    BY <1>4, CarryOutDelivers
  <2>2. Members(results') = Members(results) \cup Members(delivered)
    BY <2>1, DeliverKeepsOrder DEF Delivers
  <2>3. UNCHANGED <<session, changed, early>>
    BY <2>1 DEF Delivers, Deliver, window
  <2>4. Open
    BY <2>3 DEF Open
  <2>5. CASE file'.snapshots.revision = file.snapshots.revision
    BY <2>2, <2>3, <2>4, <2>5, NewsStays
  <2>6. CASE file'.snapshots.revision # file.snapshots.revision
    BY <2>1, <2>2, <2>6 DEF Delivers, NewsIn
  <2> QED  BY <2>5, <2>6
<1>5. CASE snapshotWriteLanded
  <2> DEFINE head == Head(results)
  <2>1. Open /\ UNCHANGED <<file, changed, early>>
    BY <1>5 DEF snapshotWriteLanded, Open
  <2>2. /\ GoesOn
        /\ head.listing # Nothing => session'.held.revision >= head.listing.snapshots.revision
    BY <1>5, <2>1, LandingGoesOn
  <2>3. Members(results) = {head} \cup Members(results')
    BY <1>5, LandingKeepsOrder
  <2> HIDE DEF head
  <2>4. /\ session'.held.revision \in Int /\ file.snapshots.revision \in Int
        /\ session.held.revision \in Int
        /\ session'.held.revision <= file.snapshots.revision
        /\ session'.held.revision >= session.held.revision
    BY <2>1, <2>2, StateParts, ListNumbers DEF GoesOn, Carried, Past, IsPast
  <2>5. CASE session.held.revision = file.snapshots.revision
    BY <2>1, <2>4, <2>5
  <2>6. CASE NewsIn(Members(results'), file.snapshots.revision)
    BY <2>1, <2>6
  <2>7. CASE head.listing # Nothing /\ head.listing.snapshots.revision = file.snapshots.revision
    BY <2>1, <2>2, <2>4, <2>7
  <2> QED  BY <2>1, <2>3, <2>5, <2>6, <2>7 DEF Inv, NewsComes, NewsIn
<1>6. CASE sidecarChangedOnDisk
  <2>1. session'.held.revision = file.snapshots.revision /\ file' = file
    BY <1>6, ReportReaches DEF sidecarChangedOnDisk
  <2> QED  BY <2>1
<1>7. CASE Leave
  BY <1>7 DEF Leave, Open
<1>8. CASE Opens
  <2>1. file' = file /\ Show(file, FALSE)
    BY <1>8 DEF Opens
  <2>2. session'.held = file.snapshots
    BY <2>1, StateParts, OpenedOnWell DEF Show
  <2> QED  BY <2>1, <2>2
<1>9. CASE OpensAndAsks
  <2>1. /\ Open /\ session' = Settled(session) /\ UNCHANGED <<file, writer, changed, early>>
    BY <1>9 DEF OpensAndAsks, Open
  <2>2. session'.held = session.held
    BY <2>1, StateParts, SettledWell DEF Frame
  <2> QED  BY <2>1, <2>2, NewsStays DEF writer
<1>10. CASE SavesOrDiscards
  <2>1. Show(dialog.document, dialog.document # file')
    BY <1>10 DEF SavesOrDiscards
  <2>2. session' = OpenedOn(file')
    BY <2>1 DEF Show
  <2>3. file' \in Contents /\ Sound(file')
    BY FileStep DEF FileGoesOn
  <2>4. session'.held = file'.snapshots
    BY <2>2, <2>3, OpenedOnWell
  <2> QED  BY <2>4
<1>11. CASE OthersWrite
  BY <1>11 DEF OthersWrite, OthersAdd, OthersDelete, OthersMend, OthersSave, Foreign
<1> QED  BY <1>1, <1>2, <1>3, <1>4, <1>5, <1>6, <1>7, <1>8, <1>9, <1>10, <1>11
         DEF Next, Edits, Questions, OthersWrite, CarryOut

-----------------------------------------------------------------------------
(* The window starts with the photograph open and nothing under way. *)
LEMMA InvInit == Init => Inv
<1> SUFFICES ASSUME Init
             PROVE  Inv
  OBVIOUS
<1>1. /\ file \in Contents /\ Sound(file)
      /\ file.snapshots \in Collection /\ Valid(file.snapshots)
  BY WorkflowAssumption DEF Init, Contents, Sound
<1>2. /\ WellFormed(session) /\ session.held = file.snapshots
      /\ session \in Sessions
  BY <1>1, OpenedOnWell DEF Init, WellFormed, Anchorable
<1>3. Past(file.snapshots, file.snapshots)
  BY <1>1, PresentIsPast
<1>4. /\ queue = << >> /\ run = << >> /\ results = << >>
      /\ serial = 1 /\ ticket = 0 /\ tickets = 0 /\ dialog = NoDialog
      /\ reread = FALSE /\ changed = FALSE /\ early = FALSE
  BY DEF Init
<1>5. /\ queue \in Seq(Request) /\ run \in Seq(Request)
      /\ results \in Seq(SnapshotWriteResult)
  BY <1>4, EmptySeq
<1>6. /\ Members(queue) = {} /\ Members(run) = {} /\ Members(results) = {}
      /\ Rising(queue) /\ Rising(run) /\ Rising(results)
  <2>1. Len(<< >>) = 0
    BY EmptySeq
  <2>2. 1 .. Len(<< >>) = {}
    BY <2>1
  <2> QED  BY <1>4, <2>2 DEF Members, Rising
<1>7. Typed
  <2>1. dialog \in Dialogs
    BY <1>4 DEF Dialogs
  <2>2. {serial, ticket, tickets} \subseteq Nat
    BY <1>4
  <2>3. reread \in BOOLEAN /\ changed \in BOOLEAN /\ early \in BOOLEAN
    BY <1>4, Zenon
  <2>4. {reread, changed, early} \subseteq BOOLEAN
    BY <2>3, Zenon
  <2> QED  BY <1>1, <1>2, <1>5, <2>1, <2>2, <2>4 DEF Typed, TypeOK
<1>8. InFlight = {}
  BY <1>6, <1>7, PipeParts
<1>9. SessionHolds /\ DialogHolds /\ ResultsBear /\ RunHolds /\ InOrder /\ TicketIsOwed /\ NewsComes
  BY <1>2, <1>3, <1>4, <1>6, <1>8
     DEF SessionHolds, DialogHolds, NoDialog, ResultsBear, RunHolds, InOrder, Before, Given,
         TicketIsOwed, NewsComes
<1> QED  BY <1>7, <1>9 DEF Inv

(* No step breaks the invariant. *)
LEMMA InvNext == Inv /\ [Next]_vars => Inv'
BY TypedNext, SessionHoldsNext, DialogHoldsNext, ResultsBearNext, PipeStep, OwedStep, NewsStep
   DEF Inv, Pipe

(* The invariant holds in every state. *)
LEMMA Invariance == Spec => []Inv
BY InvInit, InvNext, PTL DEF Spec

(* The session stays in good order and its list stays one that the file has had, *)
(* however late results land and whatever was reported before them               *)
(* (snapshotWriteLanded, finishSnapshotWrite).                                   *)
THEOREM SessionStaysSound == Spec => []SessionIsSound
<1>1. Inv => SessionIsSound
  BY WellFormedMeans DEF Inv, Typed, SessionHolds, SessionIsSound, Past
<1> QED  BY <1>1, Invariance, PTL

(* The snapshot actions are off only while the one structural write that the *)
(* session asked for is under way (structuralTicket).                        *)
THEOREM TicketStaysOwed == Spec => []TicketIsOwed
<1>1. Inv => TicketIsOwed
  BY DEF Inv
<1> QED  BY <1>1, Invariance, PTL

(* When nothing is under way and nothing is left to report, the window shows what *)
(* the file holds: every structural write that succeeds brings back its list.     *)
THEOREM NothingIsMissed == Spec => []NothingMissed
<1>1. Inv => NothingMissed
  <2> SUFFICES ASSUME Inv, Open, InFlight = {}, ~changed, ~early
               PROVE  /\ SameEntries(session.held, file.snapshots)
                      /\ session.held.revision = file.snapshots.revision
    BY DEF NothingMissed
  <2>1. Members(results) = {}
    BY PipeParts DEF Inv
  <2>2. session.held.revision = file.snapshots.revision
    BY <2>1 DEF Inv, NewsComes
  <2> QED  BY <2>2, StateParts DEF Past, IsPast
<1> QED  BY <1>1, Invariance, PTL

(* No result, report or save moves a session to an older list (adoptSnapshots). *)
THEOREM ListsGoForward == Spec => NeverBackwards
<1>1. Inv /\ [Next]_vars =>
        [Open /\ Open' /\ serial' = serial
            => session'.held.revision >= session.held.revision]_vars
  <2> SUFFICES ASSUME Inv, [Next]_vars, Open', serial' = serial
               PROVE  session'.held.revision >= session.held.revision
    OBVIOUS
  <2>1. serial \in Nat
    BY PipeParts DEF Inv
  <2>2. GoesOn
    BY <2>1, SessionStep DEF StartsAfresh
  <2> QED  BY <2>2 DEF GoesOn, Carried
<1> QED  BY <1>1, Invariance, PTL DEF Spec, NeverBackwards

(* The look becomes that of a snapshot that was not listed only when it is its look *)
(* (finishSnapshotWrite): a late result anchors nothing that was edited meanwhile.  *)
THEOREM AnchorsAreTrue == Spec => AnchorIsTrue
<1>1. Inv /\ [Next]_vars =>
        [/\ Open /\ Open' /\ serial' = serial
         /\ session'.now.base \notin Ids(session.held) \cup {NoId}
         => session'.held.entries[session'.now.base].recipe = session'.now.recipe]_vars
  <2> SUFFICES ASSUME Inv, [Next]_vars, Open', serial' = serial,
                      session'.now.base \notin Ids(session.held) \cup {NoId}
               PROVE  session'.held.entries[session'.now.base].recipe = session'.now.recipe
    OBVIOUS
  <2>1. serial \in Nat
    BY PipeParts DEF Inv
  <2>2. GoesOn
    BY <2>1, SessionStep DEF StartsAfresh
  <2> QED  BY <2>2 DEF GoesOn, Carried, Listed
<1> QED  BY <1>1, Invariance, PTL DEF Spec, AnchorIsTrue
=============================================================================
