-------------------------- MODULE SidecarFile_proofs --------------------------
(***************************************************************************)
(* The sidecar file, for any number of writers, crashes and requests.      *)
(*                                                                         *)
(*   - The lock file keeps writers apart, whatever the documents hold      *)
(*     (WritersKeptApart, PatchesAreCurrent).                              *)
(*   - The file holds a document in every state, whatever document it      *)
(*     started with (TypeCorrect).                                         *)
(*   - Started with documents in which no id is carried twice, nothing but *)
(*     a discard drops what cannot be read, and what is deleted is gone    *)
(*     (DamageStays, DeletedStaysAway).                                    *)
(*   - Started with regular documents, every replacement is one write of   *)
(*     the abstract store (RegularFilesAreTheStore).  A document is        *)
(*     regular when it carries no id twice, has no more nodes than the     *)
(*     limit, names no parent or base whose id is still to be given, and   *)
(*     has no cycle: an empty one is, and every write of the program keeps *)
(*     it so.                                                              *)
(***************************************************************************)
EXTENDS SidecarFile, Snapshots_proofs, SequenceTheorems

-----------------------------------------------------------------------------
(* The lock. *)
Places == {"idle", "locking", "locked", "patching", "replaced", "dead"}

(* The lock is what keeps the copies current, and the copies do not matter to *)
(* the lock: the two are inductive together, with where the writers may be.   *)
LockInv ==
    /\ pc \in [Writers -> Places]
    /\ DOMAIN copy = Writers
    /\ OneWriterInside
    /\ CopyIsCurrent

(* No process is inside at first. *)
LEMMA LockInit == Init => LockInv
BY DEF Init, LockInv, Places, OneWriterInside, CopyIsCurrent, Inside

(* A writer that goes idle, or that dies, takes itself out of the reckoning. *)
LEMMA LeavingKeeps ==
    ASSUME NEW w \in Writers, LockInv,
           disk' = disk,
           pc' \in {[pc EXCEPT ![w] = "idle"], [pc EXCEPT ![w] = "dead"]},
           copy' = [copy EXCEPT ![w] = NoCopy],
           lock' = lock \/ (w \in Inside /\ lock' = Nobody)
    PROVE  LockInv'
<1>1. pc' \in [Writers -> Places] /\ DOMAIN copy' = Writers
  BY DEF LockInv, Places
<1>2. \A v \in Writers : pc'[v] \notin {"idle", "dead"} =>
         v # w /\ pc'[v] = pc[v] /\ copy'[v] = copy[v]
  BY DEF LockInv
<1>3. OneWriterInside'
  <2> SUFFICES ASSUME NEW v \in Inside' PROVE lock' = v
    BY DEF OneWriterInside
  <2>1. v \in Inside /\ v # w
    BY <1>2 DEF Inside
  <2>2. lock = v
    BY <2>1 DEF LockInv, OneWriterInside
  <2>3. w \notin Inside
    BY <2>1, <2>2 DEF LockInv, OneWriterInside
  <2> QED  BY <2>2, <2>3
<1>4. CopyIsCurrent'
  BY <1>2 DEF LockInv, CopyIsCurrent
<1> QED  BY <1>1, <1>3, <1>4 DEF LockInv

(* No step lets a second one in. *)
LEMMA LockNext == LockInv /\ [Next]_vars => LockInv'
<1> SUFFICES ASSUME LockInv, [Next]_vars
             PROVE  LockInv'
  OBVIOUS
<1> USE DEF Places
<1>1. ASSUME NEW w \in Writers, Ask(w)
      PROVE  LockInv'
  BY <1>1 DEF Ask, LockInv, OneWriterInside, CopyIsCurrent, Inside
<1>2. ASSUME NEW w \in Writers, TakeLock(w)
      PROVE  LockInv'
  <2>1. Inside = {}
    BY <1>2, FileAssumption DEF TakeLock, LockInv, OneWriterInside, Inside
  <2>2. pc' = [pc EXCEPT ![w] = "locked"] /\ lock' = w /\ copy' = copy /\ disk' = disk
    BY <1>2 DEF TakeLock
  <2>3. OneWriterInside'
    BY <2>1, <2>2 DEF LockInv, OneWriterInside, Inside
  <2>4. CopyIsCurrent'
    BY <2>2 DEF LockInv, CopyIsCurrent
  <2> QED  BY <2>2, <2>3, <2>4 DEF LockInv
<1>3. ASSUME NEW w \in Writers, GiveUp(w)
      PROVE  LockInv'
  BY <1>3, LeavingKeeps DEF GiveUp, Finish
<1>4. ASSUME NEW w \in Writers, Reread(w)
      PROVE  LockInv'
  BY <1>4 DEF Reread, LockInv, OneWriterInside, CopyIsCurrent, Inside
<1>5. ASSUME NEW w \in Writers, Leave(w) \/ WriteFails(w) \/ Unlock(w)
      PROVE  LockInv'
  <2>1. /\ disk' = disk /\ lock' = Nobody /\ w \in Inside
        /\ pc' = [pc EXCEPT ![w] = "idle"]
        /\ copy' = [copy EXCEPT ![w] = NoCopy]
    BY <1>5 DEF Leave, WriteFails, Unlock, Finish, Inside
  <2> QED  BY <2>1, LeavingKeeps
<1>6. ASSUME NEW w \in Writers, Replace(w)
      PROVE  LockInv'
  <2>1. /\ pc[w] = "patching" /\ lock' = lock
        /\ pc' = [pc EXCEPT ![w] = "replaced"]
        /\ copy' = [copy EXCEPT ![w] = NoCopy]
    BY <1>6 DEF Replace
  <2>2. lock = w
    BY <2>1 DEF LockInv, OneWriterInside, Inside
  <2>3. OneWriterInside'
    BY <2>1, <2>2 DEF LockInv, OneWriterInside, Inside
  <2>4. \A v \in Writers : pc'[v] # "patching"
    BY <2>1, <2>2 DEF LockInv, OneWriterInside, Inside
  <2> QED  BY <2>1, <2>3, <2>4 DEF LockInv, CopyIsCurrent
<1>7. ASSUME NEW w \in Writers, Crash(w)
      PROVE  LockInv'
  BY <1>7, LeavingKeeps DEF Crash
<1>8. ASSUME NEW w \in Writers, Restart(w)
      PROVE  LockInv'
  BY <1>8, LeavingKeeps DEF Restart, Finish
<1>9. CASE UNCHANGED vars
  BY <1>9 DEF vars, LockInv, OneWriterInside, CopyIsCurrent, Inside
<1> QED  BY <1>1, <1>2, <1>3, <1>4, <1>5, <1>6, <1>7, <1>8, <1>9 DEF Next, Step

(* The lock is held as its file says, in every state. *)
LEMMA LockInvariance == Spec => []LockInv
<1> QED  BY LockInit, LockNext, PTL DEF Spec

(* However writers wait, give up, fail, die and break the locks of the dead, no *)
(* two of them are ever between lock and unlock (SidecarLock).                  *)
THEOREM WritersKeptApart == Spec => []OneWriterInside
<1>1. LockInv => OneWriterInside
  BY DEF LockInv
<1> QED  BY <1>1, LockInvariance, PTL

(* So a writer always patches the document that the file holds (updateSidecar). *)
THEOREM PatchesAreCurrent == Spec => []CopyIsCurrent
<1>1. LockInv => CopyIsCurrent
  BY DEF LockInv
<1> QED  BY <1>1, LockInvariance, PTL

-----------------------------------------------------------------------------
(* Recursive definitions, maxima and floors. *)

(* What holds at first, and at each number if at the one before, holds of all. *)
LEMMA UpTo ==
    ASSUME NEW N \in Nat, NEW P, 0 \in P, \A n \in 1 .. N : n - 1 \in P => n \in P
    PROVE  \A n \in 0 .. N : n \in P
<1> DEFINE Q == {n \in Nat : n <= N => n \in P}
<1>1. 0 \in Q
  OBVIOUS
<1>2. ASSUME NEW n \in Q PROVE n + 1 \in Q
  <2> SUFFICES ASSUME n + 1 <= N PROVE n + 1 \in P
    OBVIOUS
  <2>1. n + 1 \in 1 .. N /\ n + 1 - 1 = n
    OBVIOUS
  <2> QED  BY <2>1
<1>3. Q \subseteq Nat
  OBVIOUS
<1> HIDE DEF Q
<1>4. Q = Nat
  BY <1>1, <1>2, <1>3, AllOfNat
<1> QED  BY <1>4 DEF Q

(* A function is defined by its first value and the step from each value to the next, *)
(* where the steps stay within a set.                                                 *)
Recurs(base, Advance, N, F) ==
    F = [n \in 0 .. N |-> IF n = 0 THEN base ELSE Advance[n][F[n - 1]]]

(* A recursion over the first numbers has a solution, and its steps hold of it. *)
LEMMA RecursionExists ==
    ASSUME NEW S, NEW base \in S, NEW N \in Nat, NEW Advance \in [1 .. N -> [S -> S]]
    PROVE  \E F \in [0 .. N -> S] : Recurs(base, Advance, N, F)
<1> DEFINE P == {m \in 0 .. N : \E F \in [0 .. m -> S] : Recurs(base, Advance, m, F)}
<1>1. 0 \in P
  <2> DEFINE F == [n \in 0 .. 0 |-> base]
  <2>1. F = [n \in 0 .. 0 |-> IF n = 0 THEN base ELSE Advance[n][F[n - 1]]]
    OBVIOUS
  <2>2. F \in [0 .. 0 -> S]
    OBVIOUS
  <2> HIDE DEF F
  <2>3. Recurs(base, Advance, 0, F)
    BY <2>1 DEF Recurs
  <2> QED  BY <2>2, <2>3
<1>2. ASSUME NEW m \in 1 .. N, m - 1 \in P
      PROVE  m \in P
  <2>1. PICK F \in [0 .. m - 1 -> S] : Recurs(base, Advance, m - 1, F)
    BY <1>2
  <2> DEFINE G == [n \in 0 .. m |-> IF n = m THEN Advance[m][F[m - 1]] ELSE F[n]]
  <2>2. /\ \A n \in 0 .. m - 1 : G[n] = F[n]
        /\ G[m] = Advance[m][F[m - 1]]
        /\ G = [n \in 0 .. m |-> G[n]]
    OBVIOUS
  <2>3. G \in [0 .. m -> S]
    OBVIOUS
  <2>4. \A n \in 0 .. m - 1 : F[n] = IF n = 0 THEN base ELSE Advance[n][F[n - 1]]
    BY <2>1 DEF Recurs
  <2> HIDE DEF G
  <2>5. \A n \in 0 .. m : G[n] = IF n = 0 THEN base ELSE Advance[n][G[n - 1]]
    <3> SUFFICES ASSUME NEW n \in 0 .. m
                 PROVE  G[n] = IF n = 0 THEN base ELSE Advance[n][G[n - 1]]
      OBVIOUS
    <3>1. n # 0 => n - 1 \in 0 .. m - 1
      OBVIOUS
    <3>2. n # 0 => G[n - 1] = F[n - 1]
      BY <3>1, <2>2
    <3>3. CASE n = m
      BY <3>2, <3>3, <2>2
    <3>4. CASE n # m
      <4>1. n \in 0 .. m - 1
        BY <3>4
      <4> QED  BY <4>1, <3>2, <2>2, <2>4
    <3> QED  BY <3>3, <3>4
  <2>6. Recurs(base, Advance, m, G)
    BY <2>2, <2>5 DEF Recurs
  <2> QED  BY <2>3, <2>6
<1> HIDE DEF P
<1>3. \A m \in 0 .. N : m \in P
  BY <1>1, <1>2, UpTo
<1>4. N \in P
  BY <1>3
<1> QED  BY <1>4 DEF P

(* The highest of some numbers, and the floor above some ids: the lowest counter that *)
(* no id passes, or the largest id of all.                                            *)
LEMMA MaxIs ==
    ASSUME NEW N \in Nat, NEW S \in SUBSET (0 .. N), S # {}
    PROVE  /\ Max(S) \in S
           /\ \A n \in S : n <= Max(S)
<1> DEFINE P == {k \in Nat : \A T \in SUBSET (0 .. k) :
                                T # {} => \E m \in T : \A other \in T : m >= other}
<1>1. 0 \in P
  <2> SUFFICES ASSUME NEW T \in SUBSET (0 .. 0), T # {}
               PROVE  \E m \in T : \A other \in T : m >= other
    OBVIOUS
  <2>1. \A other \in T : other = 0
    OBVIOUS
  <2>2. PICK m \in T : TRUE
    OBVIOUS
  <2> QED  BY <2>1, <2>2
<1>2. ASSUME NEW k \in P
      PROVE  k + 1 \in P
  <2> SUFFICES ASSUME NEW T \in SUBSET (0 .. k + 1), T # {}
               PROVE  \E m \in T : \A other \in T : m >= other
    OBVIOUS
  <2>1. CASE k + 1 \in T
    BY <2>1
  <2>2. CASE k + 1 \notin T
    <3>1. T \in SUBSET (0 .. k)
      BY <2>2
    <3> QED  BY <3>1
  <2> QED  BY <2>1, <2>2
<1>3. P \subseteq Nat
  OBVIOUS
<1> HIDE DEF P
<1>4. P = Nat
  BY <1>1, <1>2, <1>3, AllOfNat
<1>5. N \in P
  BY <1>4
<1>6. PICK m \in S : \A other \in S : m >= other
  BY <1>5 DEF P
<1>7. Max(S) \in S /\ \A other \in S : Max(S) >= other
  BY <1>6 DEF Max
<1>8. \A other \in S : other \in Int
  OBVIOUS
<1> HIDE DEF Max
<1> QED  BY <1>7, <1>8

Above(ids, n) == \A id \in ids : id < n \/ n = MaximumId

(* The floor is the least number above all of them, or the largest there is. *)
LEMMA FloorIs ==
    ASSUME NEW ids \in SUBSET RawId
    PROVE  /\ FloorAbove(ids) \in 1 .. MaximumId
           /\ Above(ids, FloorAbove(ids))
           /\ \A n \in 1 .. MaximumId : Above(ids, n) => FloorAbove(ids) <= n
<1> DEFINE all == ids \cup {0}
           highest == Max(all)
<1>1. MaximumId \in Nat /\ MaximumId >= 1
  BY SnapshotsAssumption
<1>2. all \in SUBSET (0 .. MaximumId) /\ all # {}
  BY <1>1 DEF RawId
<1>3. highest \in all /\ \A n \in all : n <= highest
  <2> HIDE DEF all
  <2> QED  BY <1>1, <1>2, MaxIs
<1>4. FloorAbove(ids) = IF highest = MaximumId THEN MaximumId ELSE highest + 1
  BY DEF FloorAbove
<1> HIDE DEF highest
<1>5. highest \in 0 .. MaximumId /\ (highest \in ids \/ highest = 0)
  BY <1>2, <1>3
<1>6. FloorAbove(ids) \in 1 .. MaximumId
  BY <1>1, <1>4, <1>5
<1>7. Above(ids, FloorAbove(ids))
  <2> SUFFICES ASSUME NEW id \in ids
               PROVE  id < FloorAbove(ids) \/ FloorAbove(ids) = MaximumId
    BY DEF Above
  <2>1. id <= highest /\ id \in Int
    BY <1>2, <1>3
  <2> QED  BY <1>1, <1>4, <1>5, <2>1
<1>8. ASSUME NEW n \in 1 .. MaximumId, Above(ids, n)
      PROVE  FloorAbove(ids) <= n
  BY <1>1, <1>4, <1>5, <1>8 DEF Above
<1> QED  BY <1>6, <1>7, <1>8

-----------------------------------------------------------------------------
(* Which nodes are listed. *)

(* A node that can be listed by itself, and what a node adds to those kept before it. *)
CanList(node) == node.readable /\ node.id \in SnapshotId

Keep(nodes, n, K) ==
    IF /\ Cardinality(K) < MaximumSnapshots
       /\ CanList(nodes[n])
       /\ \A k \in K : nodes[k].id # nodes[n].id
    THEN K \cup {n} ELSE K

(* The reader goes through the nodes in their order. *)
LEMMA KeptInOrder ==
    ASSUME NEW nodes \in Seq(Node)
    PROVE  \E F : /\ UsableNodes(nodes) = F[Len(nodes)]
                  /\ F[0] = {}
                  /\ \A n \in 1 .. Len(nodes) : F[n] = Keep(nodes, n, F[n - 1])
<1> DEFINE N == Len(nodes)
           S == SUBSET (1 .. N)
           Go == [n \in 1 .. N |-> [K \in S |-> Keep(nodes, n, K)]]
           Defines(F) == F = [n \in 0 .. N |-> IF n = 0 THEN {} ELSE Keep(nodes, n, F[n - 1])]
           G == CHOOSE F : Defines(F)
<1>1. N \in Nat
  OBVIOUS
<1>2. Go \in [1 .. N -> [S -> S]]
  <2>1. \A n \in 1 .. N, K \in S : Keep(nodes, n, K) \in S
    BY DEF Keep
  <2> QED  BY <2>1
<1>3. \A n \in 1 .. N, K \in S : Go[n][K] = Keep(nodes, n, K)
  OBVIOUS
<1> HIDE DEF Go
<1>4. PICK F \in [0 .. N -> S] : Recurs({}, Go, N, F)
  <2> HIDE DEF N
  <2>1. {} \in S
    OBVIOUS
  <2> HIDE DEF S
  <2> QED  BY <1>1, <1>2, <2>1, RecursionExists
<1>5. Defines(F)
  <2>1. \A n \in 0 .. N : n # 0 => n \in 1 .. N /\ n - 1 \in 0 .. N
    OBVIOUS
  <2>2. \A n \in 0 .. N : n # 0 => Go[n][F[n - 1]] = Keep(nodes, n, F[n - 1])
    BY <2>1, <1>3
  <2> HIDE DEF N, S
  <2>3. \A n \in 0 .. N : (IF n = 0 THEN {} ELSE Go[n][F[n - 1]])
                            = (IF n = 0 THEN {} ELSE Keep(nodes, n, F[n - 1]))
    BY <2>2
  <2> QED  BY <1>4, <2>3 DEF Recurs
<1>6. Defines(G)
  <2> HIDE DEF Defines
  <2> QED  BY <1>5
<1>7. UsableNodes(nodes) = G[N]
  BY DEF UsableNodes, Keep, CanList
<1>8. G[0] = {} /\ \A n \in 1 .. N : G[n] = Keep(nodes, n, G[n - 1])
  <2>1. \A n \in 0 .. N : G[n] = IF n = 0 THEN {} ELSE Keep(nodes, n, G[n - 1])
    <3> HIDE DEF G
    <3> QED  BY <1>6
  <2> HIDE DEF G
  <2> QED  BY <2>1, <1>1
<1> QED  BY <1>7, <1>8

(* The nodes listed can be, and no two have one id; if the list is within its limit *)
(* and no two nodes that can be listed have one id, they all are.                   *)
LEMMA UsableAre ==
    ASSUME NEW nodes \in Seq(Node)
    PROVE  /\ UsableNodes(nodes) \subseteq {k \in 1 .. Len(nodes) : CanList(nodes[k])}
           /\ \A j, k \in UsableNodes(nodes) : nodes[j].id = nodes[k].id => j = k
           /\ (/\ Len(nodes) <= MaximumSnapshots
               /\ \A j, k \in 1 .. Len(nodes) :
                     CanList(nodes[j]) /\ CanList(nodes[k]) /\ nodes[j].id = nodes[k].id => j = k)
              => UsableNodes(nodes) = {k \in 1 .. Len(nodes) : CanList(nodes[k])}
<1> DEFINE N == Len(nodes)
<1>1. N \in Nat
  OBVIOUS
<1>2. PICK F : /\ UsableNodes(nodes) = F[N]
               /\ F[0] = {}
               /\ \A n \in 1 .. N : F[n] = Keep(nodes, n, F[n - 1])
  BY KeptInOrder
<1> HIDE DEF N
<1> DEFINE P == {n \in 0 .. N : /\ F[n] \subseteq {k \in 1 .. n : CanList(nodes[k])}
                                /\ \A j, k \in F[n] : nodes[j].id = nodes[k].id => j = k}
<1>3. \A n \in 0 .. N : n \in P
  <2>1. 0 \in P
    BY <1>1, <1>2
  <2>2. ASSUME NEW n \in 1 .. N, n - 1 \in P
        PROVE  n \in P
    <3>1. F[n] = Keep(nodes, n, F[n - 1])
      BY <1>2
    <3>2. /\ F[n - 1] \subseteq {k \in 1 .. n - 1 : CanList(nodes[k])}
          /\ \A j, k \in F[n - 1] : nodes[j].id = nodes[k].id => j = k
      BY <2>2
    <3>3. CASE F[n] = F[n - 1]
      BY <3>2, <3>3, <1>1
    <3>4. CASE F[n] # F[n - 1]
      <4>1. /\ F[n] = F[n - 1] \cup {n} /\ CanList(nodes[n])
            /\ \A k \in F[n - 1] : nodes[k].id # nodes[n].id
        BY <3>1, <3>4 DEF Keep
      <4>2. F[n] \subseteq {k \in 1 .. n : CanList(nodes[k])}
        BY <4>1, <3>2, <1>1
      <4>3. \A j, k \in F[n] : nodes[j].id = nodes[k].id => j = k
        BY <4>1, <3>2
      <4> QED  BY <4>2, <4>3, <1>1
    <3> QED  BY <3>3, <3>4
  <2> HIDE DEF P
  <2> QED  BY <1>1, <2>1, <2>2, UpTo
<1>4. N \in 0 .. N
  BY <1>1
<1>5. ASSUME N <= MaximumSnapshots,
             \A j, k \in 1 .. N :
                CanList(nodes[j]) /\ CanList(nodes[k]) /\ nodes[j].id = nodes[k].id => j = k
      PROVE  F[N] = {k \in 1 .. N : CanList(nodes[k])}
  <2> DEFINE Q == {n \in 0 .. N : F[n] = {k \in 1 .. n : CanList(nodes[k])}}
  <2>1. 0 \in Q
    BY <1>1, <1>2
  <2>2. ASSUME NEW n \in 1 .. N, n - 1 \in Q
        PROVE  n \in Q
    <3>1. F[n] = Keep(nodes, n, F[n - 1])
      BY <1>2
    <3>2. F[n - 1] = {k \in 1 .. n - 1 : CanList(nodes[k])} /\ n - 1 \in 0 .. N /\ n \in Int
      BY <2>2, <1>1
    <3>3. Cardinality(F[n - 1]) < MaximumSnapshots
      <4>1. IsFiniteSet(1 .. n - 1) /\ Cardinality(1 .. n - 1) = n - 1
        BY <3>2, FS_Interval
      <4>2. F[n - 1] \in SUBSET (1 .. n - 1)
        BY <3>2
      <4>3. Cardinality(F[n - 1]) \in Nat /\ Cardinality(F[n - 1]) <= n - 1
        BY <4>1, <4>2, FS_Subset, FS_CardinalityType
      <4> QED  BY <4>3, <3>2, <1>5, <1>1, SnapshotsAssumption
    <3>4. CanList(nodes[n]) => \A k \in F[n - 1] : nodes[k].id # nodes[n].id
      BY <3>2, <1>5, <1>1
    <3>5. F[n] = IF CanList(nodes[n]) THEN F[n - 1] \cup {n} ELSE F[n - 1]
      BY <3>1, <3>3, <3>4 DEF Keep
    <3>6. F[n] = {k \in 1 .. n : CanList(nodes[k])}
      <4>1. 1 .. n = (1 .. n - 1) \cup {n}
        BY <3>2
      <4> QED  BY <4>1, <3>2, <3>5
    <3> QED  BY <3>6, <1>1
  <2> HIDE DEF Q
  <2>3. \A n \in 0 .. N : n \in Q
    BY <1>1, <2>1, <2>2, UpTo
  <2> QED  BY <2>3, <1>4 DEF Q
<1> QED  BY <1>2, <1>3, <1>4, <1>5 DEF N

(* What a reading lists, and which node an id is listed by. *)
LEMMA ListedAre ==
    ASSUME NEW doc \in Document
    PROVE  /\ ListedNodes(doc) \subseteq {k \in 1 .. Len(doc.nodes) : CanList(doc.nodes[k])}
           /\ ListedIds(doc) \subseteq SnapshotId
           /\ \A k \in ListedNodes(doc) : /\ doc.nodes[k].id \in ListedIds(doc)
                                          /\ NodeAt(doc, doc.nodes[k].id) = k
           /\ \A id \in ListedIds(doc) : /\ NodeAt(doc, id) \in ListedNodes(doc)
                                         /\ doc.nodes[NodeAt(doc, id)].id = id
<1>1. doc.nodes \in Seq(Node)
  BY DEF Document
<1>2. /\ ListedNodes(doc) \subseteq {k \in 1 .. Len(doc.nodes) : CanList(doc.nodes[k])}
      /\ \A j, k \in ListedNodes(doc) : doc.nodes[j].id = doc.nodes[k].id => j = k
  BY <1>1, UsableAre DEF ListedNodes
<1>3. ListedIds(doc) \subseteq SnapshotId
  BY <1>2 DEF ListedIds, CanList
<1>4. ASSUME NEW id \in ListedIds(doc)
      PROVE  NodeAt(doc, id) \in ListedNodes(doc) /\ doc.nodes[NodeAt(doc, id)].id = id
  <2>1. \E k \in ListedNodes(doc) : doc.nodes[k].id = id
    BY DEF ListedIds
  <2> QED  BY <2>1 DEF NodeAt
<1>5. ASSUME NEW k \in ListedNodes(doc)
      PROVE  doc.nodes[k].id \in ListedIds(doc) /\ NodeAt(doc, doc.nodes[k].id) = k
  <2>1. doc.nodes[k].id \in ListedIds(doc)
    BY DEF ListedIds
  <2> QED  BY <2>1, <1>2, <1>4
<1> QED  BY <1>2, <1>3, <1>4, <1>5

(* A parent that a node names is listed, or there is none. *)
LEMMA NamedIsListed ==
    ASSUME NEW doc, NEW k
    PROVE  /\ NamedParent(doc, k) \in ListedIds(doc) \cup {NoId}
           /\ NamedParent(doc, k) = doc.nodes[k].id => NamedParent(doc, k) = NoId
BY DEF NamedParent

-----------------------------------------------------------------------------
(* Parents, and the cycles that are cut. *)

(* No snapshot is among its own ancestors. *)
NoCycle(parent) ==
    \A S \in SUBSET (DOMAIN parent) : S # {} => \E id \in S : parent[id] \notin S

(* Where no cycle is, none is cut: the walk behind a node stays behind it. *)
LEMMA NothingToCut ==
    ASSUME NEW L, IsFiniteSet(L), NEW parent \in [L -> L \cup {NoId}], NoCycle(parent),
           NEW start \in L
    PROVE  Cut(parent, start) = parent
<1> DEFINE W == {w \in [seen : SUBSET L, at : L] :
                    /\ w.at \in w.seen
                    /\ \A id \in w.seen : id = w.at \/ parent[id] \in w.seen}
           first == [seen |-> {start}, at |-> start]
           steps == Cardinality(DOMAIN parent)
           Go == [n \in 1 .. steps |-> [w \in W |-> Climbed(parent, w)]]
           Defines(F) ==
               F = [n \in 0 .. steps |-> IF n = 0 THEN first ELSE Climbed(parent, F[n - 1])]
           G == CHOOSE F : Defines(F)
<1>1. steps \in Nat
  BY FS_CardinalityType
<1>2. first \in W
  OBVIOUS
<1>3. ASSUME NEW w \in W PROVE Climbed(parent, w) \in W
  <2>1. w.at \in L /\ parent[w.at] \in L \cup {NoId}
    OBVIOUS
  <2>2. CASE parent[w.at] \in w.seen \cup {NoId}
    BY <2>2 DEF Climbed
  <2>3. CASE parent[w.at] \notin w.seen \cup {NoId}
    <3> DEFINE next == [seen |-> w.seen \cup {parent[w.at]}, at |-> parent[w.at]]
    <3>1. Climbed(parent, w) = next
      BY <2>3 DEF Climbed
    <3>2. next \in [seen : SUBSET L, at : L] /\ next.at \in next.seen
      BY <2>1, <2>3
    <3>3. \A id \in next.seen : id = next.at \/ parent[id] \in next.seen
      OBVIOUS
    <3> QED  BY <3>1, <3>2, <3>3
  <2> QED  BY <2>2, <2>3
<1>4. Go \in [1 .. steps -> [W -> W]]
  <2> HIDE DEF W, steps
  <2> QED  BY <1>3
<1>5. \A n \in 1 .. steps, w \in W : Go[n][w] = Climbed(parent, w)
  OBVIOUS
<1> HIDE DEF Go, W, first, steps
<1>6. PICK F \in [0 .. steps -> W] : Recurs(first, Go, steps, F)
  BY <1>1, <1>2, <1>4, RecursionExists
<1>7. Defines(F)
  <2>1. \A n \in 0 .. steps : n # 0 => n \in 1 .. steps /\ n - 1 \in 0 .. steps
    BY <1>1
  <2>2. \A n \in 0 .. steps : n # 0 => Go[n][F[n - 1]] = Climbed(parent, F[n - 1])
    BY <2>1, <1>5
  <2>3. \A n \in 0 .. steps : (IF n = 0 THEN first ELSE Go[n][F[n - 1]])
                            = (IF n = 0 THEN first ELSE Climbed(parent, F[n - 1]))
    BY <2>2
  <2> QED  BY <1>6, <2>3 DEF Recurs
<1>8. Defines(G)
  <2> HIDE DEF Defines
  <2> QED  BY <1>7
<1>9. \A n \in 0 .. steps : G[n] = IF n = 0 THEN first ELSE Climbed(parent, G[n - 1])
  <2> HIDE DEF G
  <2> QED  BY <1>8
<1>10. Climb(parent, start) = G[steps]
  BY DEF Climb, first, steps
<1> HIDE DEF G
<1>11. \A n \in 0 .. steps : n \in {m \in 0 .. steps : G[m] \in W}
  <2> DEFINE P == {m \in 0 .. steps : G[m] \in W}
  <2>1. 0 \in P
    BY <1>1, <1>2, <1>9
  <2>2. ASSUME NEW n \in 1 .. steps, n - 1 \in P PROVE n \in P
    BY <2>2, <1>1, <1>3, <1>9
  <2> HIDE DEF P
  <2>3. \A n \in 0 .. steps : n \in P
    BY <1>1, <2>1, <2>2, UpTo
  <2> QED  BY <2>3 DEF P
<1>12. Climb(parent, start) \in W
  BY <1>1, <1>10, <1>11
<1>13. PICK w \in W : w = Climb(parent, start)
  BY <1>12
<1>14. parent[w.at] \notin w.seen
  <2> SUFFICES ASSUME parent[w.at] \in w.seen PROVE FALSE
    OBVIOUS
  <2>1. w.seen \in SUBSET (DOMAIN parent) /\ w.seen # {}
    BY DEF W
  <2>2. \A id \in w.seen : parent[id] \in w.seen
    BY DEF W
  <2> QED  BY <2>1, <2>2 DEF NoCycle
<1> QED  BY <1>13, <1>14 DEF Cut

(* What every cut keeps, all of them keep. *)
LEMMA CutsStay ==
    ASSUME NEW S, NEW parent \in S, NEW order \in Seq(MaybeId),
           \A p \in S, n \in 1 .. Len(order) : order[n] = NoId \/ Cut(p, order[n]) \in S
    PROVE  CutCycles(parent, order) \in S
<1> DEFINE N == Len(order)
           Onward(n, p) == IF order[n] = NoId THEN p ELSE Cut(p, order[n])
           Go == [n \in 1 .. N |-> [p \in S |-> Onward(n, p)]]
           Defines(F) == F = [n \in 0 .. N |-> IF n = 0 THEN parent ELSE Onward(n, F[n - 1])]
           G == CHOOSE F : Defines(F)
<1>1. N \in Nat
  OBVIOUS
<1>2. \A n \in 1 .. N, p \in S : Onward(n, p) \in S
  OBVIOUS
<1>3. CutCycles(parent, order) = G[N]
  BY DEF CutCycles
<1> HIDE DEF Onward, N
<1>4. Go \in [1 .. N -> [S -> S]]
  BY <1>2
<1>5. \A n \in 1 .. N, p \in S : Go[n][p] = Onward(n, p)
  OBVIOUS
<1> HIDE DEF Go
<1>6. PICK F \in [0 .. N -> S] : Recurs(parent, Go, N, F)
  BY <1>1, <1>4, RecursionExists
<1>7. Defines(F)
  <2>1. \A n \in 0 .. N : n # 0 => n \in 1 .. N /\ n - 1 \in 0 .. N
    BY <1>1
  <2>2. \A n \in 0 .. N : n # 0 => Go[n][F[n - 1]] = Onward(n, F[n - 1])
    BY <2>1, <1>5
  <2>3. \A n \in 0 .. N : (IF n = 0 THEN parent ELSE Go[n][F[n - 1]])
                            = (IF n = 0 THEN parent ELSE Onward(n, F[n - 1]))
    BY <2>2
  <2> QED  BY <1>6, <2>3 DEF Recurs
<1>8. Defines(G)
  <2> HIDE DEF Defines
  <2> QED  BY <1>7
<1>9. \A n \in 0 .. N : G[n] = IF n = 0 THEN parent ELSE Onward(n, G[n - 1])
  <2> HIDE DEF G
  <2> QED  BY <1>8
<1> HIDE DEF G
<1> DEFINE P == {m \in 0 .. N : G[m] \in S}
<1>10. 0 \in P
  BY <1>1, <1>9
<1>11. ASSUME NEW n \in 1 .. N, n - 1 \in P PROVE n \in P
  BY <1>11, <1>1, <1>2, <1>9
<1> HIDE DEF P
<1>12. \A n \in 0 .. N : n \in P
  BY <1>1, <1>10, <1>11, UpTo
<1>13. N \in P
  BY <1>1, <1>12
<1> QED  BY <1>3, <1>13 DEF P

(* The order of the entries, with nothing for the nodes that are not listed. *)
Order(doc) ==
    [k \in 1 .. Len(doc.nodes) |-> IF k \in ListedNodes(doc) THEN doc.nodes[k].id ELSE NoId]

NamedParents(doc) == [id \in ListedIds(doc) |-> NamedParent(doc, NodeAt(doc, id))]

(* The order of the walks is a sequence of listed ids and gaps. *)
LEMMA OrderIs ==
    ASSUME NEW doc \in Document
    PROVE  /\ Order(doc) \in Seq(MaybeId)
           /\ Len(Order(doc)) = Len(doc.nodes)
           /\ \A n \in 1 .. Len(doc.nodes) : Order(doc)[n] \in ListedIds(doc) \cup {NoId}
<1>1. doc.nodes \in Seq(Node) /\ Len(doc.nodes) \in Nat
  BY DEF Document
<1>2. \A n \in 1 .. Len(doc.nodes) : Order(doc)[n] \in ListedIds(doc) \cup {NoId}
  BY ListedAre DEF Order
<1>3. ListedIds(doc) \cup {NoId} \subseteq MaybeId
  BY ListedAre DEF MaybeId
<1>4. Order(doc) \in [1 .. Len(doc.nodes) -> MaybeId]
  BY <1>2, <1>3 DEF Order
<1> QED  BY <1>1, <1>2, <1>4

(* The parents a reading gives are listed ones, or none. *)
LEMMA ReadParentsType ==
    ASSUME NEW doc \in Document
    PROVE  ReadParents(doc) \in [ListedIds(doc) -> ListedIds(doc) \cup {NoId}]
<1> DEFINE S == [ListedIds(doc) -> ListedIds(doc) \cup {NoId}]
<1>1. NamedParents(doc) \in S
  BY NamedIsListed DEF NamedParents
<1>2. \A p \in S, start \in MaybeId : Cut(p, start) \in S
  BY DEF Cut
<1>3. ReadParents(doc) = CutCycles(NamedParents(doc), Order(doc))
  BY DEF ReadParents, NamedParents, Order
<1>4. \A p \in S, n \in 1 .. Len(Order(doc)) :
         Order(doc)[n] = NoId \/ Cut(p, Order(doc)[n]) \in S
  BY <1>2, OrderIs
<1> HIDE DEF S
<1>5. CutCycles(NamedParents(doc), Order(doc)) \in S
  BY <1>1, <1>4, OrderIs, CutsStay
<1> QED  BY <1>3, <1>5 DEF S

(* In a document without cycles they are those the nodes name. *)
LEMMA ReadParentsAre ==
    ASSUME NEW doc \in Document, NoCycle(NamedParents(doc))
    PROVE  ReadParents(doc) = NamedParents(doc)
<1> DEFINE L == ListedIds(doc)
           named == NamedParents(doc)
<1>1. named \in [L -> L \cup {NoId}]
  BY NamedIsListed DEF NamedParents
<1>2. IsFiniteSet(L)
  <2>1. IsFiniteSet(SnapshotId)
    <3>1. 1 \in Int /\ MaximumId - 1 \in Int
      BY SnapshotsAssumption
    <3> QED  BY <3>1, FS_Interval DEF SnapshotId
  <2> QED  BY <2>1, ListedAre, FS_Subset
<1>3. ReadParents(doc) = CutCycles(named, Order(doc))
  BY DEF ReadParents, NamedParents, Order
<1>4. \A n \in 1 .. Len(Order(doc)) : Order(doc)[n] \in L \cup {NoId}
  BY OrderIs
<1> HIDE DEF L, named
<1>5. \A start \in L : Cut(named, start) = named
  BY <1>1, <1>2, NothingToCut DEF named
<1>6. \A p \in {named}, n \in 1 .. Len(Order(doc)) :
         Order(doc)[n] = NoId \/ Cut(p, Order(doc)[n]) \in {named}
  BY <1>4, <1>5
<1>7. CutCycles(named, Order(doc)) \in {named}
  BY <1>6, OrderIs, CutsStay
<1> QED  BY <1>3, <1>7 DEF named

-----------------------------------------------------------------------------
(* The counter, the requests, and the shape of what is written. *)

(* The counter a reading gives, and the ids that hold it up. *)
Counter(doc) == ReadCollection(doc).nextId

SeenIds(doc) == IF doc.usable THEN RawIds(doc.nodes) ELSE {}

(* The ids a list carries, of nodes used or not, are raw ids. *)
LEMMA RawIdsType ==
    ASSUME NEW doc \in Document
    PROVE  RawIds(doc.nodes) \in SUBSET RawId /\ SeenIds(doc) \in SUBSET RawId
<1>1. \A k \in 1 .. Len(doc.nodes) : doc.nodes[k] \in Node
  BY ElementOfSeq DEF Document
<1>2. RawIds(doc.nodes) \in SUBSET RawId
  BY <1>1 DEF RawIds, Node
<1> QED  BY <1>2 DEF SeenIds

(* It is the lowest that lies at or above the one written and above every id seen. *)
LEMMA CounterIs ==
    ASSUME NEW doc \in Document
    PROVE  /\ Counter(doc) \in 1 .. MaximumId
           /\ doc.nextId <= Counter(doc)
           /\ Above(SeenIds(doc), Counter(doc))
           /\ \A n \in 1 .. MaximumId :
                 doc.nextId <= n /\ Above(SeenIds(doc), n) => Counter(doc) <= n
<1> DEFINE seen == SeenIds(doc)
           floor == FloorAbove(seen)
<1>1. /\ floor \in 1 .. MaximumId /\ Above(seen, floor)
      /\ \A n \in 1 .. MaximumId : Above(seen, n) => floor <= n
  BY RawIdsType, FloorIs
<1>2. doc.nextId \in 0 .. MaximumId /\ MaximumId \in Nat /\ MaximumId >= 1
  BY SnapshotsAssumption DEF Document, RawId
<1>3. Counter(doc) = AtLeast(AtLeast(doc.nextId, 1), floor)
  BY DEF Counter, ReadCollection, SeenIds
<1>4. \A id \in seen : id \in Int
  BY RawIdsType DEF RawId
<1> HIDE DEF floor, seen
<1>5. Counter(doc) \in 1 .. MaximumId /\ doc.nextId <= Counter(doc) /\ floor <= Counter(doc)
  BY <1>1, <1>2, <1>3 DEF AtLeast
<1>6. Above(seen, Counter(doc))
  BY <1>1, <1>2, <1>4, <1>5 DEF Above
<1>7. ASSUME NEW n \in 1 .. MaximumId, doc.nextId <= n, Above(seen, n)
      PROVE  Counter(doc) <= n
  BY <1>1, <1>2, <1>3, <1>7 DEF AtLeast
<1> QED  BY <1>5, <1>6, <1>7 DEF seen

(* The requests a writer may carry, whatever list its caller has read. *)
Request ==
    [op : {"add"}, parent : MaybeId, expected : Nat]
    \cup [op : {"rename", "delete"}, id : SnapshotId, expected : Nat]
    \cup [op : {"discard"}, expected : Nat]
    \cup [op : {"thumbnails"}, ids : SUBSET SnapshotId]
    \cup [op : {"activeAndBase"}, base : MaybeId]
    \cup [op : {"active", "marks"}]

(* What is asked of contents is a request, at the revision of their list. *)
LEMMA RequestsType ==
    ASSUME NEW contents, contents.snapshots.revision \in Nat,
           NEW req \in Requests(contents)
    PROVE  /\ req \in Request
           /\ Structural(req.op) => req.expected = contents.snapshots.revision
<1> DEFINE L == Ids(contents.snapshots)
           r == contents.snapshots.revision
<1>1. L \subseteq SnapshotId /\ L \cup {NoId} \subseteq MaybeId
  BY DEF Ids, MaybeId
<1>2. req \in [op : {"add"}, parent : L \cup {NoId}, expected : {r}]
        \cup [op : {"rename", "delete"}, id : L, expected : {r}]
        \cup [op : {"discard"}, expected : {r}]
        \cup [op : {"thumbnails"}, ids : SUBSET L \ {{}}]
        \cup [op : {"activeAndBase"}, base : L \cup {NoId}]
        \cup [op : {"active", "marks"}]
  BY DEF Requests
<1> HIDE DEF L, r
<1>3. r \in Nat
  BY DEF r
<1>4. CASE req \in [op : {"add"}, parent : L \cup {NoId}, expected : {r}]
  BY <1>1, <1>3, <1>4 DEF Request, r
<1>5. CASE req \in [op : {"rename", "delete"}, id : L, expected : {r}]
  BY <1>1, <1>3, <1>5 DEF Request, r
<1>6. CASE req \in [op : {"discard"}, expected : {r}]
  BY <1>3, <1>6 DEF Request, r
<1>7. CASE req \in [op : {"thumbnails"}, ids : SUBSET L \ {{}}]
  BY <1>1, <1>7 DEF Request, Structural
<1>8. CASE req \in [op : {"activeAndBase"}, base : L \cup {NoId}]
  BY <1>1, <1>8 DEF Request, Structural
<1>9. CASE req \in [op : {"active", "marks"}]
  BY <1>9 DEF Request, Structural
<1> QED  BY <1>2, <1>4, <1>5, <1>6, <1>7, <1>8, <1>9

(* Each writer leaves a document of the same kind.  A structural edit: *)
Rewritten(doc, nodes, base, usable, nextId) ==
    [doc EXCEPT !.nodes = nodes, !.base = base, !.usable = usable,
                !.revision = doc.revision + 1, !.nextId = nextId]

(* A document with another list is a document, and its fields are the ones given. *)
LEMMA RewrittenType ==
    ASSUME NEW doc \in Document, NEW nodes \in Seq(Node), NEW base \in RawId,
           NEW usable \in BOOLEAN, NEW nextId \in RawId
    PROVE  LET new == Rewritten(doc, nodes, base, usable, nextId)
           IN  /\ new \in Document
               /\ new.nodes = nodes /\ new.base = base /\ new.usable = usable
               /\ new.nextId = nextId /\ new.revision = doc.revision + 1
               /\ new.recipe = doc.recipe /\ new.marks = doc.marks /\ new.keys = doc.keys
               /\ new.marker = doc.marker /\ new.version = doc.version
<1>1. doc.revision + 1 \in Nat
  BY DEF Document
<1> DEFINE rise == doc.revision + 1
<1>2. Rewritten(doc, nodes, base, usable, nextId) =
         [doc EXCEPT !.nodes = nodes, !.base = base, !.usable = usable,
                     !.revision = rise, !.nextId = nextId]
  BY DEF Rewritten
<1> HIDE DEF rise
<1> QED  BY <1>1, <1>2 DEF Document, rise

(* An edited list is a rewritten one under the counter that the edit leaves. *)
LEMMA EditedIs ==
    ASSUME NEW doc \in Document, NEW nodes \in Seq(Node), NEW id \in 0 .. MaximumId - 1
    PROVE  /\ AtLeast(Counter(doc), id + 1) \in RawId
           /\ EditedList(doc, id, nodes) =
                 Rewritten(doc, nodes, doc.base, doc.usable, AtLeast(Counter(doc), id + 1))
<1>1. AtLeast(Counter(doc), id + 1) \in RawId
  BY CounterIs, SnapshotsAssumption DEF AtLeast, RawId
<1>2. EditedList(doc, id, nodes) =
         Rewritten(doc, nodes, doc.base, doc.usable, AtLeast(Counter(doc), id + 1))
  BY DEF EditedList, Rewritten, Counter, Document
<1> QED  BY <1>1, <1>2

(* The stamp touches the version and the marker, and nothing else. *)
LEMMA StampedType ==
    ASSUME NEW before, NEW doc \in Document, NEW b \in BOOLEAN
    PROVE  /\ Stamped(before, doc, b) \in Document
           /\ Stamped(before, doc, b).nodes = doc.nodes
           /\ Stamped(before, doc, b).revision = doc.revision
           /\ Stamped(before, doc, b).base = doc.base
           /\ Stamped(before, doc, b).usable = doc.usable
           /\ Stamped(before, doc, b).nextId = doc.nextId
           /\ Stamped(before, doc, b).recipe = doc.recipe
           /\ Stamped(before, doc, b).marks = doc.marks
           /\ Stamped(before, doc, b).keys = doc.keys
           /\ Stamped(before, doc, b).version = SidecarVersion
           /\ Stamped(before, doc, b).marker =
                 IF b THEN "True"
                 ELSE IF before.version >= SidecarVersion THEN doc.marker
                 ELSE IF Presence(before) THEN "True" ELSE "False"
<1> DEFINE marker == IF b THEN "True"
                     ELSE IF before.version >= SidecarVersion THEN doc.marker
                     ELSE IF Presence(before) THEN "True" ELSE "False"
<1>1. marker \in {"none", "True", "False"}
  BY DEF Document
<1>2. Stamped(before, doc, b) =
         [doc EXCEPT !.exists = TRUE, !.version = SidecarVersion, !.marker = marker]
  BY DEF Stamped, Document
<1>3. SidecarVersion \in {NoVersion, 1, SidecarVersion, NewerVersion}
  OBVIOUS
<1> HIDE DEF marker
<1>4. /\ Stamped(before, doc, b) \in Document
      /\ Stamped(before, doc, b).nodes = doc.nodes
      /\ Stamped(before, doc, b).revision = doc.revision
      /\ Stamped(before, doc, b).base = doc.base
      /\ Stamped(before, doc, b).usable = doc.usable
      /\ Stamped(before, doc, b).nextId = doc.nextId
      /\ Stamped(before, doc, b).recipe = doc.recipe
      /\ Stamped(before, doc, b).marks = doc.marks
      /\ Stamped(before, doc, b).keys = doc.keys
      /\ Stamped(before, doc, b).version = SidecarVersion
      /\ Stamped(before, doc, b).marker = marker
  BY <1>1, <1>2, <1>3 DEF Document
<1> QED  BY <1>4 DEF marker

(* Positions without the one removed, and where the others were. *)
Was(k, i) == IF i < k THEN i ELSE i + 1

(* A sequence without its k-th element: the rest in order, each one once. *)
LEMMA Removed ==
    ASSUME NEW S, NEW s \in Seq(S), NEW k \in 1 .. Len(s)
    PROVE  /\ RemoveAt(s, k) \in Seq(S)
           /\ Len(RemoveAt(s, k)) = Len(s) - 1
           /\ \A i \in 1 .. Len(s) - 1 : /\ RemoveAt(s, k)[i] = s[Was(k, i)]
                                         /\ Was(k, i) \in (1 .. Len(s)) \ {k}
           /\ \A j \in (1 .. Len(s)) \ {k} : \E i \in 1 .. Len(s) - 1 : j = Was(k, i)
<1> DEFINE a == SubSeq(s, 1, k - 1)
           b == SubSeq(s, k + 1, Len(s))
<1>1. k \in Int /\ 1 <= k /\ k <= Len(s) /\ Len(s) \in Nat
  OBVIOUS
<1>2. a \in Seq(S) /\ Len(a) = k - 1 /\ \A i \in 1 .. k - 1 : a[i] = s[i]
  BY <1>1
<1>3. b \in Seq(S) /\ Len(b) = Len(s) - k /\ \A i \in 1 .. Len(s) - k : b[i] = s[k + i]
  BY <1>1
<1>4. RemoveAt(s, k) = a \o b
  BY DEF RemoveAt
<1> HIDE DEF a, b
<1>5. RemoveAt(s, k) \in Seq(S) /\ Len(RemoveAt(s, k)) = Len(s) - 1
  BY <1>1, <1>2, <1>3, <1>4
<1>6. ASSUME NEW i \in 1 .. Len(s) - 1
      PROVE  RemoveAt(s, k)[i] = s[Was(k, i)] /\ Was(k, i) \in (1 .. Len(s)) \ {k}
  <2>1. Was(k, i) \in (1 .. Len(s)) \ {k}
    BY <1>1 DEF Was
  <2>2. CASE i < k
    BY <2>2, <1>1, <1>2, <1>3, <1>4 DEF Was
  <2>3. CASE ~(i < k)
    <3>1. (a \o b)[i] = b[i - (k - 1)]
      BY <2>3, <1>1, <1>2, <1>3
    <3>2. i - (k - 1) \in 1 .. Len(s) - k /\ k + (i - (k - 1)) = i + 1
      BY <2>3, <1>1
    <3>3. b[i - (k - 1)] = s[i + 1]
      BY <3>2, <1>3
    <3>4. Was(k, i) = i + 1
      BY <2>3 DEF Was
    <3> QED  BY <3>1, <3>3, <3>4, <1>4, <2>1
  <2> QED  BY <2>1, <2>2, <2>3
<1>7. ASSUME NEW j \in (1 .. Len(s)) \ {k}
      PROVE  \E i \in 1 .. Len(s) - 1 : j = Was(k, i)
  <2>1. CASE j < k
    BY <2>1, <1>1 DEF Was
  <2>2. CASE j > k
    <3>1. j - 1 \in 1 .. Len(s) - 1 /\ ~(j - 1 < k)
      BY <2>2, <1>1
    <3> QED  BY <3>1 DEF Was
  <2> QED  BY <2>1, <2>2, <1>1
<1> QED  BY <1>5, <1>6, <1>7

-----------------------------------------------------------------------------
(* Positions in a list; adding and renaming. *)

(* How many of the positions do not come after k. *)
Rank(K, k) == Cardinality({j \in K : j <= k})

(* Every position has its place among them. *)
LEMMA NthIs ==
    ASSUME NEW N \in Nat, NEW K \in SUBSET (1 .. N)
    PROVE  /\ IsFiniteSet(K) /\ Cardinality(K) \in 0 .. N
           /\ \A i \in 1 .. Cardinality(K) : Nth(K, i) \in K
           /\ \A i, j \in 1 .. Cardinality(K) : Nth(K, i) = Nth(K, j) => i = j
           /\ \A k \in K : \E i \in 1 .. Cardinality(K) : Nth(K, i) = k
<1> DEFINE c == Cardinality(K)
           f == [k \in K |-> Rank(K, k)]
<1>1. IsFiniteSet(K) /\ c \in 0 .. N
  <2>1. IsFiniteSet(1 .. N) /\ Cardinality(1 .. N) = N
    BY FS_Interval
  <2>2. IsFiniteSet(K) /\ Cardinality(K) <= N
    BY <2>1, FS_Subset
  <2>3. Cardinality(K) \in Nat
    BY <2>2, FS_CardinalityType
  <2> QED  BY <2>2, <2>3
<1>0. \A i \in K : i \in Int
  OBVIOUS
<1>2. ASSUME NEW k \in K PROVE Rank(K, k) \in 1 .. c
  <2> DEFINE T == {j \in K : j <= k}
  <2>1. T \in SUBSET K /\ k \in T
    OBVIOUS
  <2> HIDE DEF T
  <2>2. IsFiniteSet(T) /\ Cardinality(T) \in Nat /\ Cardinality(T) <= c
    BY <1>1, <2>1, FS_Subset, FS_CardinalityType
  <2>3. Cardinality(T) # 0
    BY <2>1, <2>2, FS_EmptySet
  <2> QED  BY <1>1, <2>2, <2>3 DEF Rank, T
<1>3. ASSUME NEW k \in K, NEW j \in K, k < j
      PROVE  Rank(K, k) # Rank(K, j)
  <2> DEFINE T == {i \in K : i <= k}
             U == {i \in K : i <= j}
  <2>1. T \in SUBSET U /\ j \in U /\ j \notin T /\ U \in SUBSET K
    <3>1. \A i \in K : i <= k => i <= j
      BY <1>0, <1>3
    <3>2. j <= j /\ ~(j <= k)
      BY <1>0, <1>3
    <3> QED  BY <3>1, <3>2
  <2> HIDE DEF T, U
  <2>2. IsFiniteSet(U)
    BY <1>1, <2>1, FS_Subset
  <2>3. Cardinality(U) # Cardinality(T)
    BY <2>1, <2>2, FS_Subset
  <2> QED  BY <2>3 DEF Rank, T, U
<1>4. \A k, j \in K : Rank(K, k) = Rank(K, j) => k = j
  <2> SUFFICES ASSUME NEW k \in K, NEW j \in K, Rank(K, k) = Rank(K, j), k # j
               PROVE  FALSE
    OBVIOUS
  <2>1. k < j \/ j < k
    OBVIOUS
  <2> QED  BY <2>1, <1>3
<1>5. f \in Injection(K, 1 .. c)
  <2>1. f \in [K -> 1 .. c]
    BY <1>2
  <2>2. \A k, j \in K : f[k] = f[j] => k = j
    BY <1>4
  <2> HIDE DEF f
  <2> QED  BY <2>1, <2>2 DEF Injection, IsInjective
<1>6. \A i \in 1 .. c : \E k \in K : Rank(K, k) = i
  <2>1. IsFiniteSet(1 .. c) /\ Cardinality(1 .. c) = c
    BY <1>1, FS_Interval
  <2> HIDE DEF c
  <2>2. f \in Surjection(K, 1 .. c)
    BY <1>5, <2>1, FS_Injection DEF c
  <2>3. \A i \in 1 .. c : \E k \in K : f[k] = i
    BY <2>2 DEF Surjection
  <2> QED  BY <2>3
<1>7. \A i \in 1 .. c : Nth(K, i) \in K /\ Rank(K, Nth(K, i)) = i
  BY <1>6 DEF Nth, Rank
<1> HIDE DEF c
<1>8. \A k \in K : Nth(K, Rank(K, k)) = k
  BY <1>2, <1>4, <1>7
<1> QED  BY <1>1, <1>2, <1>7, <1>8 DEF c

NewNode(doc, draft) ==
    [id |-> Counter(doc), parent |-> draft.parent, readable |-> TRUE,
     recipe |-> draft.recipe, name |-> draft.name, thumbnail |-> draft.thumbnail]

(* What an add leaves in the document. *)
LEMMA AddType ==
    ASSUME NEW doc \in Document, NEW draft \in Snapshot, Counter(doc) # MaximumId
    PROVE  /\ AddNode(doc, draft) =
                 Rewritten(doc, Append(doc.nodes, NewNode(doc, draft)), doc.base, doc.usable,
                           Counter(doc) + 1)
           /\ NewNode(doc, draft) \in Node
           /\ Append(doc.nodes, NewNode(doc, draft)) \in Seq(Node)
           /\ Counter(doc) \in 1 .. MaximumId - 1
           /\ Counter(doc) + 1 \in RawId
<1>1. Counter(doc) \in 1 .. MaximumId - 1 /\ Counter(doc) \in 0 .. MaximumId - 1
  BY CounterIs, SnapshotsAssumption
<1>2. NewNode(doc, draft) \in Node
  <2>1. Counter(doc) \in RawId /\ draft.parent \in RawId
    BY <1>1, SnapshotsAssumption DEF RawId, Snapshot, MaybeId, SnapshotId, NoId
  <2> QED  BY <2>1 DEF NewNode, Node, Snapshot
<1> DEFINE nodes == Append(doc.nodes, NewNode(doc, draft))
<1>3. nodes \in Seq(Node)
  BY <1>2 DEF Document
<1>4. AddNode(doc, draft) = EditedList(doc, Counter(doc), nodes)
  BY DEF AddNode, NewNode, Counter
<1>5. AtLeast(Counter(doc), Counter(doc) + 1) = Counter(doc) + 1
  BY <1>1 DEF AtLeast
<1> HIDE DEF nodes
<1>6. /\ EditedList(doc, Counter(doc), nodes) =
            Rewritten(doc, nodes, doc.base, doc.usable, AtLeast(Counter(doc), Counter(doc) + 1))
      /\ AtLeast(Counter(doc), Counter(doc) + 1) \in RawId
  BY <1>1, <1>3, EditedIs
<1> QED  BY <1>1, <1>2, <1>3, <1>4, <1>5, <1>6 DEF nodes

(* What a listed id raises the counter to. *)
LEMMA ListedBelow ==
    ASSUME NEW doc \in Document, NEW id \in ListedIds(doc)
    PROVE  /\ id \in 1 .. MaximumId - 1
           /\ id < Counter(doc)
           /\ AtLeast(Counter(doc), id + 1) = Counter(doc)
           /\ doc.usable
<1>1. id \in 1 .. MaximumId - 1 /\ MaximumId \in Nat
  BY ListedAre, SnapshotsAssumption DEF SnapshotId
<1>2. id \in SeenIds(doc) /\ doc.usable
  BY ListedAre DEF ListedIds, ListedNodes, SeenIds, RawIds
<1>3. id < Counter(doc)
  BY <1>1, <1>2, CounterIs DEF Above
<1> QED  BY <1>1, <1>2, <1>3, CounterIs DEF AtLeast

(* What a rename leaves in the document. *)
LEMMA RenameType ==
    ASSUME NEW doc \in Document, NEW id \in ListedIds(doc), NEW name \in Names
    PROVE  LET k == NodeAt(doc, id)
               nodes == [doc.nodes EXCEPT ![k] = [doc.nodes[k] EXCEPT !.name = name]]
           IN  /\ k \in ListedNodes(doc) /\ k \in 1 .. Len(doc.nodes)
               /\ nodes \in Seq(Node) /\ Counter(doc) \in RawId
               /\ RenameNode(doc, id, name) =
                     Rewritten(doc, nodes, doc.base, doc.usable, Counter(doc))
<1> DEFINE k == NodeAt(doc, id)
           nodes == [doc.nodes EXCEPT ![k] = [doc.nodes[k] EXCEPT !.name = name]]
<1>1. k \in ListedNodes(doc) /\ k \in 1 .. Len(doc.nodes)
  BY ListedAre
<1>2. doc.nodes \in Seq(Node) /\ doc.nodes[k] \in Node
  BY <1>1, ElementOfSeq DEF Document
<1> HIDE DEF k
<1>3. [doc.nodes[k] EXCEPT !.name = name] \in Node
  BY <1>2 DEF Node
<1>4. nodes \in Seq(Node)
  BY <1>1, <1>2, <1>3, ExceptSeq
<1>5. RenameNode(doc, id, name) = EditedList(doc, id, nodes)
  <2>1. [doc.nodes EXCEPT ![k].name = name] = nodes
    BY <1>1, <1>2
  <2> QED  BY <2>1 DEF RenameNode, k
<1>6. AtLeast(Counter(doc), id + 1) = Counter(doc) /\ id \in 0 .. MaximumId - 1
  BY ListedBelow
<1> HIDE DEF nodes
<1>7. /\ EditedList(doc, id, nodes) =
            Rewritten(doc, nodes, doc.base, doc.usable, AtLeast(Counter(doc), id + 1))
      /\ AtLeast(Counter(doc), id + 1) \in RawId
  BY <1>4, <1>6, EditedIs
<1> QED  BY <1>1, <1>4, <1>5, <1>6, <1>7 DEF nodes, k

-----------------------------------------------------------------------------
(* Deleting, discarding, thumbnails, settings and marks. *)

(* What a delete makes of the nodes before it takes one out, and of the saved base. *)
HeirOf(doc, id) == ReadParents(doc)[id]

MovedNodes(doc, id) ==
    [k \in 1 .. Len(doc.nodes) |->
        IF k \in ListedNodes(doc) /\ ReadParents(doc)[doc.nodes[k].id] = id
        THEN [doc.nodes[k] EXCEPT !.parent = HeirOf(doc, id)] ELSE doc.nodes[k]]

MovedBase(doc, id) == IF ReadSavedBase(doc) = id THEN HeirOf(doc, id) ELSE doc.base

(* The list of a document is a sequence of nodes. *)
LEMMA NodesType ==
    ASSUME NEW doc \in Document
    PROVE  /\ doc.nodes \in Seq(Node) /\ Len(doc.nodes) \in Nat
           /\ \A k \in 1 .. Len(doc.nodes) : doc.nodes[k] \in Node
<1>1. doc.nodes \in Seq(Node)
  BY DEF Document
<1> QED  BY <1>1, ElementOfSeq

(* The parents a reading gives can be written. *)
LEMMA ReadParentIsRaw ==
    ASSUME NEW doc \in Document, NEW id \in ListedIds(doc)
    PROVE  /\ ReadParents(doc)[id] \in ListedIds(doc) \cup {NoId}
           /\ ReadParents(doc)[id] \in RawId
<1>1. ReadParents(doc)[id] \in ListedIds(doc) \cup {NoId}
  BY ReadParentsType
<1>2. ListedIds(doc) \cup {NoId} \subseteq RawId
  BY ListedAre, SnapshotsAssumption DEF SnapshotId, RawId, NoId
<1> QED  BY <1>1, <1>2

(* A function on the positions is a sequence. *)
LEMMA NodeSeq ==
    ASSUME NEW n \in Nat, NEW nodes \in [1 .. n -> Node]
    PROVE  nodes \in Seq(Node) /\ Len(nodes) = n
OBVIOUS

(* What a delete leaves in the document. *)
LEMMA DeleteType ==
    ASSUME NEW doc \in Document, NEW id \in ListedIds(doc)
    PROVE  LET k == NodeAt(doc, id)
           IN  /\ k \in ListedNodes(doc) /\ k \in 1 .. Len(doc.nodes)
               /\ MovedNodes(doc, id) \in Seq(Node)
               /\ Len(MovedNodes(doc, id)) = Len(doc.nodes)
               /\ RemoveAt(MovedNodes(doc, id), k) \in Seq(Node)
               /\ MovedBase(doc, id) \in RawId /\ Counter(doc) \in RawId
               /\ DeleteNode(doc, id) =
                     Rewritten(doc, RemoveAt(MovedNodes(doc, id), k), MovedBase(doc, id),
                               doc.usable, Counter(doc))
<1> DEFINE k == NodeAt(doc, id)
           moved == MovedNodes(doc, id)
           nodes == RemoveAt(moved, k)
           base == MovedBase(doc, id)
           based == [doc EXCEPT !.base = base]
<1>1. k \in ListedNodes(doc) /\ k \in 1 .. Len(doc.nodes)
  BY ListedAre
<1>2. HeirOf(doc, id) \in RawId
  BY ReadParentIsRaw DEF HeirOf
<1>3. moved \in [1 .. Len(doc.nodes) -> Node]
  <2>1. ASSUME NEW j \in 1 .. Len(doc.nodes)
        PROVE  [doc.nodes[j] EXCEPT !.parent = HeirOf(doc, id)] \in Node /\ doc.nodes[j] \in Node
    BY <1>2, NodesType DEF Node
  <2> QED  BY <2>1 DEF MovedNodes
<1>4. moved \in Seq(Node) /\ Len(moved) = Len(doc.nodes)
  BY <1>3, NodesType, NodeSeq
<1> HIDE DEF moved, k
<1>5. nodes \in Seq(Node)
  BY <1>1, <1>4, Removed
<1>6. base \in RawId
  BY <1>2 DEF MovedBase, Document
<1> HIDE DEF base, nodes
<1>7. /\ based \in Document /\ based.nextId = doc.nextId /\ based.usable = doc.usable
      /\ based.nodes = doc.nodes /\ based.base = base
  BY <1>6 DEF Document
<1>8. Counter(based) = Counter(doc)
  BY <1>7 DEF Counter, ReadCollection
<1>9. DeleteNode(doc, id) = EditedList(based, id, nodes)
  BY DEF DeleteNode, MovedNodes, MovedBase, HeirOf, base, nodes, moved, k
<1>10. AtLeast(Counter(doc), id + 1) = Counter(doc) /\ id \in 0 .. MaximumId - 1
  BY ListedBelow
<1>11. /\ EditedList(based, id, nodes) =
             Rewritten(based, nodes, based.base, based.usable, AtLeast(Counter(based), id + 1))
       /\ AtLeast(Counter(based), id + 1) \in RawId
  <2> HIDE DEF based
  <2> QED  BY <1>5, <1>7, <1>10, EditedIs
<1>12. Rewritten(based, nodes, base, doc.usable, Counter(doc)) =
          Rewritten(doc, nodes, base, doc.usable, Counter(doc))
  BY DEF Rewritten, Document
<1> QED  BY <1>1, <1>4, <1>5, <1>6, <1>7, <1>8, <1>9, <1>10, <1>11, <1>12
         DEF moved, k, base, nodes

(* A discard. *)
KeptNodes(doc) ==
    [i \in 1 .. Cardinality(ListedNodes(doc)) |->
        LET k == Nth(ListedNodes(doc), i)
        IN  [doc.nodes[k] EXCEPT !.parent = ReadParents(doc)[doc.nodes[k].id]]]

(* What a discard leaves: the listed nodes, under a counter above every raw id. *)
LEMMA DiscardType ==
    ASSUME NEW doc \in Document
    PROVE  LET next == AtLeast(Counter(doc), FloorAbove(RawIds(doc.nodes)))
           IN  /\ KeptNodes(doc) \in Seq(Node)
               /\ Len(KeptNodes(doc)) = Cardinality(ListedNodes(doc))
               /\ ReadSavedBase(doc) \in RawId
               /\ next \in 1 .. MaximumId /\ next \in RawId /\ Counter(doc) <= next
               /\ Above(RawIds(doc.nodes), next)
               /\ (doc.usable => next = Counter(doc))
               /\ DiscardNodes(doc) =
                     Rewritten(doc, KeptNodes(doc), ReadSavedBase(doc), TRUE, next)
<1> DEFINE K == ListedNodes(doc)
           next == AtLeast(Counter(doc), FloorAbove(RawIds(doc.nodes)))
           repaired == [k \in 1 .. Len(doc.nodes) |->
                           IF k \in K
                           THEN [doc.nodes[k] EXCEPT !.parent = ReadParents(doc)[doc.nodes[k].id]]
                           ELSE doc.nodes[k]]
           nodes == [i \in 1 .. Cardinality(K) |-> repaired[Nth(K, i)]]
<1>1. K \in SUBSET (1 .. Len(doc.nodes))
  BY ListedAre
<1>2. /\ Cardinality(K) \in Nat
      /\ \A i \in 1 .. Cardinality(K) : Nth(K, i) \in K
  <2> HIDE DEF K
  <2> QED  BY <1>1, NodesType, NthIs
<1>3. nodes = KeptNodes(doc)
  <2>1. \A i \in 1 .. Cardinality(K) : Nth(K, i) \in K /\ Nth(K, i) \in 1 .. Len(doc.nodes)
    BY <1>1, <1>2
  <2> QED  BY <2>1 DEF KeptNodes
<1>4. \A k \in K : [doc.nodes[k] EXCEPT !.parent = ReadParents(doc)[doc.nodes[k].id]] \in Node
  <2> SUFFICES ASSUME NEW k \in K
               PROVE  [doc.nodes[k] EXCEPT !.parent = ReadParents(doc)[doc.nodes[k].id]] \in Node
    OBVIOUS
  <2>1. doc.nodes[k] \in Node
    BY <1>1, NodesType
  <2>2. ReadParents(doc)[doc.nodes[k].id] \in RawId
    BY ListedAre, ReadParentIsRaw
  <2> QED  BY <2>1, <2>2 DEF Node
<1>5. KeptNodes(doc) \in [1 .. Cardinality(K) -> Node]
  BY <1>2, <1>4 DEF KeptNodes
<1>6. KeptNodes(doc) \in Seq(Node) /\ Len(KeptNodes(doc)) = Cardinality(K)
  BY <1>2, <1>5, NodeSeq
<1>7. ReadSavedBase(doc) \in RawId
  BY SnapshotsAssumption DEF ReadSavedBase, Document, RawId, NoId
<1> DEFINE floor == FloorAbove(RawIds(doc.nodes))
<1>8. /\ floor \in 1 .. MaximumId /\ Above(RawIds(doc.nodes), floor)
      /\ \A n \in 1 .. MaximumId : Above(RawIds(doc.nodes), n) => floor <= n
  BY RawIdsType, FloorIs
<1> HIDE DEF floor
<1>9. Counter(doc) \in 1 .. MaximumId /\ (doc.usable => floor <= Counter(doc))
  BY <1>8, CounterIs DEF SeenIds
<1>10. /\ next \in 1 .. MaximumId /\ Counter(doc) <= next /\ floor <= next
       /\ (doc.usable => next = Counter(doc))
  BY <1>8, <1>9, SnapshotsAssumption DEF AtLeast, floor
<1>11. next \in RawId
  BY <1>10, SnapshotsAssumption DEF RawId
<1>12. Above(RawIds(doc.nodes), next)
  <2> HIDE DEF next
  <2>1. \A id \in RawIds(doc.nodes) : id \in Int
    BY RawIdsType DEF RawId
  <2> QED  BY <1>8, <1>10, <2>1, SnapshotsAssumption DEF Above
<1>13. DiscardNodes(doc) = Rewritten(doc, nodes, ReadSavedBase(doc), TRUE, next)
  BY DEF DiscardNodes, Rewritten, Counter, Document
<1> HIDE DEF next, nodes, K
<1>14. DiscardNodes(doc) = Rewritten(doc, KeptNodes(doc), ReadSavedBase(doc), TRUE, next)
  BY <1>3, <1>13
<1> QED  BY <1>6, <1>7, <1>10, <1>11, <1>12, <1>14 DEF K, next

(* Writes that leave the list's structure alone. *)
Pictured(doc, ids) ==
    [k \in 1 .. Len(doc.nodes) |->
        IF k \in ListedNodes(doc) /\ doc.nodes[k].id \in ids
        THEN [doc.nodes[k] EXCEPT !.thumbnail = TRUE] ELSE doc.nodes[k]]

(* What storing thumbnails leaves in the document. *)
LEMMA ThumbnailsType ==
    ASSUME NEW doc \in Document, NEW ids
    PROVE  /\ SetNodeThumbnails(doc, ids) = [doc EXCEPT !.nodes = Pictured(doc, ids)]
           /\ Pictured(doc, ids) \in Seq(Node)
           /\ Len(Pictured(doc, ids)) = Len(doc.nodes)
           /\ SetNodeThumbnails(doc, ids) \in Document
<1>1. SetNodeThumbnails(doc, ids) = [doc EXCEPT !.nodes = Pictured(doc, ids)]
  BY DEF SetNodeThumbnails, Pictured
<1>2. \A k \in 1 .. Len(doc.nodes) : /\ [doc.nodes[k] EXCEPT !.thumbnail = TRUE] \in Node
                                     /\ doc.nodes[k] \in Node
  BY NodesType DEF Node
<1>3. Pictured(doc, ids) \in [1 .. Len(doc.nodes) -> Node]
  BY <1>2 DEF Pictured
<1>4. Pictured(doc, ids) \in Seq(Node) /\ Len(Pictured(doc, ids)) = Len(doc.nodes)
  BY <1>3, NodesType, NodeSeq
<1>5. SetNodeThumbnails(doc, ids) \in Document
  BY <1>1, <1>4 DEF Document
<1> QED  BY <1>1, <1>4, <1>5

(* Marks that are written are marks. *)
LEMMA WithMarksType ==
    ASSUME NEW marks \in Marks, NEW changes \in MarkChanges
    PROVE  WithMarks(marks, changes) \in Marks
BY DEF WithMarks, Marks, MarkChanges

(* A document with other marks is a document. *)
LEMMA MarksPatchType ==
    ASSUME NEW doc \in Document, NEW changes \in MarkChanges
    PROVE  [doc EXCEPT !.marks = WithMarks(@, changes)] \in Document
<1>1. WithMarks(doc.marks, changes) \in Marks
  BY WithMarksType DEF Document
<1> QED  BY <1>1 DEF Document

(* A document with other active settings is a document. *)
LEMMA ActivePatchType ==
    ASSUME NEW doc \in Document, NEW recipe \in Recipe, NEW changes \in MarkChanges
    PROVE  PatchActive(doc, recipe, changes) \in Document
<1>1. WithMarks(doc.marks, changes) \in Marks
  BY WithMarksType DEF Document
<1> QED  BY <1>1 DEF PatchActive, Document

-----------------------------------------------------------------------------
(* What a reader makes of a document; every patch is a document. *)

(* The entry of a listed node, with the parent the reading gives it. *)
EntryOf(node, parent) ==
    [parent |-> parent, recipe |-> node.recipe, name |-> node.name,
     thumbnail |-> node.thumbnail]

(* What is read of a list, whatever it holds, is a collection of the listed ids. *)
LEMMA CollectionIs ==
    ASSUME NEW doc \in Document
    PROVE  /\ ReadCollection(doc) \in Collection
           /\ ReadCollection(doc).revision = doc.revision
           /\ ReadCollection(doc).nextId = Counter(doc)
           /\ Ids(ReadCollection(doc)) = ListedIds(doc)
           /\ \A id \in ListedIds(doc) :
                 ReadCollection(doc).entries[id] =
                     EntryOf(doc.nodes[NodeAt(doc, id)], ReadParents(doc)[id])
           /\ \A id \in SnapshotId \ ListedIds(doc) :
                 ReadCollection(doc).entries[id] = NoSnapshot
<1> DEFINE E == [id \in SnapshotId |->
                    IF id \in ListedIds(doc)
                    THEN EntryOf(doc.nodes[NodeAt(doc, id)], ReadParents(doc)[id])
                    ELSE NoSnapshot]
<1>1. ReadCollection(doc) = [revision |-> doc.revision, nextId |-> Counter(doc), entries |-> E]
  BY DEF ReadCollection, Counter, EntryOf
<1>2. \A id \in ListedIds(doc) :
         EntryOf(doc.nodes[NodeAt(doc, id)], ReadParents(doc)[id]) \in Snapshot
  <2> SUFFICES ASSUME NEW id \in ListedIds(doc)
               PROVE  EntryOf(doc.nodes[NodeAt(doc, id)], ReadParents(doc)[id]) \in Snapshot
    OBVIOUS
  <2>1. doc.nodes[NodeAt(doc, id)] \in Node
    BY ListedAre, NodesType
  <2>2. ReadParents(doc)[id] \in MaybeId
    BY ReadParentIsRaw, ListedAre DEF MaybeId
  <2> QED  BY <2>1, <2>2 DEF EntryOf, Node, Snapshot
<1>3. ListedIds(doc) \subseteq SnapshotId
  BY ListedAre
<1>4. E \in [SnapshotId -> Snapshot \cup {NoSnapshot}]
  BY <1>2
<1>5. /\ \A id \in ListedIds(doc) :
            E[id] = EntryOf(doc.nodes[NodeAt(doc, id)], ReadParents(doc)[id])
      /\ \A id \in SnapshotId \ ListedIds(doc) : E[id] = NoSnapshot
  BY <1>3
<1> HIDE DEF E
<1>6. \A id \in ListedIds(doc) : E[id] # NoSnapshot
  BY <1>2, <1>5, SnapshotIsListed
<1>7. Counter(doc) \in SnapshotId \cup {MaximumId} /\ doc.revision \in Nat
  BY CounterIs, SnapshotsAssumption DEF SnapshotId, Document
<1>8. ReadCollection(doc) \in Collection
  BY <1>1, <1>4, <1>7 DEF Collection
<1>9. Ids(ReadCollection(doc)) = ListedIds(doc)
  BY <1>1, <1>3, <1>5, <1>6 DEF Ids
<1> QED  BY <1>1, <1>5, <1>8, <1>9

(* A reading gives contents. *)
LEMMA ViewType ==
    ASSUME NEW doc \in Document
    PROVE  /\ View(doc) \in Contents
           /\ View(doc).snapshots = ReadCollection(doc)
           /\ View(doc).savedBase = ReadSavedBase(doc)
           /\ View(doc).unreadable = UnreadableCount(doc)
<1>1. ReadCollection(doc) \in Collection
  BY CollectionIs
<1>2. ReadSavedBase(doc) \in MaybeId
  BY ListedAre DEF ReadSavedBase, MaybeId
<1>3. UnreadableCount(doc) \in Nat
  <2>1. ListedNodes(doc) \in SUBSET (1 .. Len(doc.nodes)) /\ Len(doc.nodes) \in Nat
    BY ListedAre, NodesType
  <2>2. Cardinality(ListedNodes(doc)) \in 0 .. Len(doc.nodes)
    BY <2>1, NthIs
  <2> QED  BY <2>1, <2>2 DEF UnreadableCount, AtLeast
<1>4. Presence(doc) \in BOOLEAN
  BY DEF Presence, Document
<1> DEFINE recipe == [doc.recipe EXCEPT
                        !.state = IF ~Presence(doc) THEN DefaultState
                                  ELSE IF doc.keys THEN @ ELSE NeutralState]
<1>5. recipe \in Recipe
  BY SnapshotsAssumption, ReaderAssumption DEF Document, Recipe
<1>6. View(doc) = [recorded |-> Presence(doc), recipe |-> recipe,
                   savedBase |-> ReadSavedBase(doc), marks |-> doc.marks,
                   unreadable |-> UnreadableCount(doc), snapshots |-> ReadCollection(doc)]
  BY DEF View
<1> HIDE DEF recipe
<1>7. doc.marks \in Marks
  BY DEF Document
<1> QED  BY <1>1, <1>2, <1>3, <1>4, <1>5, <1>6, <1>7 DEF Contents

(* What is not refused can be done. *)
LEMMA NotRefused ==
    ASSUME NEW doc \in Document, NEW req, ~Refused(doc, req)
    PROVE  /\ doc.version # NewerVersion
           /\ Structural(req.op) => req.expected = doc.revision
           /\ req.op \in {"add", "rename", "delete", "thumbnails"} => doc.usable
           /\ req.op = "add" => /\ Len(doc.nodes) < MaximumSnapshots
                                /\ req.parent \in ListedIds(doc) \cup {NoId}
                                /\ Counter(doc) # MaximumId
           /\ req.op \in {"rename", "delete"} => req.id \in ListedIds(doc)
           /\ req.op = "activeAndBase" => req.base \in ListedIds(doc) \cup {NoId}
<1>1. /\ ReadCollection(doc).revision = doc.revision
      /\ ReadCollection(doc).nextId = Counter(doc)
      /\ Ids(ReadCollection(doc)) = ListedIds(doc)
  BY CollectionIs
<1>2. Len(doc.nodes) \in Nat /\ MaximumSnapshots \in Nat
  BY NodesType, SnapshotsAssumption
<1> QED  BY <1>1, <1>2 DEF Refused

(* Every document a writer may leave is a document. *)
LEMMA PatchedType ==
    ASSUME NEW doc \in Document, NEW req \in Request, ~Refused(doc, req),
           NEW new \in Patched(doc, req)
    PROVE  new \in Document
<1>1. CASE req.op = "add"
  <2>1. PICK draft \in Snapshot : new = AddNode(doc, draft)
    BY <1>1 DEF Patched
  <2>2. Counter(doc) # MaximumId /\ doc.base \in RawId /\ doc.usable \in BOOLEAN
    BY <1>1, NotRefused DEF Document
  <2> DEFINE nodes == Append(doc.nodes, NewNode(doc, draft))
  <2>3. /\ nodes \in Seq(Node) /\ Counter(doc) + 1 \in RawId
        /\ new = Rewritten(doc, nodes, doc.base, doc.usable, Counter(doc) + 1)
    BY <2>1, <2>2, AddType
  <2> HIDE DEF nodes
  <2> QED  BY <2>2, <2>3, RewrittenType
<1>2. CASE req.op = "rename"
  <2>1. PICK name \in Names : new = RenameNode(doc, req.id, name)
    BY <1>2 DEF Patched
  <2>2. req.id \in ListedIds(doc) /\ doc.base \in RawId /\ doc.usable \in BOOLEAN
    BY <1>2, NotRefused DEF Document
  <2> DEFINE nodes == [doc.nodes EXCEPT ![NodeAt(doc, req.id)] =
                          [doc.nodes[NodeAt(doc, req.id)] EXCEPT !.name = name]]
  <2>3. /\ nodes \in Seq(Node) /\ Counter(doc) \in RawId
        /\ new = Rewritten(doc, nodes, doc.base, doc.usable, Counter(doc))
    BY <2>1, <2>2, RenameType
  <2> HIDE DEF nodes
  <2> QED  BY <2>2, <2>3, RewrittenType
<1>3. CASE req.op = "delete"
  <2>1. new = DeleteNode(doc, req.id)
    BY <1>3 DEF Patched
  <2>2. req.id \in ListedIds(doc) /\ doc.usable \in BOOLEAN
    BY <1>3, NotRefused DEF Document
  <2> DEFINE nodes == RemoveAt(MovedNodes(doc, req.id), NodeAt(doc, req.id))
  <2>3. /\ nodes \in Seq(Node) /\ Counter(doc) \in RawId /\ MovedBase(doc, req.id) \in RawId
        /\ new = Rewritten(doc, nodes, MovedBase(doc, req.id), doc.usable, Counter(doc))
    BY <2>1, <2>2, DeleteType
  <2> HIDE DEF nodes
  <2> QED  BY <2>2, <2>3, RewrittenType
<1>4. CASE req.op = "discard"
  <2>1. new = DiscardNodes(doc)
    BY <1>4 DEF Patched
  <2> DEFINE next == AtLeast(Counter(doc), FloorAbove(RawIds(doc.nodes)))
  <2>2. /\ KeptNodes(doc) \in Seq(Node) /\ ReadSavedBase(doc) \in RawId /\ next \in RawId
        /\ new = Rewritten(doc, KeptNodes(doc), ReadSavedBase(doc), TRUE, next)
    BY <2>1, DiscardType
  <2> HIDE DEF next
  <2> QED  BY <2>2, RewrittenType
<1>5. CASE req.op = "thumbnails"
  BY <1>5, ThumbnailsType DEF Patched
<1>6. CASE req.op = "marks"
  BY <1>6, MarksPatchType DEF Patched
<1>7. CASE req.op = "active"
  BY <1>7, ActivePatchType DEF Patched
<1>8. CASE req.op = "activeAndBase"
  <2>1. PICK recipe \in Recipe, changes \in MarkChanges :
           new = [PatchActive(doc, recipe, changes) EXCEPT !.base = req.base]
    BY <1>8 DEF Patched
  <2>2. PatchActive(doc, recipe, changes) \in Document
    BY ActivePatchType
  <2>3. req.base \in RawId
    BY <1>8, NotRefused, ListedAre, SnapshotsAssumption DEF RawId, SnapshotId, NoId
  <2> QED  BY <2>1, <2>2, <2>3 DEF Document
<1>9. req.op \in {"add", "rename", "delete", "discard", "thumbnails", "activeAndBase",
                  "active", "marks"}
  BY DEF Request
<1> QED  BY <1>1, <1>2, <1>3, <1>4, <1>5, <1>6, <1>7, <1>8, <1>9

-----------------------------------------------------------------------------
(* The file holds a document in every state. *)

Asking == {"locking", "locked", "patching", "replaced"}

(* What the writers carry: documents read, and requests made of a list that had *)
(* room for another revision.                                                   *)
CarriedInv ==
    /\ DOMAIN request = Writers
    /\ \A w \in Writers : copy[w] # NoCopy => copy[w] \in Document
    /\ \A w \in Writers :
          pc[w] \in Asking =>
             /\ request[w] \in Request
             /\ Structural(request[w].op) => request[w].expected < RevisionBound

DiskInv ==
    /\ disk \in Document
    /\ shown = View(disk)
    /\ lock \in Writers \cup {Nobody}
    /\ crashes \in 0 .. CrashBound

FileInv == LockInv /\ CarriedInv /\ DiskInv

(* At first nothing is carried, and the file holds a document it may start with. *)
LEMMA FileInit == Init => FileInv
<1> SUFFICES ASSUME Init PROVE FileInv
  OBVIOUS
<1>1. CarriedInv
  BY DEF Init, CarriedInv, Asking
<1>2. DiskInv
  BY FileAssumption DEF Init, DiskInv
<1> QED  BY <1>1, <1>2, LockInit DEF FileInv

(* A writer that goes idle or dies carries nothing. *)
LEMMA LeavingCarries ==
    ASSUME NEW w \in Writers, FileInv, LockInv',
           pc' \in {[pc EXCEPT ![w] = "idle"], [pc EXCEPT ![w] = "dead"]},
           request' = [request EXCEPT ![w] = NoRequest],
           copy' = [copy EXCEPT ![w] = NoCopy],
           UNCHANGED <<disk, shown>>, lock' \in {lock, Nobody},
           crashes' \in 0 .. CrashBound
    PROVE  FileInv'
<1>1. pc \in [Writers -> Places] /\ DOMAIN copy = Writers /\ DOMAIN request = Writers
  BY DEF FileInv, LockInv, CarriedInv
<1>2. CarriedInv'
  <2>1. DOMAIN request' = Writers
    BY <1>1
  <2>2. \A v \in Writers : copy'[v] # NoCopy => copy'[v] \in Document
    BY <1>1 DEF FileInv, CarriedInv
  <2>3. ASSUME NEW v \in Writers, pc'[v] \in Asking
        PROVE  /\ request'[v] \in Request
               /\ Structural(request'[v].op) => request'[v].expected < RevisionBound
    <3>1. v # w /\ pc[v] \in Asking /\ request'[v] = request[v]
      BY <1>1, <2>3 DEF Asking
    <3> QED  BY <3>1 DEF FileInv, CarriedInv
  <2> QED  BY <2>1, <2>2, <2>3 DEF CarriedInv
<1>3. DiskInv'
  BY DEF FileInv, DiskInv
<1> QED  BY <1>2, <1>3 DEF FileInv

(* What a writer reads, asks or writes is carried as it should be. *)
LEMMA MovingCarries ==
    ASSUME NEW w \in Writers, FileInv, pc[w] \in Asking, pc' = [pc EXCEPT ![w] = "locked"],
           UNCHANGED <<request, copy>>
    PROVE  CarriedInv'
<1>1. pc \in [Writers -> Places] /\ DOMAIN request = Writers
  BY DEF FileInv, LockInv, CarriedInv
<1>2. ASSUME NEW v \in Writers, pc'[v] \in Asking PROVE pc[v] \in Asking
  BY <1>1, <1>2 DEF Asking
<1> QED  BY <1>1, <1>2 DEF FileInv, CarriedInv

(* The replacement is a document, made from what the file holds. *)
LEMMA ReplaceWrites ==
    ASSUME NEW w \in Writers, FileInv, Replace(w)
    PROVE  /\ copy[w] = disk
           /\ request[w] \in Request
           /\ Structural(request[w].op) => request[w].expected < RevisionBound
           /\ ~Refused(disk, request[w]) /\ ~NothingToWrite(disk, request[w])
           /\ \E doc \in Patched(disk, request[w]) :
                 doc \in Document /\ disk' = Stamped(disk, doc, WritesActive(request[w]))
           /\ disk' \in Document
           /\ shown' = View(disk')
<1>1. pc[w] = "patching" /\ copy[w] = disk /\ disk \in Document
  BY DEF Replace, FileInv, LockInv, CopyIsCurrent, DiskInv
<1>2. /\ request[w] \in Request
      /\ Structural(request[w].op) => request[w].expected < RevisionBound
  BY <1>1 DEF FileInv, CarriedInv, Asking
<1>3. ~Refused(disk, request[w]) /\ ~NothingToWrite(disk, request[w])
  BY <1>1 DEF Replace
<1>4. PICK doc \in Patched(disk, request[w]) :
         disk' = Stamped(disk, doc, WritesActive(request[w]))
  BY <1>1 DEF Replace
<1>5. doc \in Document
  BY <1>1, <1>2, <1>3, PatchedType
<1>6. WritesActive(request[w]) \in BOOLEAN
  BY DEF WritesActive
<1>7. disk' \in Document
  BY <1>4, <1>5, <1>6, StampedType
<1> QED  BY <1>1, <1>2, <1>3, <1>4, <1>5, <1>7 DEF Replace

(* No step carries or writes anything else. *)
LEMMA FileNext == FileInv /\ [Next]_vars => FileInv'
<1> SUFFICES ASSUME FileInv, [Next]_vars
             PROVE  FileInv'
  OBVIOUS
<1>0. LockInv'
  BY LockNext DEF FileInv
<1>typed. /\ pc \in [Writers -> Places] /\ DOMAIN copy = Writers /\ DOMAIN request = Writers
      /\ crashes \in 0 .. CrashBound /\ CrashBound \in Nat
  BY FileAssumption DEF FileInv, LockInv, CarriedInv, DiskInv
<1>1. ASSUME NEW w \in Writers, Ask(w)
      PROVE  FileInv'
  <2>1. PICK req \in Requests(shown) :
           /\ Structural(req.op) => disk.revision < RevisionBound
           /\ request' = [request EXCEPT ![w] = req]
    BY <1>1 DEF Ask
  <2>2. shown = View(disk) /\ disk \in Document
    BY DEF FileInv, DiskInv
  <2>3. shown.snapshots.revision = disk.revision /\ disk.revision \in Nat
    BY <2>2, ViewType, CollectionIs DEF Document
  <2>4. /\ req \in Request
        /\ Structural(req.op) => req.expected < RevisionBound
    BY <2>1, <2>3, RequestsType
  <2>5. /\ pc' = [pc EXCEPT ![w] = "locking"]
        /\ UNCHANGED <<disk, shown, lock, copy, crashes>>
    BY <1>1 DEF Ask
  <2>6. CarriedInv'
    <3>1. ASSUME NEW v \in Writers, pc'[v] \in Asking
          PROVE  /\ request'[v] \in Request
                 /\ Structural(request'[v].op) => request'[v].expected < RevisionBound
      <4>1. CASE v = w
        BY <4>1, <1>typed, <2>1, <2>4
      <4>2. CASE v # w
        <5>1. pc[v] \in Asking /\ request'[v] = request[v]
          BY <4>2, <1>typed, <2>1, <2>5, <3>1
        <5> QED  BY <5>1 DEF FileInv, CarriedInv
      <4> QED  BY <4>1, <4>2
    <3>2. DOMAIN request' = Writers
      BY <1>typed, <2>1
    <3>3. \A v \in Writers : copy'[v] # NoCopy => copy'[v] \in Document
      BY <2>5 DEF FileInv, CarriedInv
    <3> QED  BY <3>1, <3>2, <3>3 DEF CarriedInv
  <2>7. DiskInv'
    BY <2>5 DEF FileInv, DiskInv
  <2> QED  BY <1>0, <2>6, <2>7 DEF FileInv
<1>2. ASSUME NEW w \in Writers, TakeLock(w)
      PROVE  FileInv'
  <2>1. CarriedInv'
    BY <1>2, MovingCarries DEF TakeLock, Asking
  <2>2. DiskInv'
    BY <1>2 DEF TakeLock, FileInv, DiskInv
  <2> QED  BY <1>0, <2>1, <2>2 DEF FileInv
<1>3. ASSUME NEW w \in Writers, GiveUp(w)
      PROVE  FileInv'
  BY <1>0, <1>typed, <1>3, LeavingCarries DEF GiveUp, Finish
<1>4. ASSUME NEW w \in Writers, Reread(w)
      PROVE  FileInv'
  <2>1. /\ pc[w] = "locked" /\ pc' = [pc EXCEPT ![w] = "patching"]
        /\ copy' = [copy EXCEPT ![w] = disk]
        /\ UNCHANGED <<disk, shown, lock, request, crashes>>
    BY <1>4 DEF Reread
  <2>2. DiskInv' /\ disk \in Document
    BY <2>1 DEF FileInv, DiskInv
  <2>3. ASSUME NEW v \in Writers, pc'[v] \in Asking PROVE pc[v] \in Asking
    BY <1>typed, <2>1, <2>3 DEF Asking
  <2>4. \A v \in Writers : copy'[v] # NoCopy => copy'[v] \in Document
    BY <1>typed, <2>1, <2>2 DEF FileInv, CarriedInv
  <2>5. CarriedInv'
    BY <2>1, <2>3, <2>4 DEF FileInv, CarriedInv
  <2> QED  BY <1>0, <2>2, <2>5 DEF FileInv
<1>5. ASSUME NEW w \in Writers, Leave(w) \/ WriteFails(w) \/ Unlock(w)
      PROVE  FileInv'
  <2>1. /\ UNCHANGED <<disk, shown, crashes>> /\ lock' = Nobody
        /\ pc' = [pc EXCEPT ![w] = "idle"]
        /\ request' = [request EXCEPT ![w] = NoRequest]
        /\ copy' = [copy EXCEPT ![w] = NoCopy]
    BY <1>5 DEF Leave, WriteFails, Unlock, Finish
  <2> QED  BY <1>0, <1>typed, <2>1, LeavingCarries
<1>6. ASSUME NEW w \in Writers, Replace(w)
      PROVE  FileInv'
  <2>1. /\ pc[w] = "patching" /\ pc' = [pc EXCEPT ![w] = "replaced"]
        /\ copy' = [copy EXCEPT ![w] = NoCopy]
        /\ UNCHANGED <<lock, request, crashes>>
    BY <1>6 DEF Replace
  <2>2. DiskInv'
    <3>1. disk' \in Document /\ shown' = View(disk')
      BY <1>6, ReplaceWrites
    <3> QED  BY <2>1, <3>1 DEF FileInv, DiskInv
  <2>3. ASSUME NEW v \in Writers, pc'[v] \in Asking PROVE pc[v] \in Asking
    BY <1>typed, <2>1, <2>3 DEF Asking
  <2>4. \A v \in Writers : copy'[v] # NoCopy => copy'[v] \in Document
    BY <1>typed, <2>1 DEF FileInv, CarriedInv
  <2>5. CarriedInv'
    BY <2>1, <2>3, <2>4 DEF FileInv, CarriedInv
  <2> QED  BY <1>0, <2>2, <2>5 DEF FileInv
<1>7. ASSUME NEW w \in Writers, Crash(w)
      PROVE  FileInv'
  <2>1. crashes' \in 0 .. CrashBound
    BY <1>typed, <1>7 DEF Crash
  <2>2. /\ UNCHANGED <<disk, shown, lock>>
        /\ pc' = [pc EXCEPT ![w] = "dead"]
        /\ request' = [request EXCEPT ![w] = NoRequest]
        /\ copy' = [copy EXCEPT ![w] = NoCopy]
    BY <1>7 DEF Crash
  <2> QED  BY <1>0, <2>1, <2>2, LeavingCarries
<1>8. ASSUME NEW w \in Writers, Restart(w)
      PROVE  FileInv'
  BY <1>0, <1>typed, <1>8, LeavingCarries DEF Restart, Finish
<1>9. CASE UNCHANGED vars
  BY <1>0, <1>9 DEF vars, FileInv, CarriedInv, DiskInv
<1> QED  BY <1>1, <1>2, <1>3, <1>4, <1>5, <1>6, <1>7, <1>8, <1>9 DEF Next, Step

(* Documents, requests and the lock are as they should be in every state. *)
LEMMA FileInvariance == Spec => []FileInv
<1> QED  BY FileInit, FileNext, PTL DEF Spec

(* Whatever is asked of it and whatever damage it carries, the file holds a document. *)
THEOREM TypeCorrect == Spec => []TypeOK
<1>1. FileInv => TypeOK
  BY DEF FileInv, LockInv, Places, CarriedInv, DiskInv, TypeOK
<1> QED  BY <1>1, FileInvariance, PTL

-----------------------------------------------------------------------------
(* Regular documents. *)

(* The nodes that can be listed, in a document whose list is one sequence. *)
Readable(doc) ==
    IF doc.usable THEN {k \in 1 .. Len(doc.nodes) : CanList(doc.nodes[k])} ELSE {}

(* The ids a document names but for those of its nodes. *)
NamedIds(doc) == {doc.nodes[k].parent : k \in Readable(doc)} \cup {doc.base}

Distinct(doc) ==
    /\ Len(doc.nodes) <= MaximumSnapshots
    /\ \A j, k \in Readable(doc) : doc.nodes[j].id = doc.nodes[k].id => j = k

(* A document that lists every node it can, that names no id which is still to be *)
(* given, and whose snapshots are on no cycle.                                    *)
Regular(doc) ==
    doc.usable =>
        /\ Distinct(doc)
        /\ Above(NamedIds(doc), Counter(doc))
        /\ NoCycle(NamedParents(doc))

(* What can be listed is. *)
LEMMA DistinctIs ==
    ASSUME NEW doc \in Document, doc.usable => Distinct(doc)
    PROVE  ListedNodes(doc) = Readable(doc)
<1>1. CASE doc.usable
  <2>1. Len(doc.nodes) <= MaximumSnapshots
    BY <1>1 DEF Distinct
  <2>2. \A j, k \in 1 .. Len(doc.nodes) :
           CanList(doc.nodes[j]) /\ CanList(doc.nodes[k]) /\ doc.nodes[j].id = doc.nodes[k].id
               => j = k
    BY <1>1 DEF Distinct, Readable
  <2>3. UsableNodes(doc.nodes) = {k \in 1 .. Len(doc.nodes) : CanList(doc.nodes[k])}
    BY <2>1, <2>2, NodesType, UsableAre
  <2> QED  BY <1>1, <2>3 DEF ListedNodes, Readable
<1>2. CASE ~doc.usable
  BY <1>2 DEF ListedNodes, Readable
<1> QED  BY <1>1, <1>2

(* Of a regular document every node that can be listed is, under the parent it names. *)
LEMMA RegularIs ==
    ASSUME NEW doc \in Document, Regular(doc)
    PROVE  /\ ListedNodes(doc) = Readable(doc)
           /\ NoCycle(NamedParents(doc))
           /\ \A k \in ListedNodes(doc) :
                 /\ doc.nodes[k].id \in ListedIds(doc)
                 /\ ReadParents(doc)[doc.nodes[k].id] = NamedParent(doc, k)
                 /\ ReadCollection(doc).entries[doc.nodes[k].id] =
                       EntryOf(doc.nodes[k], NamedParent(doc, k))
<1>1. ListedNodes(doc) = Readable(doc)
  BY DistinctIs DEF Regular
<1>2. NoCycle(NamedParents(doc))
  <2>1. CASE doc.usable
    BY <2>1 DEF Regular
  <2>2. CASE ~doc.usable
    <3>1. DOMAIN NamedParents(doc) = {}
      BY <2>2 DEF NamedParents, ListedIds, ListedNodes
    <3> QED  BY <3>1 DEF NoCycle
  <2> QED  BY <2>1, <2>2
<1>3. ReadParents(doc) = NamedParents(doc)
  BY <1>2, ReadParentsAre
<1>4. ASSUME NEW k \in ListedNodes(doc)
      PROVE  /\ doc.nodes[k].id \in ListedIds(doc)
             /\ ReadParents(doc)[doc.nodes[k].id] = NamedParent(doc, k)
             /\ ReadCollection(doc).entries[doc.nodes[k].id] =
                   EntryOf(doc.nodes[k], NamedParent(doc, k))
  <2>1. doc.nodes[k].id \in ListedIds(doc) /\ NodeAt(doc, doc.nodes[k].id) = k
    BY ListedAre
  <2>2. ReadParents(doc)[doc.nodes[k].id] = NamedParent(doc, k)
    BY <1>3, <2>1 DEF NamedParents
  <2> QED  BY <2>1, <2>2, CollectionIs
<1> QED  BY <1>1, <1>2, <1>4

(* As many snapshots are listed as nodes. *)
LEMMA IdsCount ==
    ASSUME NEW doc \in Document
    PROVE  /\ IsFiniteSet(ListedNodes(doc)) /\ IsFiniteSet(ListedIds(doc))
           /\ Cardinality(ListedIds(doc)) = Cardinality(ListedNodes(doc))
           /\ Cardinality(ListedNodes(doc)) \in 0 .. Len(doc.nodes)
<1> DEFINE K == ListedNodes(doc)
           L == ListedIds(doc)
           f == [k \in K |-> doc.nodes[k].id]
<1>1. K \in SUBSET (1 .. Len(doc.nodes)) /\ Len(doc.nodes) \in Nat
  BY ListedAre, NodesType
<1>2. \A k \in K : f[k] \in L /\ NodeAt(doc, f[k]) = k
  BY ListedAre
<1>3. \A id \in L : \E k \in K : f[k] = id
  BY DEF ListedIds
<1>4. f \in [K -> L]
  BY <1>2
<1> HIDE DEF K, L, f
<1>5. IsFiniteSet(K) /\ Cardinality(K) \in 0 .. Len(doc.nodes)
  BY <1>1, NthIs
<1>6. f \in Surjection(K, L) /\ f \in Injection(K, L)
  <2>1. \A j, k \in K : f[j] = f[k] => j = k
    BY <1>2
  <2> QED  BY <1>3, <1>4, <2>1 DEF Surjection, Injection, IsInjective
<1>7. IsFiniteSet(L) /\ Cardinality(L) <= Cardinality(K)
  BY <1>5, <1>6, FS_Surjection
<1>8. Cardinality(K) <= Cardinality(L)
  BY <1>6, <1>7, FS_Injection
<1>9. Cardinality(L) \in Nat
  BY <1>7, FS_CardinalityType
<1>10. Cardinality(L) = Cardinality(K)
  BY <1>5, <1>7, <1>8, <1>9
<1> QED  BY <1>5, <1>7, <1>10 DEF K, L

(* The reading of a regular document is sound, so that a write can be made upon it. *)
LEMMA RegularSound ==
    ASSUME NEW doc \in Document, Regular(doc)
    PROVE  Sound(View(doc))
<1> DEFINE c == ReadCollection(doc)
<1>1. /\ c \in Collection /\ Ids(c) = ListedIds(doc) /\ c.nextId = Counter(doc)
      /\ View(doc).snapshots = c /\ View(doc).savedBase = ReadSavedBase(doc)
  BY CollectionIs, ViewType
<1>2. \A id \in ListedIds(doc) : /\ NodeAt(doc, id) \in ListedNodes(doc)
                                 /\ doc.nodes[NodeAt(doc, id)].id = id
  BY ListedAre
<1>3. \A id \in ListedIds(doc) : c.entries[id].parent = NamedParents(doc)[id]
  <2> SUFFICES ASSUME NEW id \in ListedIds(doc)
               PROVE  c.entries[id].parent = NamedParents(doc)[id]
    OBVIOUS
  <2>1. c.entries[id] = EntryOf(doc.nodes[NodeAt(doc, id)], NamedParent(doc, NodeAt(doc, id)))
    BY <1>2, RegularIs
  <2> QED  BY <2>1 DEF EntryOf, NamedParents
<1> HIDE DEF c
<1>4. Cardinality(Ids(c)) <= MaximumSnapshots
  <2>1. CASE doc.usable
    <3>1. Len(doc.nodes) <= MaximumSnapshots
      BY <2>1 DEF Regular, Distinct
    <3> QED  BY <1>1, <3>1, IdsCount, SnapshotsAssumption, NodesType
  <2>2. CASE ~doc.usable
    <3>1. Ids(c) = {}
      BY <1>1, <2>2 DEF ListedIds, ListedNodes
    <3> QED  BY <3>1, FS_EmptySet, SnapshotsAssumption
  <2> QED  BY <2>1, <2>2
<1>5. BelowCounter(c)
  BY <1>1, ListedBelow DEF BelowCounter
<1>6. ParentsListed(c)
  BY <1>1, <1>3, NamedIsListed DEF ParentsListed, NamedParents
<1>7. Acyclic(c)
  <2>1. NoCycle(NamedParents(doc)) /\ DOMAIN NamedParents(doc) = ListedIds(doc)
    BY RegularIs DEF NamedParents
  <2> QED  BY <1>1, <1>3, <2>1 DEF Acyclic, NoCycle
<1>8. CanBase(View(doc), View(doc).savedBase)
  BY <1>1 DEF CanBase, ReadSavedBase
<1> QED  BY <1>1, <1>4, <1>5, <1>6, <1>7, <1>8 DEF Sound, Valid

(* A document whose nodes say what a collection lists is read as that collection. *)
LEMMA Agrees ==
    ASSUME NEW doc \in Document, NEW c \in Collection, Acyclic(c),
           Ids(c) = ListedIds(doc), c.nextId = Counter(doc), c.revision = doc.revision,
           \A k \in ListedNodes(doc) :
               c.entries[doc.nodes[k].id] = EntryOf(doc.nodes[k], NamedParent(doc, k))
    PROVE  NoCycle(NamedParents(doc)) /\ ReadCollection(doc) = c
<1>1. \A id \in ListedIds(doc) : /\ NodeAt(doc, id) \in ListedNodes(doc)
                                 /\ doc.nodes[NodeAt(doc, id)].id = id
  BY ListedAre
<1>2. \A id \in ListedIds(doc) :
         c.entries[id] = EntryOf(doc.nodes[NodeAt(doc, id)], NamedParents(doc)[id])
  BY <1>1 DEF NamedParents
<1>3. \A id \in ListedIds(doc) : c.entries[id].parent = NamedParents(doc)[id]
  <2> SUFFICES ASSUME NEW id \in ListedIds(doc)
               PROVE  c.entries[id].parent = NamedParents(doc)[id]
    OBVIOUS
  <2>1. c.entries[id] = EntryOf(doc.nodes[NodeAt(doc, id)], NamedParents(doc)[id])
    BY <1>2
  <2> QED  BY <2>1 DEF EntryOf
<1>4. NoCycle(NamedParents(doc))
  <2>1. DOMAIN NamedParents(doc) = ListedIds(doc)
    BY DEF NamedParents
  <2> QED  BY <1>3, <2>1 DEF Acyclic, NoCycle
<1>5. ReadParents(doc) = NamedParents(doc)
  BY <1>4, ReadParentsAre
<1> DEFINE read == ReadCollection(doc)
<1>6. /\ read \in Collection /\ read.revision = doc.revision /\ read.nextId = Counter(doc)
      /\ \A id \in ListedIds(doc) : read.entries[id] = c.entries[id]
      /\ \A id \in SnapshotId \ ListedIds(doc) : read.entries[id] = NoSnapshot
  BY <1>2, <1>5, CollectionIs
<1>7. \A id \in SnapshotId \ ListedIds(doc) : c.entries[id] = NoSnapshot
  BY DEF Ids
<1> HIDE DEF read
<1>8. read.entries = c.entries
  <2>1. \A id \in SnapshotId : read.entries[id] = c.entries[id]
    BY <1>6, <1>7
  <2>2. /\ read.entries \in [SnapshotId -> Snapshot \cup {NoSnapshot}]
        /\ c.entries \in [SnapshotId -> Snapshot \cup {NoSnapshot}]
    BY <1>6 DEF Collection
  <2> QED  BY <2>1, <2>2
<1>9. read = c
  BY <1>6, <1>8 DEF Collection
<1> QED  BY <1>4, <1>9 DEF read

-----------------------------------------------------------------------------
(* Documents that are read alike. *)

(* Two documents with one list: what the rest says does not change how it is read. *)
SameList(one, other) ==
    /\ other.nodes = one.nodes /\ other.usable = one.usable
    /\ other.nextId = one.nextId /\ other.revision = one.revision

(* Two documents with one list are read alike, but for the settings. *)
LEMMA SameListReads ==
    ASSUME NEW one \in Document, NEW other \in Document, SameList(one, other)
    PROVE  /\ ListedNodes(other) = ListedNodes(one)
           /\ ListedIds(other) = ListedIds(one)
           /\ Readable(other) = Readable(one)
           /\ Counter(other) = Counter(one)
           /\ UnreadableCount(other) = UnreadableCount(one)
           /\ NamedParents(other) = NamedParents(one)
           /\ ReadCollection(other) = ReadCollection(one)
<1>1. other.nodes = one.nodes /\ other.usable = one.usable
      /\ other.nextId = one.nextId /\ other.revision = one.revision
  BY DEF SameList
<1>2. ListedNodes(other) = ListedNodes(one) /\ Readable(other) = Readable(one)
  BY <1>1 DEF ListedNodes, Readable
<1>3. ListedIds(other) = ListedIds(one)
  BY <1>1, <1>2 DEF ListedIds
<1>4. Counter(other) = Counter(one)
  BY <1>1 DEF Counter, ReadCollection
<1>5. UnreadableCount(other) = UnreadableCount(one)
  BY <1>1, <1>2 DEF UnreadableCount
<1>6. \A id \in ListedIds(one) : NodeAt(other, id) = NodeAt(one, id)
  <2>1. \A id \in ListedIds(one) : /\ NodeAt(one, id) \in ListedNodes(one)
                                   /\ one.nodes[NodeAt(one, id)].id = id
    BY ListedAre
  <2>2. \A k \in ListedNodes(other) : NodeAt(other, other.nodes[k].id) = k
    BY ListedAre
  <2> QED  BY <1>1, <1>2, <2>1, <2>2
<1>7. NamedParents(other) = NamedParents(one)
  <2>1. \A k : NamedParent(other, k) = NamedParent(one, k)
    BY <1>1, <1>3 DEF NamedParent
  <2> QED  BY <1>3, <1>6, <2>1 DEF NamedParents
<1>8. Order(other) = Order(one)
  BY <1>1, <1>2 DEF Order
<1>9. ReadParents(other) = ReadParents(one)
  <2>1. ReadParents(one) = CutCycles(NamedParents(one), Order(one))
    BY DEF ReadParents, NamedParents, Order
  <2>2. ReadParents(other) = CutCycles(NamedParents(other), Order(other))
    BY DEF ReadParents, NamedParents, Order
  <2> QED  BY <1>7, <1>8, <2>1, <2>2
<1> DEFINE c == ReadCollection(one)
           d == ReadCollection(other)
<1>10. /\ c \in Collection /\ c.revision = one.revision /\ c.nextId = Counter(one)
       /\ \A id \in ListedIds(one) :
             c.entries[id] = EntryOf(one.nodes[NodeAt(one, id)], ReadParents(one)[id])
       /\ \A id \in SnapshotId \ ListedIds(one) : c.entries[id] = NoSnapshot
  BY CollectionIs
<1>11. /\ d \in Collection /\ d.revision = other.revision /\ d.nextId = Counter(other)
       /\ \A id \in ListedIds(other) :
             d.entries[id] = EntryOf(other.nodes[NodeAt(other, id)], ReadParents(other)[id])
       /\ \A id \in SnapshotId \ ListedIds(other) : d.entries[id] = NoSnapshot
  BY CollectionIs
<1> HIDE DEF c, d
<1>12. \A id \in SnapshotId : d.entries[id] = c.entries[id]
  <2>1. \A id \in ListedIds(one) : d.entries[id] = c.entries[id]
    BY <1>1, <1>3, <1>6, <1>9, <1>10, <1>11
  <2> QED  BY <1>3, <1>10, <1>11, <2>1
<1>13. d = c
  <2>1. d.entries = c.entries
    BY <1>10, <1>11, <1>12 DEF Collection
  <2> QED  BY <1>1, <1>4, <1>10, <1>11, <2>1 DEF Collection
<1> QED  BY <1>2, <1>3, <1>4, <1>5, <1>7, <1>13 DEF c, d

(* So it is regular in both, if what they name beside it is too. *)
LEMMA SameListRegular ==
    ASSUME NEW one \in Document, NEW other \in Document, SameList(one, other), Regular(one),
           one.usable => Above({other.base}, Counter(one))
    PROVE  Regular(other)
<1>1. /\ Readable(other) = Readable(one) /\ Counter(other) = Counter(one)
      /\ NamedParents(other) = NamedParents(one)
      /\ other.nodes = one.nodes /\ other.usable = one.usable
  BY SameListReads DEF SameList
<1> SUFFICES ASSUME one.usable
             PROVE  /\ Distinct(other)
                    /\ Above(NamedIds(other), Counter(other))
                    /\ NoCycle(NamedParents(other))
  BY <1>1 DEF Regular
<1>2. Distinct(other) /\ NoCycle(NamedParents(other))
  BY <1>1 DEF Regular, Distinct
<1>3. Above(NamedIds(one), Counter(one)) /\ Above({other.base}, Counter(one))
  BY DEF Regular
<1>4. NamedIds(other) \subseteq NamedIds(one) \cup {other.base}
  BY <1>1 DEF NamedIds
<1>5. Above(NamedIds(other), Counter(other))
  BY <1>1, <1>3, <1>4 DEF Above
<1> QED  BY <1>2, <1>5

(* Contents are what their parts are. *)
LEMMA SameContents ==
    ASSUME NEW one \in Contents, NEW other \in Contents,
           one.recorded = other.recorded, one.recipe = other.recipe,
           one.savedBase = other.savedBase, one.marks = other.marks,
           one.unreadable = other.unreadable, one.snapshots = other.snapshots
    PROVE  one = other
BY DEF Contents

(* What is recorded of the settings, and the look that is read. *)
LEMMA ViewSettings ==
    ASSUME NEW doc \in Document
    PROVE  /\ View(doc).recorded = Presence(doc)
           /\ View(doc).marks = doc.marks
           /\ View(doc).recipe =
                 [doc.recipe EXCEPT !.state = IF ~Presence(doc) THEN DefaultState
                                              ELSE IF doc.keys THEN doc.recipe.state
                                              ELSE NeutralState]
BY DEF View, Document, Recipe

(* The settings of a document before and after a write that does not name them. *)
SameSettings(one, other) ==
    /\ other.version = one.version /\ other.marker = one.marker
    /\ other.keys = one.keys /\ other.recipe = one.recipe

(* What a replacement is read as: the list of the patched document, the settings it *)
(* was given, or those that were there, by whatever rule its version had for them.  *)
LEMMA StampedReads ==
    ASSUME NEW before \in Document, NEW doc \in Document, NEW b \in BOOLEAN,
           Regular(doc),
           IF b THEN doc.keys ELSE SameSettings(before, doc)
    PROVE  LET new == Stamped(before, doc, b)
           IN  /\ new \in Document /\ Regular(new)
               /\ View(new).snapshots = ReadCollection(doc)
               /\ View(new).savedBase = ReadSavedBase(doc)
               /\ View(new).unreadable = UnreadableCount(doc)
               /\ View(new).marks = doc.marks
               /\ View(new).recorded = (b \/ View(before).recorded)
               /\ View(new).recipe = IF b THEN doc.recipe ELSE View(before).recipe
<1> DEFINE new == Stamped(before, doc, b)
<1>1. /\ new \in Document
      /\ new.nodes = doc.nodes
      /\ new.revision = doc.revision
      /\ new.base = doc.base
      /\ new.usable = doc.usable
      /\ new.nextId = doc.nextId
      /\ new.recipe = doc.recipe
      /\ new.marks = doc.marks
      /\ new.keys = doc.keys
      /\ new.version = SidecarVersion
      /\ new.marker =
            IF b THEN "True"
            ELSE IF before.version >= SidecarVersion THEN doc.marker
            ELSE IF Presence(before) THEN "True" ELSE "False"
  BY StampedType, Zenon
<1> HIDE DEF new
<1>2. SameList(doc, new)
  BY <1>1 DEF SameList
<1>3. /\ ListedIds(new) = ListedIds(doc)
      /\ UnreadableCount(new) = UnreadableCount(doc)
      /\ ReadCollection(new) = ReadCollection(doc)
  BY <1>1, <1>2, SameListReads
<1>4. Regular(new)
  <2>1. doc.usable => Above({new.base}, Counter(doc))
    BY <1>1 DEF Regular, Above, NamedIds
  <2> QED  BY <1>1, <1>2, <2>1, SameListRegular
<1>5. ReadSavedBase(new) = ReadSavedBase(doc)
  BY <1>1, <1>3 DEF ReadSavedBase
<1>6. Presence(new) = (b \/ Presence(before)) /\ Presence(before) \in BOOLEAN
  <2>1. new.version >= SidecarVersion
    BY <1>1 DEF SidecarVersion
  <2>2. Presence(new) = IF new.marker = "none" THEN new.keys ELSE new.marker = "True"
    BY <2>1 DEF Presence
  <2>3. Presence(before) \in BOOLEAN
    BY DEF Presence, Document
  <2>4. CASE b
    BY <1>1, <2>2, <2>3, <2>4
  <2>5. CASE ~b /\ before.version >= SidecarVersion
    <3>1. Presence(before) =
             IF before.marker = "none" THEN before.keys ELSE before.marker = "True"
      BY <2>5 DEF Presence
    <3>2. new.marker = before.marker /\ new.keys = before.keys
      BY <1>1, <2>5 DEF SameSettings
    <3> QED  BY <2>2, <2>3, <2>5, <3>1, <3>2
  <2>6. CASE ~b /\ ~(before.version >= SidecarVersion)
    <3>1. new.marker = IF Presence(before) THEN "True" ELSE "False"
      BY <1>1, <2>6
    <3> QED  BY <2>2, <2>3, <2>6, <3>1
  <2> QED  BY <2>4, <2>5, <2>6
<1>7. /\ View(new).recorded = (b \/ View(before).recorded)
      /\ View(new).recipe = IF b THEN doc.recipe ELSE View(before).recipe
  <2>1. /\ View(new).recorded = Presence(new)
        /\ View(new).recipe =
              [new.recipe EXCEPT !.state = IF ~Presence(new) THEN DefaultState
                                           ELSE IF new.keys THEN new.recipe.state
                                           ELSE NeutralState]
    BY <1>1, ViewSettings
  <2>2. /\ View(before).recorded = Presence(before)
        /\ View(before).recipe =
              [before.recipe EXCEPT !.state = IF ~Presence(before) THEN DefaultState
                                              ELSE IF before.keys THEN before.recipe.state
                                              ELSE NeutralState]
    BY ViewSettings
  <2>3. CASE b
    <3>1. Presence(new) /\ new.keys /\ new.recipe = doc.recipe /\ doc.recipe \in Recipe
      BY <1>1, <1>6, <2>3 DEF Document
    <3>2. View(new).recipe = [doc.recipe EXCEPT !.state = doc.recipe.state]
      BY <2>1, <3>1
    <3>3. [doc.recipe EXCEPT !.state = doc.recipe.state] = doc.recipe
      BY <3>1 DEF Recipe
    <3> QED  BY <2>1, <2>3, <3>1, <3>2, <3>3
  <2>4. CASE ~b
    <3>1. /\ Presence(new) = Presence(before)
          /\ new.keys = before.keys /\ new.recipe = before.recipe
      BY <1>1, <1>6, <2>4 DEF SameSettings
    <3> QED  BY <1>6, <2>1, <2>2, <2>4, <3>1
  <2> QED  BY <2>3, <2>4
<1>8. /\ View(new).snapshots = ReadCollection(doc)
      /\ View(new).savedBase = ReadSavedBase(doc)
      /\ View(new).unreadable = UnreadableCount(doc)
      /\ View(new).marks = doc.marks
  BY <1>1, <1>3, <1>5, ViewType, ViewSettings
<1> QED  BY <1>1, <1>4, <1>7, <1>8 DEF new

-----------------------------------------------------------------------------
(* A patched list is read as the write of the store.  Renaming. *)

(* A counter that is written above every id is the one read. *)
LEMMA CounterWritten ==
    ASSUME NEW doc \in Document, doc.nextId \in 1 .. MaximumId, Above(SeenIds(doc), doc.nextId)
    PROVE  Counter(doc) = doc.nextId
<1>1. /\ Counter(doc) \in 1 .. MaximumId /\ doc.nextId <= Counter(doc)
      /\ Counter(doc) <= doc.nextId
  BY CounterIs, SnapshotsAssumption
<1> QED  BY <1>1, SnapshotsAssumption

(* A node whose place in the list and in the tree has not changed. *)
SameNode(one, other) ==
    other.id = one.id /\ other.readable = one.readable /\ other.parent = one.parent

(* Two documents whose nodes differ in their looks, names and thumbnails only. *)
SameShape(one, other) ==
    /\ other.usable = one.usable /\ other.base = one.base
    /\ Len(other.nodes) = Len(one.nodes)
    /\ \A k \in 1 .. Len(one.nodes) : SameNode(one.nodes[k], other.nodes[k])
    /\ other.nextId \in {one.nextId, Counter(one)}

(* A document of the same shape as a regular one is regular, and is read as the looks say. *)
LEMMA SameShapeReads ==
    ASSUME NEW one \in Document, NEW other \in Document, SameShape(one, other), Regular(one),
           NEW c \in Collection, Acyclic(c), Ids(c) = ListedIds(one),
           c.nextId = Counter(one), c.revision = other.revision,
           \A k \in ListedNodes(one) :
               c.entries[one.nodes[k].id] = EntryOf(other.nodes[k], NamedParent(one, k))
    PROVE  /\ Regular(other)
           /\ ReadCollection(other) = c
           /\ ReadSavedBase(other) = ReadSavedBase(one)
           /\ UnreadableCount(other) = UnreadableCount(one)
<1>1. /\ other.usable = one.usable /\ other.base = one.base
      /\ Len(other.nodes) = Len(one.nodes)
      /\ \A k \in 1 .. Len(one.nodes) : SameNode(one.nodes[k], other.nodes[k])
      /\ other.nextId \in {one.nextId, Counter(one)}
  BY DEF SameShape
<1>2. Readable(other) = Readable(one)
  BY <1>1 DEF Readable, CanList, SameNode
<1>3. other.usable => Distinct(other)
  <2> SUFFICES ASSUME other.usable PROVE Distinct(other)
    OBVIOUS
  <2>1. Distinct(one)
    BY <1>1 DEF Regular
  <2>2. Readable(one) \subseteq 1 .. Len(one.nodes)
    BY DEF Readable
  <2>3. \A k \in Readable(one) : other.nodes[k].id = one.nodes[k].id
    BY <1>1, <2>2 DEF SameNode
  <2> QED  BY <1>1, <1>2, <2>1, <2>3 DEF Distinct
<1>4. ListedNodes(other) = ListedNodes(one)
  BY <1>2, <1>3, DistinctIs, RegularIs
<1>5. \A k \in ListedNodes(one) : k \in 1 .. Len(one.nodes) /\ SameNode(one.nodes[k], other.nodes[k])
  BY <1>1, ListedAre
<1>6. ListedIds(other) = ListedIds(one)
  BY <1>4, <1>5 DEF ListedIds, SameNode
<1>7. \A k \in ListedNodes(one) : NamedParent(other, k) = NamedParent(one, k)
  BY <1>5, <1>6 DEF NamedParent, SameNode
<1>8. Counter(other) = Counter(one)
  <2>1. RawIds(other.nodes) = RawIds(one.nodes)
    BY <1>1 DEF RawIds, SameNode
  <2>2. SeenIds(other) = SeenIds(one)
    BY <1>1, <2>1 DEF SeenIds
  <2>3. CASE other.nextId = one.nextId
    BY <1>1, <2>1, <2>3 DEF Counter, ReadCollection
  <2>4. CASE other.nextId = Counter(one)
    BY <2>2, <2>4, CounterIs, CounterWritten
  <2> QED  BY <1>1, <2>3, <2>4
<1>9. \A k \in ListedNodes(other) :
         c.entries[other.nodes[k].id] = EntryOf(other.nodes[k], NamedParent(other, k))
  BY <1>4, <1>5, <1>7 DEF SameNode
<1>10. NoCycle(NamedParents(other)) /\ ReadCollection(other) = c
  BY <1>6, <1>8, <1>9, Agrees
<1>11. Regular(other)
  <2>1. NamedIds(other) = NamedIds(one)
    <3>1. Readable(one) \subseteq 1 .. Len(one.nodes)
      BY DEF Readable
    <3> QED  BY <1>1, <1>2, <3>1 DEF NamedIds, SameNode
  <2> QED  BY <1>1, <1>3, <1>8, <1>10, <2>1 DEF Regular
<1>12. ReadSavedBase(other) = ReadSavedBase(one)
  BY <1>1, <1>6 DEF ReadSavedBase
<1>13. UnreadableCount(other) = UnreadableCount(one)
  BY <1>1, <1>4 DEF UnreadableCount
<1> QED  BY <1>10, <1>11, <1>12, <1>13

(* A patched document is read as the contents that the store's write gives, but for *)
(* the settings, which it leaves to the stamp.                                      *)
ListBecomes(doc, new, contents) ==
    /\ new \in Document /\ Regular(new)
    /\ SameSettings(doc, new) /\ new.marks = doc.marks
    /\ contents \in Contents
    /\ ReadCollection(new) = contents.snapshots
    /\ ReadSavedBase(new) = contents.savedBase
    /\ UnreadableCount(new) = contents.unreadable
    /\ contents.recorded = View(doc).recorded
    /\ contents.recipe = View(doc).recipe
    /\ contents.marks = View(doc).marks

(* Once stamped, such a patch is read as exactly those contents. *)
LEMMA BecomesWrites ==
    ASSUME NEW doc \in Document, NEW new, NEW contents, ListBecomes(doc, new, contents)
    PROVE  /\ View(Stamped(doc, new, FALSE)) = contents
           /\ Regular(Stamped(doc, new, FALSE))
<1> DEFINE written == Stamped(doc, new, FALSE)
<1>1. new \in Document /\ Regular(new) /\ SameSettings(doc, new) /\ contents \in Contents
  BY DEF ListBecomes
<1> DEFINE b == FALSE
<1>0. b \in BOOLEAN /\ IF b THEN new.keys ELSE SameSettings(doc, new)
  BY <1>1
<1> HIDE DEF b
<1>2. /\ Stamped(doc, new, b) \in Document /\ Regular(Stamped(doc, new, b))
      /\ View(Stamped(doc, new, b)).snapshots = ReadCollection(new)
      /\ View(Stamped(doc, new, b)).savedBase = ReadSavedBase(new)
      /\ View(Stamped(doc, new, b)).unreadable = UnreadableCount(new)
      /\ View(Stamped(doc, new, b)).marks = new.marks
      /\ View(Stamped(doc, new, b)).recorded = (b \/ View(doc).recorded)
      /\ View(Stamped(doc, new, b)).recipe = IF b THEN new.recipe ELSE View(doc).recipe
  BY <1>0, <1>1, StampedReads
<1>6. /\ written \in Document /\ Regular(written)
      /\ View(written).snapshots = ReadCollection(new)
      /\ View(written).savedBase = ReadSavedBase(new)
      /\ View(written).unreadable = UnreadableCount(new)
      /\ View(written).marks = new.marks
      /\ View(written).recorded = (FALSE \/ View(doc).recorded)
      /\ View(written).recipe = View(doc).recipe
  BY <1>2 DEF b
<1> HIDE DEF written
<1>3. View(written) \in Contents /\ View(doc) \in Contents
  BY <1>6, ViewType
<1>4. /\ View(written).snapshots = contents.snapshots
      /\ View(written).savedBase = contents.savedBase
      /\ View(written).unreadable = contents.unreadable
      /\ View(written).marks = contents.marks
      /\ View(written).recipe = contents.recipe
  BY <1>6, ViewSettings DEF ListBecomes
<1>5. View(written).recorded = contents.recorded
  BY <1>6, <1>3 DEF ListBecomes, Contents
<1> QED  BY <1>1, <1>6, <1>3, <1>4, <1>5, SameContents DEF written

(* What an edit of the list does not touch. *)
LEMMA EditedParts ==
    ASSUME NEW f \in Contents, NEW nextId, NEW entries
    PROVE  /\ Edited(f, nextId, entries).recorded = f.recorded
           /\ Edited(f, nextId, entries).recipe = f.recipe
           /\ Edited(f, nextId, entries).savedBase = f.savedBase
           /\ Edited(f, nextId, entries).marks = f.marks
           /\ Edited(f, nextId, entries).unreadable = f.unreadable
           /\ Edited(f, nextId, entries).snapshots.entries = entries
BY DEF Edited, Contents

(* A regular document and the contents read of it. *)
LEMMA ReadingIs ==
    ASSUME NEW doc \in Document, Regular(doc)
    PROVE  /\ View(doc) \in Contents
           /\ Valid(View(doc).snapshots) /\ CanBase(View(doc), View(doc).savedBase)
           /\ View(doc).snapshots \in Collection
           /\ View(doc).snapshots = ReadCollection(doc)
           /\ View(doc).snapshots.revision = doc.revision
           /\ View(doc).snapshots.nextId = Counter(doc)
           /\ Ids(View(doc).snapshots) = ListedIds(doc)
           /\ View(doc).marks = doc.marks
BY ViewType, ViewSettings, CollectionIs, RegularSound DEF Sound

(* A rename. *)
LEMMA RenameBecomes ==
    ASSUME NEW doc \in Document, Regular(doc), NEW id \in ListedIds(doc), NEW name \in Names
    PROVE  ListBecomes(doc, RenameNode(doc, id, name), RenameSnapshot(View(doc), id, name))
<1> DEFINE f == View(doc)
           at == NodeAt(doc, id)
           nodes == [doc.nodes EXCEPT ![at] = [doc.nodes[at] EXCEPT !.name = name]]
           new == RenameNode(doc, id, name)
           contents == RenameSnapshot(f, id, name)
           c == contents.snapshots
<1>1. /\ f \in Contents /\ Valid(f.snapshots) /\ f.snapshots \in Collection
      /\ f.snapshots = ReadCollection(doc)
      /\ f.snapshots.revision = doc.revision /\ f.snapshots.nextId = Counter(doc)
      /\ Ids(f.snapshots) = ListedIds(doc)
  BY ReadingIs
<1>2. /\ at \in ListedNodes(doc) /\ at \in 1 .. Len(doc.nodes)
      /\ nodes \in Seq(Node) /\ Counter(doc) \in RawId
      /\ new = Rewritten(doc, nodes, doc.base, doc.usable, Counter(doc))
  BY RenameType
<1>3. /\ Len(nodes) = Len(doc.nodes)
      /\ \A k \in 1 .. Len(doc.nodes) :
            nodes[k] = IF k = at THEN [doc.nodes[at] EXCEPT !.name = name] ELSE doc.nodes[k]
  BY <1>2, NodesType
<1> HIDE DEF nodes, at, new
<1>4. /\ new \in Document
      /\ new.nodes = nodes /\ new.base = doc.base /\ new.usable = doc.usable
      /\ new.nextId = Counter(doc) /\ new.revision = doc.revision + 1
      /\ new.recipe = doc.recipe /\ new.marks = doc.marks /\ new.keys = doc.keys
      /\ new.marker = doc.marker /\ new.version = doc.version
  <2>1. doc.base \in RawId /\ doc.usable \in BOOLEAN
    BY DEF Document
  <2> QED  BY <1>2, <2>1, RewrittenType
<1>5. SameShape(doc, new)
  <2>1. \A k \in 1 .. Len(doc.nodes) : SameNode(doc.nodes[k], nodes[k])
    BY <1>3, NodesType DEF SameNode, Node
  <2> QED  BY <1>3, <1>4, <2>1 DEF SameShape
<1>6. contents = Edited(f, Counter(doc), [f.snapshots.entries EXCEPT ![id].name = name])
  BY <1>1 DEF RenameSnapshot
<1>7. /\ contents \in Contents /\ c \in Collection /\ Valid(c)
      /\ c.revision = doc.revision + 1 /\ c.nextId = Counter(doc)
      /\ Ids(c) = ListedIds(doc)
  <2>1. /\ contents \in Contents
        /\ c.revision = doc.revision + 1 /\ c.nextId = Counter(doc)
        /\ Ids(c) = Ids(f.snapshots)
        /\ \A i \in Ids(f.snapshots) : c.entries[i].parent = f.snapshots.entries[i].parent
    BY <1>1, RenameEffect
  <2>2. c \in Collection
    BY <2>1 DEF Contents
  <2>3. Counter(doc) \in Int
    BY CounterIs
  <2> HIDE DEF c, f
  <2>4. Valid(c)
    BY <1>1, <2>1, <2>2, <2>3, SameTreeIsValid
  <2> QED  BY <1>1, <2>1, <2>2, <2>4
<1>8. c.entries = [f.snapshots.entries EXCEPT ![id].name = name]
  BY <1>1, <1>6, EditedParts
<1>9. ASSUME NEW k \in ListedNodes(doc)
      PROVE  c.entries[doc.nodes[k].id] = EntryOf(nodes[k], NamedParent(doc, k))
  <2>1. /\ doc.nodes[k].id \in ListedIds(doc) /\ doc.nodes[k].id \in SnapshotId
        /\ k \in 1 .. Len(doc.nodes) /\ doc.nodes[k] \in Node
        /\ NodeAt(doc, doc.nodes[k].id) = k
    BY ListedAre, NodesType
  <2>2. f.snapshots.entries[doc.nodes[k].id] = EntryOf(doc.nodes[k], NamedParent(doc, k))
    BY <1>1, RegularIs
  <2>3. doc.nodes[k].id = id <=> k = at
    BY <2>1, ListedAre DEF at
  <2>4. f.snapshots.entries \in [SnapshotId -> Snapshot \cup {NoSnapshot}]
    BY <1>1 DEF Collection
  <2> HIDE DEF f
  <2>5. CASE k = at
    <3>1. c.entries[id] = [f.snapshots.entries[id] EXCEPT !.name = name]
      BY <1>8, <2>1, <2>3, <2>4, <2>5
    <3>2. nodes[k] = [doc.nodes[k] EXCEPT !.name = name]
      BY <1>3, <2>1, <2>5
    <3> QED  BY <2>1, <2>2, <2>3, <2>5, <3>1, <3>2 DEF EntryOf, Node
  <2>6. CASE k # at
    <3>1. c.entries[doc.nodes[k].id] = f.snapshots.entries[doc.nodes[k].id]
      BY <1>8, <2>1, <2>3, <2>4, <2>6
    <3> QED  BY <1>3, <2>1, <2>2, <2>6, <3>1
  <2> QED  BY <2>5, <2>6
<1>10. /\ contents.recorded = f.recorded /\ contents.recipe = f.recipe
       /\ contents.marks = f.marks /\ contents.unreadable = f.unreadable
       /\ contents.savedBase = f.savedBase
  BY <1>1, <1>6, EditedParts
<1>11. f.savedBase = ReadSavedBase(doc) /\ f.unreadable = UnreadableCount(doc)
  BY ViewType
<1> HIDE DEF contents
<1>12. /\ Regular(new) /\ ReadCollection(new) = c
       /\ ReadSavedBase(new) = ReadSavedBase(doc)
       /\ UnreadableCount(new) = UnreadableCount(doc)
  <2>1. Acyclic(c)
    BY <1>7 DEF Valid
  <2> HIDE DEF c
  <2> QED  BY <1>4, <1>5, <1>7, <1>9, <2>1, SameShapeReads
<1> QED  BY <1>4, <1>7, <1>10, <1>11, <1>12 DEF ListBecomes, SameSettings, new, contents

-----------------------------------------------------------------------------
(* Thumbnails and adding. *)

(* Thumbnails, of those that are still listed. *)
LEMMA ThumbnailsBecome ==
    ASSUME NEW doc \in Document, Regular(doc), NEW ids
    PROVE  ListBecomes(doc, SetNodeThumbnails(doc, ids),
                       SetThumbnails(View(doc), ids \cap ListedIds(doc)))
<1> DEFINE f == View(doc)
           there == ids \cap ListedIds(doc)
           nodes == Pictured(doc, ids)
           new == SetNodeThumbnails(doc, ids)
           contents == SetThumbnails(f, there)
           c == contents.snapshots
<1>1. /\ f \in Contents /\ Valid(f.snapshots) /\ f.snapshots \in Collection
      /\ f.snapshots = ReadCollection(doc)
      /\ f.snapshots.revision = doc.revision /\ f.snapshots.nextId = Counter(doc)
      /\ Ids(f.snapshots) = ListedIds(doc)
  BY ReadingIs
<1>2. /\ new = [doc EXCEPT !.nodes = nodes] /\ new \in Document
      /\ nodes \in Seq(Node) /\ Len(nodes) = Len(doc.nodes)
  BY ThumbnailsType
<1>3. \A k \in 1 .. Len(doc.nodes) :
         nodes[k] = IF k \in ListedNodes(doc) /\ doc.nodes[k].id \in ids
                    THEN [doc.nodes[k] EXCEPT !.thumbnail = TRUE] ELSE doc.nodes[k]
  BY DEF Pictured
<1> HIDE DEF nodes, new
<1>4. /\ new.nodes = nodes /\ new.base = doc.base /\ new.usable = doc.usable
      /\ new.nextId = doc.nextId /\ new.revision = doc.revision
      /\ new.recipe = doc.recipe /\ new.marks = doc.marks /\ new.keys = doc.keys
      /\ new.marker = doc.marker /\ new.version = doc.version
  BY <1>2 DEF Document
<1>5. SameShape(doc, new)
  <2>1. \A k \in 1 .. Len(doc.nodes) : SameNode(doc.nodes[k], nodes[k])
    BY <1>3, NodesType DEF SameNode, Node
  <2> QED  BY <1>2, <1>4, <2>1 DEF SameShape
<1>6. /\ contents \in Contents /\ c \in Collection /\ Valid(c)
      /\ c.revision = doc.revision /\ c.nextId = Counter(doc)
      /\ Ids(c) = ListedIds(doc) /\ contents.savedBase = f.savedBase
  <2>0. there \in SUBSET Ids(f.snapshots)
    BY <1>1
  <2>1. /\ contents \in Contents
        /\ c.revision = f.snapshots.revision /\ c.nextId = f.snapshots.nextId
        /\ Ids(c) = Ids(f.snapshots) /\ contents.savedBase = f.savedBase
        /\ \A i \in Ids(f.snapshots) : c.entries[i].parent = f.snapshots.entries[i].parent
    <3> HIDE DEF f, there
    <3> QED  BY <1>1, <2>0, ThumbnailEffect
  <2>2. c \in Collection
    BY <2>1 DEF Contents
  <2>3. Counter(doc) \in Int
    BY CounterIs
  <2> HIDE DEF c, f
  <2>4. Valid(c)
    BY <1>1, <2>1, <2>2, <2>3, SameTreeIsValid
  <2> QED  BY <1>1, <2>1, <2>2, <2>4
<1> DEFINE entries == [id \in SnapshotId |->
                          IF id \in there THEN [f.snapshots.entries[id] EXCEPT !.thumbnail = TRUE]
                          ELSE f.snapshots.entries[id]]
<1>7. contents = [f EXCEPT !.snapshots.entries = entries]
  BY DEF SetThumbnails
<1>8. /\ c.entries = entries
      /\ contents.recorded = f.recorded /\ contents.recipe = f.recipe
      /\ contents.marks = f.marks /\ contents.unreadable = f.unreadable
  <2> HIDE DEF f, entries, contents
  <2> QED  BY <1>1, <1>7 DEF Contents, Collection
<1>9. ASSUME NEW k \in ListedNodes(doc)
      PROVE  c.entries[doc.nodes[k].id] = EntryOf(nodes[k], NamedParent(doc, k))
  <2>1. /\ doc.nodes[k].id \in ListedIds(doc) /\ doc.nodes[k].id \in SnapshotId
        /\ k \in 1 .. Len(doc.nodes) /\ doc.nodes[k] \in Node
    BY ListedAre, NodesType
  <2>2. f.snapshots.entries[doc.nodes[k].id] = EntryOf(doc.nodes[k], NamedParent(doc, k))
    BY <1>1, RegularIs
  <2> HIDE DEF f
  <2>3. c.entries[doc.nodes[k].id] =
           IF doc.nodes[k].id \in ids
           THEN [EntryOf(doc.nodes[k], NamedParent(doc, k)) EXCEPT !.thumbnail = TRUE]
           ELSE EntryOf(doc.nodes[k], NamedParent(doc, k))
    BY <1>8, <2>1, <2>2
  <2>4. nodes[k] = IF doc.nodes[k].id \in ids
                   THEN [doc.nodes[k] EXCEPT !.thumbnail = TRUE] ELSE doc.nodes[k]
    BY <1>3, <2>1
  <2>5. EntryOf([doc.nodes[k] EXCEPT !.thumbnail = TRUE], NamedParent(doc, k)) =
           [EntryOf(doc.nodes[k], NamedParent(doc, k)) EXCEPT !.thumbnail = TRUE]
    <3> DEFINE yes == TRUE
               node == doc.nodes[k]
               parent == NamedParent(doc, k)
    <3>1. node \in Node
      BY <2>1
    <3> HIDE DEF yes, node, parent
    <3>2. EntryOf([node EXCEPT !.thumbnail = yes], parent) =
             [EntryOf(node, parent) EXCEPT !.thumbnail = yes]
      BY <3>1 DEF EntryOf, Node
    <3> QED  BY <3>2 DEF yes, node, parent
  <2> QED  BY <2>3, <2>4, <2>5
<1>10. f.savedBase = ReadSavedBase(doc) /\ f.unreadable = UnreadableCount(doc)
  BY ViewType
<1> HIDE DEF contents
<1>11. /\ Regular(new) /\ ReadCollection(new) = c
       /\ ReadSavedBase(new) = ReadSavedBase(doc)
       /\ UnreadableCount(new) = UnreadableCount(doc)
  <2>1. Acyclic(c)
    BY <1>6 DEF Valid
  <2> HIDE DEF c, f
  <2> QED  BY <1>2, <1>4, <1>5, <1>6, <1>9, <2>1, SameShapeReads
<1> QED  BY <1>2, <1>4, <1>6, <1>8, <1>10, <1>11 DEF ListBecomes, SameSettings, new, contents

(* What an add and a discard and a delete leave is read as the store has it. *)
LEMMA AddBecomes ==
    ASSUME NEW doc \in Document, Regular(doc), doc.usable, NEW draft \in Snapshot,
           Len(doc.nodes) < MaximumSnapshots, Counter(doc) # MaximumId,
           draft.parent \in ListedIds(doc) \cup {NoId}
    PROVE  /\ CanAdd(View(doc), draft)
           /\ ListBecomes(doc, AddNode(doc, draft), AddSnapshot(View(doc), draft))
<1> DEFINE f == View(doc)
           n == Len(doc.nodes) + 1
           id == Counter(doc)
           nodes == Append(doc.nodes, NewNode(doc, draft))
           new == AddNode(doc, draft)
           contents == AddSnapshot(f, draft)
           c == contents.snapshots
<1>1. /\ f \in Contents /\ Valid(f.snapshots) /\ f.snapshots \in Collection
      /\ f.snapshots = ReadCollection(doc)
      /\ f.snapshots.revision = doc.revision /\ f.snapshots.nextId = id
      /\ Ids(f.snapshots) = ListedIds(doc)
      /\ f.savedBase = ReadSavedBase(doc) /\ f.unreadable = UnreadableCount(doc)
  BY ReadingIs, ViewType
<1>2. /\ new = Rewritten(doc, nodes, doc.base, doc.usable, id + 1)
      /\ NewNode(doc, draft) \in Node /\ nodes \in Seq(Node)
      /\ id \in 1 .. MaximumId - 1 /\ id + 1 \in RawId
  BY AddType
<1>3. /\ Len(nodes) = n /\ n \in Nat /\ n = Len(doc.nodes) + 1
      /\ nodes[n] = NewNode(doc, draft)
      /\ \A k \in 1 .. Len(doc.nodes) : nodes[k] = doc.nodes[k]
  BY <1>2, NodesType
<1>4. /\ NewNode(doc, draft).id = id /\ NewNode(doc, draft).readable
      /\ NewNode(doc, draft).parent = draft.parent
      /\ \A parent : EntryOf(NewNode(doc, draft), parent) = [draft EXCEPT !.parent = parent]
  BY DEF NewNode, EntryOf, Snapshot
<1> HIDE DEF nodes, new, n
<1>5. /\ new \in Document
      /\ new.nodes = nodes /\ new.base = doc.base /\ new.usable = doc.usable
      /\ new.nextId = id + 1 /\ new.revision = doc.revision + 1
      /\ new.recipe = doc.recipe /\ new.marks = doc.marks /\ new.keys = doc.keys
      /\ new.marker = doc.marker /\ new.version = doc.version
  <2>1. doc.base \in RawId /\ doc.usable \in BOOLEAN
    BY DEF Document
  <2> DEFINE next == id + 1
             usable == doc.usable
  <2>2. new = Rewritten(doc, nodes, doc.base, usable, next) /\ next \in RawId
    BY <1>2
  <2>3. nodes \in Seq(Node) /\ usable \in BOOLEAN
    BY <1>2, <2>1
  <2> HIDE DEF next, usable
  <2>4. /\ new \in Document
        /\ new.nodes = nodes /\ new.base = doc.base /\ new.usable = usable
        /\ new.nextId = next /\ new.revision = doc.revision + 1
        /\ new.recipe = doc.recipe /\ new.marks = doc.marks /\ new.keys = doc.keys
        /\ new.marker = doc.marker /\ new.version = doc.version
    BY <2>1, <2>2, <2>3, RewrittenType
  <2> QED  BY <2>4 DEF next, usable
<1>6. /\ id \in SnapshotId /\ MaximumId \in Nat
      /\ \A seen \in SeenIds(doc) : seen \in Int /\ seen < id
      /\ \A named \in NamedIds(doc) : named < id
  <2>1. Above(SeenIds(doc), id) /\ Above(NamedIds(doc), id)
    BY CounterIs DEF Regular
  <2>2. SeenIds(doc) \in SUBSET RawId
    BY RawIdsType
  <2>3. id \in SnapshotId /\ MaximumId \in Nat
    BY <1>2, SnapshotsAssumption DEF SnapshotId
  <2> HIDE DEF id
  <2> QED  BY <1>2, <2>1, <2>2, <2>3 DEF Above, RawId
<1>7. ListedNodes(doc) = Readable(doc) /\ Readable(doc) \subseteq 1 .. Len(doc.nodes)
  BY RegularIs DEF Readable
<1>8. \A k \in 1 .. Len(doc.nodes) : doc.nodes[k].id < id /\ doc.nodes[k].id # id
  <2>1. \A k \in 1 .. Len(doc.nodes) : doc.nodes[k].id \in SeenIds(doc)
    BY DEF SeenIds, RawIds
  <2> HIDE DEF id
  <2> QED  BY <1>2, <1>6, <2>1
<1>9. Readable(new) = Readable(doc) \cup {n}
  <2>1. 1 .. n = (1 .. Len(doc.nodes)) \cup {n}
    BY <1>3, NodesType
  <2> HIDE DEF id
  <2> QED  BY <1>3, <1>4, <1>5, <1>6, <2>1 DEF Readable, CanList
<1>10. Distinct(new)
  <2>1. Distinct(doc)
    BY DEF Regular
  <2>2. Len(new.nodes) <= MaximumSnapshots
    BY <1>3, <1>5, NodesType, SnapshotsAssumption
  <2> HIDE DEF id
  <2>3. \A j, k \in Readable(new) : new.nodes[j].id = new.nodes[k].id => j = k
    BY <1>3, <1>4, <1>5, <1>7, <1>8, <1>9, <2>1 DEF Distinct
  <2> QED  BY <2>2, <2>3 DEF Distinct
<1>11. ListedNodes(new) = ListedNodes(doc) \cup {n}
  BY <1>5, <1>7, <1>9, <1>10, DistinctIs
<1>12. ListedIds(new) = ListedIds(doc) \cup {id} /\ id \notin ListedIds(doc)
  <2> HIDE DEF id
  <2> QED  BY <1>3, <1>4, <1>5, <1>7, <1>8, <1>11 DEF ListedIds
<1>13. Counter(new) = id + 1
  <2>1. SeenIds(new) = SeenIds(doc) \cup {id}
    <3>1. 1 .. n = (1 .. Len(doc.nodes)) \cup {n}
      BY <1>3, NodesType
    <3>2. RawIds(nodes) = RawIds(doc.nodes) \cup {id}
      <4> HIDE DEF id
      <4> QED  BY <1>3, <1>4, <3>1 DEF RawIds
    <3> QED  BY <1>5, <3>2 DEF SeenIds
  <2>2. id + 1 \in 1 .. MaximumId /\ id \in Int
    BY <1>2, <1>6
  <2> HIDE DEF id
  <2>3. Above(SeenIds(new), new.nextId)
    BY <1>5, <1>6, <2>1, <2>2 DEF Above
  <2> QED  BY <1>5, <2>2, <2>3, CounterWritten
<1>14. \A k \in ListedNodes(doc) : NamedParent(new, k) = NamedParent(doc, k)
  <2> SUFFICES ASSUME NEW k \in ListedNodes(doc)
               PROVE  NamedParent(new, k) = NamedParent(doc, k)
    OBVIOUS
  <2>1. new.nodes[k] = doc.nodes[k] /\ doc.nodes[k].parent \in NamedIds(doc)
    BY <1>3, <1>5, <1>7 DEF NamedIds
  <2> HIDE DEF id
  <2>2. doc.nodes[k].parent # id
    BY <1>2, <1>6, <2>1
  <2> QED  BY <1>12, <2>1, <2>2 DEF NamedParent
<1>15. NamedParent(new, n) = draft.parent
  <2>1. new.nodes[n].parent = draft.parent /\ new.nodes[n].id = id
    BY <1>3, <1>4, <1>5
  <2> HIDE DEF id
  <2>2. draft.parent # id
    BY <1>2, <1>12 DEF NoId
  <2> QED  BY <1>12, <2>1, <2>2 DEF NamedParent
<1>16. Cardinality(ListedIds(doc)) + UnreadableCount(doc) = Len(doc.nodes)
  BY IdsCount, NodesType DEF UnreadableCount
<1>17. CanAdd(f, draft)
  <2>1. HasRoom(f)
    BY <1>1, <1>16 DEF HasRoom
  <2> QED  BY <1>1, <2>1 DEF CanAdd
<1>18. /\ contents \in Contents /\ contents.savedBase = f.savedBase
       /\ c.revision = doc.revision + 1 /\ c.nextId = id + 1
       /\ Ids(c) = ListedIds(doc) \cup {id}
       /\ c.entries[id] = draft
       /\ \A other \in ListedIds(doc) : c.entries[other] = f.snapshots.entries[other]
       /\ c \in Collection /\ Valid(c)
  <2>1. BelowCounter(f.snapshots) /\ f.snapshots.nextId # MaximumId
    BY <1>1 DEF Valid
  <2> HIDE DEF f
  <2>2. Valid(c)
    BY <1>1, <1>17, AddKeepsValid
  <2> QED  BY <1>1, <2>1, <2>2, AddEffect DEF Contents
<1>19. /\ contents.recorded = f.recorded /\ contents.recipe = f.recipe
       /\ contents.marks = f.marks /\ contents.unreadable = f.unreadable
  <2> HIDE DEF f
  <2> QED  BY <1>1, EditedParts DEF AddSnapshot
<1> HIDE DEF contents
<1>20. \A k \in ListedNodes(new) :
          c.entries[new.nodes[k].id] = EntryOf(new.nodes[k], NamedParent(new, k))
  <2>1. ASSUME NEW k \in ListedNodes(doc)
        PROVE  c.entries[new.nodes[k].id] = EntryOf(new.nodes[k], NamedParent(new, k))
    <3>1. new.nodes[k] = doc.nodes[k]
      BY <1>3, <1>5, <1>7
    <3>2. /\ doc.nodes[k].id \in ListedIds(doc)
          /\ f.snapshots.entries[doc.nodes[k].id] = EntryOf(doc.nodes[k], NamedParent(doc, k))
      BY <1>1, RegularIs
    <3> QED  BY <1>14, <1>18, <3>1, <3>2
  <2>2. c.entries[new.nodes[n].id] = EntryOf(new.nodes[n], NamedParent(new, n))
    <3>1. [draft EXCEPT !.parent = draft.parent] = draft
      BY DEF Snapshot
    <3> QED  BY <1>3, <1>4, <1>5, <1>15, <1>18, <3>1
  <2> QED  BY <1>11, <2>1, <2>2
<1>21. NoCycle(NamedParents(new)) /\ ReadCollection(new) = c
  <2>1. Acyclic(c)
    BY <1>18 DEF Valid
  <2> HIDE DEF c, id
  <2> QED  BY <1>5, <1>12, <1>13, <1>18, <1>20, <2>1, Agrees
<1>22. Regular(new)
  <2>1. NamedIds(new) \subseteq NamedIds(doc) \cup {draft.parent}
    BY <1>3, <1>4, <1>5, <1>7, <1>9 DEF NamedIds
  <2>2. draft.parent < id
    <3>1. \A other \in ListedIds(doc) : other < id
      BY ListedBelow
    <3> HIDE DEF id
    <3> QED  BY <1>2, <3>1 DEF NoId
  <2>3. \A named \in NamedIds(doc) \cup {draft.parent} : named \in Int
    <3>1. \A k \in 1 .. Len(doc.nodes) : doc.nodes[k].parent \in RawId
      BY NodesType DEF Node
    <3>2. doc.base \in RawId /\ draft.parent \in MaybeId
      BY DEF Document, Snapshot
    <3> QED  BY <1>7, <3>1, <3>2 DEF NamedIds, RawId, MaybeId, SnapshotId, NoId
  <2> HIDE DEF id
  <2>4. Above(NamedIds(new), id + 1)
    <3>1. ASSUME NEW named \in NamedIds(new) PROVE named < id + 1
      <4>1. named < id /\ named \in Int
        BY <1>6, <2>1, <2>2, <2>3
      <4> QED  BY <1>2, <4>1
    <3> QED  BY <3>1 DEF Above
  <2> QED  BY <1>10, <1>13, <1>21, <2>4 DEF Regular
<1>23. UnreadableCount(new) = UnreadableCount(doc)
  <2>1. Cardinality(ListedIds(new)) = Cardinality(ListedIds(doc)) + 1
    <3> HIDE DEF id
    <3> QED  BY <1>12, IdsCount, FS_AddElement
  <2>2. /\ Cardinality(ListedIds(new)) = Cardinality(ListedNodes(new))
        /\ Cardinality(ListedIds(doc)) = Cardinality(ListedNodes(doc))
        /\ Cardinality(ListedNodes(doc)) \in Int
    BY <1>5, IdsCount
  <2> QED  BY <1>3, <1>5, <2>1, <2>2, NodesType DEF UnreadableCount
<1>24. ReadSavedBase(new) = ReadSavedBase(doc)
  <2>1. doc.base \in NamedIds(doc)
    BY DEF NamedIds
  <2> HIDE DEF id
  <2>2. doc.base # id
    BY <1>2, <1>6, <2>1
  <2> QED  BY <1>5, <1>12, <2>2 DEF ReadSavedBase
<1>25. ListBecomes(doc, new, contents)
  <2> HIDE DEF f
  <2> QED  BY <1>1, <1>5, <1>18, <1>19, <1>21, <1>22, <1>23, <1>24
           DEF ListBecomes, SameSettings, f
<1> QED  BY <1>17, <1>25 DEF new, contents

-----------------------------------------------------------------------------
(* Deleting. *)

(* A delete: the children and the saved base go to the parent. *)
LEMMA DeleteBecomes ==
    ASSUME NEW doc \in Document, Regular(doc), NEW id \in ListedIds(doc)
    PROVE  ListBecomes(doc, DeleteNode(doc, id), DeleteSnapshot(View(doc), id))
<1> DEFINE f == View(doc)
           at == NodeAt(doc, id)
           heir == HeirOf(doc, id)
           moved == MovedNodes(doc, id)
           nodes == RemoveAt(moved, at)
           base == MovedBase(doc, id)
           new == DeleteNode(doc, id)
           contents == DeleteSnapshot(f, id)
           c == contents.snapshots
           last == Len(doc.nodes) - 1
           was(i) == Was(at, i)
<1>1. /\ f \in Contents /\ Valid(f.snapshots) /\ f.snapshots \in Collection
      /\ CanBase(f, f.savedBase)
      /\ f.snapshots = ReadCollection(doc)
      /\ f.snapshots.revision = doc.revision /\ f.snapshots.nextId = Counter(doc)
      /\ Ids(f.snapshots) = ListedIds(doc)
      /\ f.savedBase = ReadSavedBase(doc) /\ f.unreadable = UnreadableCount(doc)
      /\ f.marks = doc.marks
  BY ReadingIs, ViewType
<1>2. /\ at \in ListedNodes(doc) /\ at \in 1 .. Len(doc.nodes)
      /\ moved \in Seq(Node) /\ Len(moved) = Len(doc.nodes)
      /\ nodes \in Seq(Node) /\ base \in RawId /\ Counter(doc) \in RawId
      /\ new = Rewritten(doc, nodes, base, doc.usable, Counter(doc))
      /\ doc.nodes[at].id = id
  BY DeleteType, ListedAre
<1>3. doc.usable /\ id \in SnapshotId /\ id < Counter(doc)
  BY ListedBelow, ListedAre
<1>4. /\ ListedNodes(doc) = Readable(doc) /\ Readable(doc) \subseteq 1 .. Len(doc.nodes)
      /\ Distinct(doc) /\ Above(NamedIds(doc), Counter(doc))
  BY <1>3, RegularIs DEF Readable, Regular
<1>5. \A k \in ListedNodes(doc) :
         /\ doc.nodes[k].id \in ListedIds(doc)
         /\ ReadParents(doc)[doc.nodes[k].id] = NamedParent(doc, k)
         /\ f.snapshots.entries[doc.nodes[k].id] = EntryOf(doc.nodes[k], NamedParent(doc, k))
         /\ k # at => doc.nodes[k].id # id
  BY <1>1, <1>2, <1>4, RegularIs DEF Distinct
<1>6. /\ heir = NamedParent(doc, at) /\ heir \in ListedIds(doc) \cup {NoId} /\ heir # id
      /\ heir = f.snapshots.entries[id].parent
  <2>1. ReadParents(doc)[doc.nodes[at].id] = NamedParent(doc, at)
    BY <1>2, <1>5
  <2>2. f.snapshots.entries[id] = EntryOf(doc.nodes[at], NamedParent(doc, at))
    BY <1>2, <1>5
  <2> HIDE DEF f, at
  <2>3. heir = NamedParent(doc, at) /\ heir = f.snapshots.entries[id].parent
    BY <1>2, <2>1, <2>2 DEF HeirOf, EntryOf
  <2>4. id # NoId
    BY <1>3, SnapshotsAssumption DEF SnapshotId, NoId
  <2> QED  BY <1>2, <2>3, <2>4, NamedIsListed
<1> HIDE DEF f, at, heir
<1>7. \A k \in 1 .. Len(doc.nodes) :
         moved[k] = IF k \in ListedNodes(doc) /\ NamedParent(doc, k) = id
                    THEN [doc.nodes[k] EXCEPT !.parent = heir] ELSE doc.nodes[k]
  BY <1>5 DEF MovedNodes, heir
<1>8. \A k \in 1 .. Len(doc.nodes) :
         /\ moved[k].id = doc.nodes[k].id /\ moved[k].readable = doc.nodes[k].readable
         /\ moved[k].parent = IF k \in ListedNodes(doc) /\ NamedParent(doc, k) = id
                              THEN heir ELSE doc.nodes[k].parent
         /\ \A parent : EntryOf(moved[k], parent) = EntryOf(doc.nodes[k], parent)
  <2> SUFFICES ASSUME NEW k \in 1 .. Len(doc.nodes)
               PROVE  /\ moved[k].id = doc.nodes[k].id
                      /\ moved[k].readable = doc.nodes[k].readable
                      /\ moved[k].parent = IF k \in ListedNodes(doc) /\ NamedParent(doc, k) = id
                                           THEN heir ELSE doc.nodes[k].parent
                      /\ \A parent : EntryOf(moved[k], parent) = EntryOf(doc.nodes[k], parent)
    OBVIOUS
  <2>1. doc.nodes[k] \in Node
    BY NodesType
  <2>2. CASE k \in ListedNodes(doc) /\ NamedParent(doc, k) = id
    <3>1. moved[k] = [doc.nodes[k] EXCEPT !.parent = heir]
      BY <1>7, <2>2
    <3> HIDE DEF moved
    <3> QED  BY <2>1, <2>2, <3>1 DEF Node, EntryOf
  <2>3. CASE ~(k \in ListedNodes(doc) /\ NamedParent(doc, k) = id)
    BY <1>7, <2>3
  <2> QED  BY <2>2, <2>3
<1> HIDE DEF moved
<1>9. /\ Len(nodes) = last /\ last \in Nat /\ last < Len(doc.nodes)
      /\ \A i \in 1 .. last : /\ nodes[i] = moved[was(i)]
                              /\ was(i) \in (1 .. Len(doc.nodes)) \ {at}
      /\ \A k \in (1 .. Len(doc.nodes)) \ {at} : \E i \in 1 .. last : k = was(i)
      /\ \A i, j \in 1 .. last : was(i) = was(j) => i = j
  <2>0. at \in 1 .. Len(moved) /\ moved \in Seq(Node)
    BY <1>2
  <2>1. /\ Len(RemoveAt(moved, at)) = Len(moved) - 1
        /\ \A i \in 1 .. Len(moved) - 1 : /\ RemoveAt(moved, at)[i] = moved[Was(at, i)]
                                          /\ Was(at, i) \in (1 .. Len(moved)) \ {at}
        /\ \A k \in (1 .. Len(moved)) \ {at} :
              \E i \in 1 .. Len(moved) - 1 : k = Was(at, i)
    <3> HIDE DEF nodes, was
    <3> QED  BY <2>0, Removed
  <2>2. \A i, j \in 1 .. last : was(i) = was(j) => i = j
    BY <1>2, NodesType DEF Was
  <2> QED  BY <1>2, <2>1, <2>2, NodesType
<1> HIDE DEF nodes, base, new, last, was
<1>10. /\ new \in Document
       /\ new.nodes = nodes /\ new.base = base /\ new.usable = doc.usable
       /\ new.nextId = Counter(doc) /\ new.revision = doc.revision + 1
       /\ new.recipe = doc.recipe /\ new.marks = doc.marks /\ new.keys = doc.keys
       /\ new.marker = doc.marker /\ new.version = doc.version
  <2> DEFINE usable == doc.usable
  <2>1. usable \in BOOLEAN
    BY DEF Document
  <2>2. new = Rewritten(doc, nodes, base, usable, Counter(doc))
    BY <1>2
  <2> HIDE DEF usable
  <2>3. /\ new \in Document
        /\ new.nodes = nodes /\ new.base = base /\ new.usable = usable
        /\ new.nextId = Counter(doc) /\ new.revision = doc.revision + 1
        /\ new.recipe = doc.recipe /\ new.marks = doc.marks /\ new.keys = doc.keys
        /\ new.marker = doc.marker /\ new.version = doc.version
    BY <1>2, <2>1, <2>2, RewrittenType
  <2> QED  BY <2>3 DEF usable
<1>11. \A i \in 1 .. last :
          /\ was(i) \in 1 .. Len(doc.nodes) /\ was(i) # at
          /\ new.nodes[i].id = doc.nodes[was(i)].id
          /\ new.nodes[i].readable = doc.nodes[was(i)].readable
          /\ \A parent : EntryOf(new.nodes[i], parent) = EntryOf(doc.nodes[was(i)], parent)
          /\ new.nodes[i].parent =
                IF was(i) \in ListedNodes(doc) /\ NamedParent(doc, was(i)) = id
                THEN heir ELSE doc.nodes[was(i)].parent
  <2> SUFFICES ASSUME NEW i \in 1 .. last
               PROVE  /\ was(i) \in 1 .. Len(doc.nodes) /\ was(i) # at
                      /\ new.nodes[i].id = doc.nodes[was(i)].id
                      /\ new.nodes[i].readable = doc.nodes[was(i)].readable
                      /\ \A parent : EntryOf(new.nodes[i], parent) =
                                        EntryOf(doc.nodes[was(i)], parent)
                      /\ new.nodes[i].parent =
                            IF was(i) \in ListedNodes(doc) /\ NamedParent(doc, was(i)) = id
                            THEN heir ELSE doc.nodes[was(i)].parent
    OBVIOUS
  <2>1. was(i) \in 1 .. Len(doc.nodes) /\ was(i) # at /\ new.nodes[i] = moved[was(i)]
    BY <1>9, <1>10
  <2> QED  BY <1>8, <2>1
<1>12. Readable(new) = {i \in 1 .. last : was(i) \in Readable(doc)}
  BY <1>3, <1>9, <1>10, <1>11 DEF Readable, CanList
<1>13. Distinct(new)
  <2>1. Len(new.nodes) <= MaximumSnapshots
    BY <1>4, <1>9, <1>10, NodesType, SnapshotsAssumption DEF Distinct
  <2>2. \A i, j \in Readable(new) : new.nodes[i].id = new.nodes[j].id => i = j
    BY <1>4, <1>9, <1>11, <1>12 DEF Distinct
  <2> QED  BY <2>1, <2>2 DEF Distinct
<1>14. ListedNodes(new) = Readable(new)
  BY <1>10, <1>13, DistinctIs
<1>15. ListedIds(new) = ListedIds(doc) \ {id}
  <2>1. ASSUME NEW i \in ListedNodes(new) PROVE new.nodes[i].id \in ListedIds(doc) \ {id}
    BY <1>4, <1>5, <1>11, <1>12, <1>14
  <2>2. ASSUME NEW other \in ListedIds(doc) \ {id}
        PROVE  \E i \in ListedNodes(new) : new.nodes[i].id = other
    <3>1. PICK k \in ListedNodes(doc) : doc.nodes[k].id = other
      BY DEF ListedIds
    <3>2. k \in (1 .. Len(doc.nodes)) \ {at}
      BY <1>2, <1>4, <3>1
    <3>3. PICK i \in 1 .. last : k = was(i)
      BY <1>9, <3>2
    <3> QED  BY <1>4, <1>11, <1>12, <1>14, <3>1, <3>3
  <2>3. ListedIds(new) = {new.nodes[i].id : i \in ListedNodes(new)}
    BY DEF ListedIds
  <2> QED  BY <2>1, <2>2, <2>3
<1>16. Counter(new) = Counter(doc)
  <2>1. SeenIds(new) \subseteq SeenIds(doc)
    <3>1. RawIds(new.nodes) \subseteq RawIds(doc.nodes)
      <4>1. \A i \in 1 .. Len(new.nodes) :
               was(i) \in 1 .. Len(doc.nodes) /\ new.nodes[i].id = doc.nodes[was(i)].id
        BY <1>9, <1>10, <1>11
      <4> QED  BY <4>1 DEF RawIds
    <3> QED  BY <1>3, <3>1 DEF SeenIds
  <2>2. Above(SeenIds(doc), Counter(doc)) /\ Counter(doc) \in 1 .. MaximumId
    BY CounterIs
  <2>3. Above(SeenIds(new), new.nextId) /\ new.nextId \in 1 .. MaximumId
    BY <1>10, <2>1, <2>2 DEF Above
  <2> QED  BY <1>10, <2>3, CounterWritten
<1>17. ASSUME NEW i \in ListedNodes(new)
       PROVE  /\ was(i) \in ListedNodes(doc) /\ was(i) # at
              /\ NamedParent(new, i) = IF NamedParent(doc, was(i)) = id THEN heir
                                       ELSE NamedParent(doc, was(i))
  <2> DEFINE k == was(i)
             own == doc.nodes[k].id
  <2>1. i \in 1 .. last /\ k \in ListedNodes(doc) /\ k # at
    BY <1>4, <1>11, <1>12, <1>14, <1>17
  <2>2. own \in ListedIds(doc) /\ own # id /\ new.nodes[i].id = own
    BY <1>5, <1>11, <2>1
  <2>3. CASE NamedParent(doc, k) = id
    <3>1. new.nodes[i].parent = heir
      BY <1>11, <2>1, <2>3
    <3>2. heir # own
      <4> SUFFICES ASSUME heir = own PROVE FALSE
        OBVIOUS
      <4>1. f.snapshots.entries[own].parent = id
        <5>1. f.snapshots.entries[own] = EntryOf(doc.nodes[k], NamedParent(doc, k))
          BY <1>5, <2>1
        <5> HIDE DEF own, k
        <5> QED  BY <2>3, <5>1 DEF EntryOf
      <4>2. f.snapshots.entries[id].parent = own
        BY <1>6
      <4>3. {own, id} \in SUBSET Ids(f.snapshots) /\ {own, id} # {}
        BY <1>1, <2>2
      <4>4. \E other \in {own, id} : f.snapshots.entries[other].parent \notin {own, id}
        BY <1>1, <4>3 DEF Valid, Acyclic
      <4> QED  BY <4>1, <4>2, <4>4
    <3>3. NamedParent(new, i) = heir
      <4>1. new.nodes[i].id # heir
        BY <2>2, <3>2
      <4> QED  BY <1>6, <1>15, <3>1, <4>1 DEF NamedParent
    <3> QED  BY <2>1, <2>3, <3>3
  <2>4. CASE NamedParent(doc, k) # id
    <3>1. new.nodes[i].parent = doc.nodes[k].parent
      BY <1>11, <2>1, <2>4
    <3>2. doc.nodes[k].parent # id
      BY <2>2, <2>4 DEF NamedParent
    <3>3. NamedParent(new, i) = NamedParent(doc, k)
      BY <1>15, <2>2, <3>1, <3>2 DEF NamedParent
    <3> QED  BY <2>1, <2>4, <3>3
  <2> QED  BY <2>3, <2>4
<1>18. /\ contents \in Contents /\ c \in Collection /\ Valid(c)
       /\ contents.savedBase = IF f.savedBase = id THEN heir ELSE f.savedBase
       /\ c.revision = doc.revision + 1 /\ c.nextId = Counter(doc)
       /\ Ids(c) = ListedIds(doc) \ {id}
  <2>1. Valid(c)
    BY <1>1, DeleteKeepsSound
  <2> QED  BY <1>1, <1>6, <2>1, DeleteEffect DEF Contents
<1> DEFINE shift(ref) == IF ref = id THEN heir ELSE ref
           entries == [other \in SnapshotId |->
                          IF other \in Ids(f.snapshots) \ {id}
                          THEN [f.snapshots.entries[other] EXCEPT
                                   !.parent = shift(f.snapshots.entries[other].parent)]
                          ELSE NoSnapshot]
           based == [f EXCEPT !.savedBase = shift(f.savedBase)]
<1>19. contents = Edited(based, Counter(doc), entries)
  <2>1. \A other \in Ids(f.snapshots) :
           [f.snapshots.entries[other] EXCEPT !.parent = shift(@)] =
               [f.snapshots.entries[other] EXCEPT
                   !.parent = shift(f.snapshots.entries[other].parent)]
    BY <1>1, IdsType DEF Snapshot
  <2> QED  BY <1>1, <1>6, <2>1 DEF DeleteSnapshot, Contents
<1>20. /\ c.entries = entries
       /\ contents.recorded = f.recorded /\ contents.recipe = f.recipe
       /\ contents.marks = f.marks /\ contents.unreadable = f.unreadable
  <2>1. /\ based \in Contents
        /\ based.recorded = f.recorded /\ based.recipe = f.recipe
        /\ based.marks = f.marks /\ based.unreadable = f.unreadable
    <3>1. shift(f.savedBase) \in MaybeId
      BY <1>1, <1>6, ListedAre DEF Contents, MaybeId
    <3> HIDE DEF shift
    <3> QED  BY <1>1, <3>1 DEF Contents
  <2> HIDE DEF based, entries
  <2> QED  BY <1>19, <2>1, EditedParts
<1> HIDE DEF contents, c
<1>21. ASSUME NEW i \in ListedNodes(new)
       PROVE  c.entries[new.nodes[i].id] = EntryOf(new.nodes[i], NamedParent(new, i))
  <2> DEFINE k == was(i)
             own == doc.nodes[k].id
             named == NamedParent(doc, k)
  <2>1. k \in ListedNodes(doc) /\ k # at /\ i \in 1 .. last
    BY <1>12, <1>14, <1>17, <1>21
  <2>2. own \in Ids(f.snapshots) \ {id} /\ own \in SnapshotId
    BY <1>1, <1>5, <2>1, ListedAre
  <2>3. c.entries[own] = [f.snapshots.entries[own] EXCEPT
                             !.parent = shift(f.snapshots.entries[own].parent)]
    BY <1>20, <2>2
  <2>4. f.snapshots.entries[own] = EntryOf(doc.nodes[k], named)
    BY <1>5, <2>1
  <2>5. NamedParent(new, i) = shift(named)
    BY <1>17
  <2>6. new.nodes[i].id = own /\ \A parent : EntryOf(new.nodes[i], parent) = EntryOf(doc.nodes[k], parent)
    BY <1>11, <2>1
  <2> HIDE DEF shift, own, named, k, entries
  <2>7. [EntryOf(doc.nodes[k], named) EXCEPT !.parent = shift(named)] =
           EntryOf(doc.nodes[k], shift(named))
    BY DEF EntryOf
  <2>8. EntryOf(doc.nodes[k], named).parent = named
    BY DEF EntryOf
  <2> QED  BY <2>3, <2>4, <2>5, <2>6, <2>7, <2>8
<1>22. NoCycle(NamedParents(new)) /\ ReadCollection(new) = c
  <2>1. Acyclic(c)
    BY <1>18 DEF Valid
  <2> QED  BY <1>10, <1>15, <1>16, <1>18, <1>21, <2>1, Agrees
<1>23. heir < Counter(doc)
  <2>1. \A other \in ListedIds(doc) : other < Counter(doc)
    BY ListedBelow
  <2>2. NoId < Counter(doc)
    BY CounterIs, SnapshotsAssumption DEF NoId
  <2> QED  BY <1>6, <2>1, <2>2
<1>24. Regular(new)
  <2>1. NamedIds(new) \subseteq NamedIds(doc) \cup {heir}
    <3>1. base \in {doc.base, heir}
      BY DEF base, MovedBase, heir
    <3>2. \A i \in Readable(new) : new.nodes[i].parent \in {doc.nodes[was(i)].parent, heir}
      BY <1>11, <1>12
    <3> QED  BY <1>10, <1>12, <3>1, <3>2 DEF NamedIds
  <2>2. Above(NamedIds(new), Counter(doc))
    BY <1>4, <1>23, <2>1 DEF Above
  <2> QED  BY <1>13, <1>16, <1>22, <2>2 DEF Regular
<1>25. UnreadableCount(new) = UnreadableCount(doc)
  <2>1. Cardinality(ListedIds(new)) = Cardinality(ListedIds(doc)) - 1
    BY <1>15, IdsCount, FS_RemoveElement
  <2>2. /\ Cardinality(ListedIds(new)) = Cardinality(ListedNodes(new))
        /\ Cardinality(ListedIds(doc)) = Cardinality(ListedNodes(doc))
        /\ Cardinality(ListedNodes(doc)) \in Int
    BY <1>10, IdsCount
  <2>3. Len(new.nodes) = Len(doc.nodes) - 1 /\ new.usable
    BY <1>3, <1>9, <1>10 DEF last
  <2> QED  BY <1>3, <2>1, <2>2, <2>3, NodesType DEF UnreadableCount
<1>26. ReadSavedBase(new) = IF f.savedBase = id THEN heir ELSE f.savedBase
  <2>1. CASE f.savedBase = id
    <3>1. new.base = heir
      BY <1>1, <1>10, <2>1 DEF base, MovedBase, heir
    <3> QED  BY <1>6, <1>15, <2>1, <3>1 DEF ReadSavedBase
  <2>2. CASE f.savedBase # id
    <3>1. new.base = doc.base
      BY <1>1, <1>10, <2>2 DEF base, MovedBase
    <3>2. doc.base # id
      BY <1>1, <2>2 DEF ReadSavedBase
    <3>3. ReadSavedBase(new) = ReadSavedBase(doc)
      BY <1>15, <3>1, <3>2 DEF ReadSavedBase
    <3> QED  BY <1>1, <2>2, <3>3
  <2> QED  BY <2>1, <2>2
<1>27. ListBecomes(doc, new, contents)
  <2>1. ReadCollection(new) = contents.snapshots
    BY <1>22 DEF c
  <2>2. SameSettings(doc, new)
    BY <1>10 DEF SameSettings
  <2> QED  BY <1>1, <1>10, <1>18, <1>20, <1>24, <1>25, <1>26, <2>1, <2>2 DEF ListBecomes, f
<1> QED  BY <1>27 DEF new, contents, f

-----------------------------------------------------------------------------
(* Discarding. *)

(* A discard: what is listed stays, with the parents the reader gave, and the counter *)
(* passes every id that the file held.                                                *)
LEMMA DiscardBecomes ==
    ASSUME NEW doc \in Document, Regular(doc)
    PROVE  \E nextId \in Counter(doc) .. MaximumId :
              ListBecomes(doc, DiscardNodes(doc), DiscardUnreadable(View(doc), nextId))
<1> DEFINE f == View(doc)
           K == ListedNodes(doc)
           nodes == KeptNodes(doc)
           base == ReadSavedBase(doc)
           next == AtLeast(Counter(doc), FloorAbove(RawIds(doc.nodes)))
           new == DiscardNodes(doc)
           contents == DiscardUnreadable(f, next)
           c == contents.snapshots
           at(i) == Nth(K, i)
           last == Cardinality(K)
<1>1. /\ f \in Contents /\ Valid(f.snapshots) /\ f.snapshots \in Collection
      /\ f.snapshots = ReadCollection(doc)
      /\ f.snapshots.revision = doc.revision /\ f.snapshots.nextId = Counter(doc)
      /\ Ids(f.snapshots) = ListedIds(doc)
      /\ f.savedBase = ReadSavedBase(doc) /\ f.marks = doc.marks
  BY ReadingIs, ViewType
<1>2. /\ nodes \in Seq(Node) /\ Len(nodes) = last
      /\ base \in RawId
      /\ next \in 1 .. MaximumId /\ next \in RawId /\ Counter(doc) <= next
      /\ Above(RawIds(doc.nodes), next)
      /\ new = Rewritten(doc, nodes, base, TRUE, next)
  BY DiscardType
<1>3. /\ K \subseteq 1 .. Len(doc.nodes)
      /\ last \in Nat
      /\ \A i \in 1 .. last : at(i) \in K
      /\ \A i, j \in 1 .. last : at(i) = at(j) => i = j
      /\ \A k \in K : \E i \in 1 .. last : at(i) = k
  <2>1. K \in SUBSET (1 .. Len(doc.nodes)) /\ Len(doc.nodes) \in Nat
    BY ListedAre, NodesType
  <2> HIDE DEF K
  <2> QED  BY <2>1, NthIs
<1>4. \A i \in 1 .. last :
         nodes[i] = [doc.nodes[at(i)] EXCEPT !.parent = ReadParents(doc)[doc.nodes[at(i)].id]]
  BY DEF KeptNodes
<1>5. \A k \in K :
         /\ doc.nodes[k] \in Node /\ CanList(doc.nodes[k])
         /\ doc.nodes[k].id \in ListedIds(doc)
         /\ ReadParents(doc)[doc.nodes[k].id] = NamedParent(doc, k)
         /\ f.snapshots.entries[doc.nodes[k].id] = EntryOf(doc.nodes[k], NamedParent(doc, k))
         /\ NodeAt(doc, doc.nodes[k].id) = k
  BY <1>1, ListedAre, NodesType, RegularIs
<1>6. K = ListedNodes(doc) /\ last = Cardinality(ListedNodes(doc))
  OBVIOUS
<1> HIDE DEF nodes, base, next, new, K, last, at, f
<1>7. \A i \in 1 .. last :
         /\ at(i) \in K
         /\ nodes[i].id = doc.nodes[at(i)].id /\ nodes[i].readable = doc.nodes[at(i)].readable
         /\ nodes[i].parent = NamedParent(doc, at(i))
         /\ \A parent : EntryOf(nodes[i], parent) = EntryOf(doc.nodes[at(i)], parent)
  <2> SUFFICES ASSUME NEW i \in 1 .. last
               PROVE  /\ at(i) \in K
                      /\ nodes[i].id = doc.nodes[at(i)].id
                      /\ nodes[i].readable = doc.nodes[at(i)].readable
                      /\ nodes[i].parent = NamedParent(doc, at(i))
                      /\ \A parent : EntryOf(nodes[i], parent) =
                                        EntryOf(doc.nodes[at(i)], parent)
    OBVIOUS
  <2>1. at(i) \in K /\ doc.nodes[at(i)] \in Node
    BY <1>3, <1>5
  <2>2. nodes[i] = [doc.nodes[at(i)] EXCEPT !.parent = NamedParent(doc, at(i))]
    BY <1>4, <1>5, <2>1
  <2> QED  BY <2>1, <2>2 DEF Node, EntryOf
<1>8. /\ new \in Document
      /\ new.nodes = nodes /\ new.base = base /\ new.usable
      /\ new.nextId = next /\ new.revision = doc.revision + 1
      /\ new.recipe = doc.recipe /\ new.marks = doc.marks /\ new.keys = doc.keys
      /\ new.marker = doc.marker /\ new.version = doc.version
  <2> DEFINE usable == TRUE
  <2>1. usable \in BOOLEAN /\ new = Rewritten(doc, nodes, base, usable, next)
    BY <1>2
  <2>3. nodes \in Seq(Node) /\ base \in RawId /\ next \in RawId
    BY <1>2
  <2> HIDE DEF usable
  <2>2. /\ new \in Document
        /\ new.nodes = nodes /\ new.base = base /\ new.usable = usable
        /\ new.nextId = next /\ new.revision = doc.revision + 1
        /\ new.recipe = doc.recipe /\ new.marks = doc.marks /\ new.keys = doc.keys
        /\ new.marker = doc.marker /\ new.version = doc.version
    BY <2>1, <2>3, RewrittenType
  <2> QED  BY <2>2 DEF usable
<1>9. Readable(new) = 1 .. last
  <2>1. \A i \in 1 .. last : CanList(new.nodes[i])
    BY <1>5, <1>7, <1>8 DEF CanList
  <2>2. Readable(new) = {i \in 1 .. Len(new.nodes) : CanList(new.nodes[i])}
    BY <1>8 DEF Readable
  <2> QED  BY <1>2, <1>8, <2>1, <2>2
<1>10. Distinct(new)
  <2>1. last <= MaximumSnapshots
    <3>1. Cardinality(ListedIds(doc)) <= MaximumSnapshots
      BY <1>1 DEF Valid
    <3> QED  BY <1>6, <3>1, IdsCount
  <2>2. \A i, j \in Readable(new) : new.nodes[i].id = new.nodes[j].id => i = j
    <3> SUFFICES ASSUME NEW i \in 1 .. last, NEW j \in 1 .. last, nodes[i].id = nodes[j].id
                 PROVE  i = j
      BY <1>8, <1>9
    <3>1. at(i) = at(j)
      BY <1>5, <1>7
    <3> QED  BY <1>3, <3>1
  <2> QED  BY <1>2, <1>8, <2>1, <2>2 DEF Distinct
<1>11. ListedNodes(new) = 1 .. last
  BY <1>8, <1>9, <1>10, DistinctIs
<1>12. ListedIds(new) = ListedIds(doc)
  <2>1. \A i \in 1 .. last : new.nodes[i].id \in ListedIds(doc)
    BY <1>5, <1>7, <1>8
  <2>2. ASSUME NEW id \in ListedIds(doc) PROVE \E i \in 1 .. last : new.nodes[i].id = id
    <3>1. PICK k \in K : doc.nodes[k].id = id
      BY <1>6 DEF ListedIds
    <3>2. PICK i \in 1 .. last : at(i) = k
      BY <1>3
    <3> QED  BY <1>7, <1>8, <3>1, <3>2
  <2>3. ListedIds(new) = {new.nodes[i].id : i \in 1 .. last}
    BY <1>11 DEF ListedIds
  <2> QED  BY <2>1, <2>2, <2>3
<1>13. Counter(new) = next
  <2>1. RawIds(new.nodes) \subseteq RawIds(doc.nodes)
    <3>1. \A i \in 1 .. Len(new.nodes) :
             at(i) \in 1 .. Len(doc.nodes) /\ new.nodes[i].id = doc.nodes[at(i)].id
      BY <1>2, <1>3, <1>7, <1>8
    <3> QED  BY <3>1 DEF RawIds
  <2>2. Above(SeenIds(new), new.nextId)
    BY <1>2, <1>8, <2>1 DEF Above, SeenIds
  <2> QED  BY <1>2, <1>8, <2>2, CounterWritten
<1>14. \A i \in 1 .. last : NamedParent(new, i) = NamedParent(doc, at(i))
  <2> SUFFICES ASSUME NEW i \in 1 .. last
               PROVE  NamedParent(new, i) = NamedParent(doc, at(i))
    OBVIOUS
  <2>1. /\ new.nodes[i].parent = NamedParent(doc, at(i))
        /\ new.nodes[i].id = doc.nodes[at(i)].id
    BY <1>7, <1>8
  <2>2. /\ NamedParent(doc, at(i)) \in ListedIds(doc) \cup {NoId}
        /\ NamedParent(doc, at(i)) = doc.nodes[at(i)].id => NamedParent(doc, at(i)) = NoId
    BY NamedIsListed
  <2>3. NamedParent(new, i) =
           IF NamedParent(doc, at(i)) \in ListedIds(doc) \ {doc.nodes[at(i)].id}
           THEN NamedParent(doc, at(i)) ELSE NoId
    BY <1>12, <2>1 DEF NamedParent
  <2> QED  BY <2>2, <2>3
<1>15. next \in f.snapshots.nextId .. MaximumId /\ next \in Counter(doc) .. MaximumId
  <2>1. Counter(doc) \in Int /\ next \in Int
    BY <1>2, CounterIs
  <2> QED  BY <1>1, <1>2, <2>1
<1>16. /\ contents \in Contents /\ contents.savedBase = f.savedBase
       /\ c.revision = doc.revision + 1 /\ c.nextId = next
       /\ c.entries = f.snapshots.entries /\ Ids(c) = ListedIds(doc)
       /\ c \in Collection /\ Valid(c)
  <2>1. /\ contents \in Contents /\ contents.savedBase = f.savedBase
        /\ c.revision = f.snapshots.revision + 1 /\ c.nextId = next
        /\ c.entries = f.snapshots.entries /\ Ids(c) = Ids(f.snapshots)
    BY <1>1, <1>15, DiscardEffect
  <2>2. c \in Collection
    BY <2>1 DEF Contents
  <2>3. next >= f.snapshots.nextId
    <3>1. Counter(doc) \in Int /\ next \in Int
      BY <1>2, CounterIs
    <3> QED  BY <1>1, <1>2, <3>1
  <2> HIDE DEF c, contents
  <2>4. Valid(c)
    BY <1>1, <2>1, <2>2, <2>3, SameTreeIsValid
  <2> QED  BY <1>1, <2>1, <2>2, <2>4
<1>17. /\ contents.recorded = f.recorded /\ contents.recipe = f.recipe
       /\ contents.marks = f.marks /\ contents.unreadable = 0
  <2> DEFINE read == [f EXCEPT !.unreadable = 0]
  <2>1. /\ read \in Contents /\ read.recorded = f.recorded /\ read.recipe = f.recipe
        /\ read.marks = f.marks /\ read.unreadable = 0
    BY <1>1 DEF Contents
  <2>2. contents = Edited(read, next, f.snapshots.entries)
    BY DEF DiscardUnreadable
  <2> HIDE DEF read
  <2> QED  BY <2>1, <2>2, EditedParts
<1> HIDE DEF contents, c
<1>18. \A i \in ListedNodes(new) :
          c.entries[new.nodes[i].id] = EntryOf(new.nodes[i], NamedParent(new, i))
  <2> SUFFICES ASSUME NEW i \in 1 .. last
               PROVE  c.entries[new.nodes[i].id] = EntryOf(new.nodes[i], NamedParent(new, i))
    BY <1>11
  <2>1. /\ new.nodes[i].id = doc.nodes[at(i)].id /\ at(i) \in K
        /\ EntryOf(new.nodes[i], NamedParent(new, i)) =
              EntryOf(doc.nodes[at(i)], NamedParent(doc, at(i)))
    BY <1>7, <1>8, <1>14
  <2> QED  BY <1>5, <1>16, <2>1
<1>19. NoCycle(NamedParents(new)) /\ ReadCollection(new) = c
  <2>1. Acyclic(c)
    BY <1>16 DEF Valid
  <2> QED  BY <1>8, <1>12, <1>13, <1>16, <1>18, <2>1, Agrees
<1>20. Regular(new)
  <2>1. \A id \in ListedIds(doc) \cup {NoId} : id < Counter(doc)
    BY ListedBelow, CounterIs, SnapshotsAssumption DEF NoId
  <2>2. NamedIds(new) \subseteq ListedIds(doc) \cup {NoId}
    <3>1. base \in ListedIds(doc) \cup {NoId}
      BY DEF base, ReadSavedBase
    <3>2. \A i \in 1 .. last : new.nodes[i].parent \in ListedIds(doc) \cup {NoId}
      BY <1>7, <1>8, NamedIsListed
    <3> QED  BY <1>8, <1>9, <3>1, <3>2 DEF NamedIds
  <2>3. Above(NamedIds(new), next)
    <3> SUFFICES ASSUME NEW id \in NamedIds(new) PROVE id < next
      BY DEF Above
    <3>1. id < Counter(doc) /\ id \in Int /\ Counter(doc) \in Int /\ next \in Int
      <4>1. id < Counter(doc)
        BY <2>1, <2>2
      <4>2. id \in Int
        BY <2>2, ListedAre DEF SnapshotId, NoId
      <4>3. Counter(doc) \in Int /\ next \in Int
        BY <1>2, CounterIs
      <4> QED  BY <4>1, <4>2, <4>3
    <3> QED  BY <1>2, <3>1
  <2> QED  BY <1>10, <1>13, <1>19, <2>3 DEF Regular
<1>21. UnreadableCount(new) = 0
  <2>1. Cardinality(1 .. last) = last
    <3>1. 1 \in Int /\ last \in Int /\ (1 > last <=> last = 0)
      BY <1>3
    <3> QED  BY <1>3, <3>1, FS_Interval
  <2>2. UnreadableCount(new) = last - last
    BY <1>2, <1>8, <1>11, <2>1 DEF UnreadableCount
  <2> QED  BY <1>3, <2>2
<1>22. ReadSavedBase(new) = f.savedBase
  BY <1>1, <1>8, <1>12 DEF ReadSavedBase, base
<1>23. ListBecomes(doc, new, contents)
  <2>1. ReadCollection(new) = contents.snapshots
    BY <1>19 DEF c
  <2>2. SameSettings(doc, new)
    BY <1>8 DEF SameSettings
  <2> QED  BY <1>1, <1>8, <1>16, <1>17, <1>20, <1>21, <1>22, <2>1, <2>2 DEF ListBecomes, f
<1> QED  BY <1>15, <1>23 DEF new, contents, f

-----------------------------------------------------------------------------
(* Settings and marks. *)

(* A write of settings or marks is read as the contents with those settings. *)
LEMMA SettingsBecome ==
    ASSUME NEW doc \in Document, Regular(doc), NEW new \in Document, SameList(doc, new),
           doc.usable => Above({new.base}, Counter(doc)),
           NEW b \in BOOLEAN, IF b THEN new.keys ELSE SameSettings(doc, new),
           NEW contents \in Contents,
           contents.snapshots = View(doc).snapshots,
           contents.unreadable = View(doc).unreadable,
           contents.savedBase = ReadSavedBase(new),
           contents.marks = new.marks,
           contents.recorded = (b \/ View(doc).recorded),
           contents.recipe = IF b THEN new.recipe ELSE View(doc).recipe
    PROVE  /\ View(Stamped(doc, new, b)) = contents
           /\ Regular(Stamped(doc, new, b))
<1> DEFINE written == Stamped(doc, new, b)
<1>1. Regular(new)
  BY SameListRegular
<1>2. /\ written \in Document /\ Regular(written)
      /\ View(written).snapshots = ReadCollection(new)
      /\ View(written).savedBase = ReadSavedBase(new)
      /\ View(written).unreadable = UnreadableCount(new)
      /\ View(written).marks = new.marks
      /\ View(written).recorded = (b \/ View(doc).recorded)
      /\ View(written).recipe = IF b THEN new.recipe ELSE View(doc).recipe
  BY <1>1, StampedReads
<1>3. /\ ReadCollection(new) = View(doc).snapshots
      /\ UnreadableCount(new) = View(doc).unreadable
  BY SameListReads, ViewType
<1> HIDE DEF written
<1>4. View(written) \in Contents
  BY <1>2, ViewType
<1>5. View(written) = contents
  BY <1>2, <1>3, <1>4, SameContents
<1> QED  BY <1>2, <1>5 DEF written

(* A write of marks is the store's write of marks. *)
LEMMA MarksBecome ==
    ASSUME NEW doc \in Document, Regular(doc), NEW changes \in MarkChanges
    PROVE  LET new == [doc EXCEPT !.marks = WithMarks(@, changes)]
           IN  /\ View(Stamped(doc, new, FALSE)) = WriteMarks(View(doc), changes)
               /\ Regular(Stamped(doc, new, FALSE))
<1> DEFINE f == View(doc)
           new == [doc EXCEPT !.marks = WithMarks(@, changes)]
           contents == WriteMarks(f, changes)
           b == FALSE
<1>1. new \in Document
  BY MarksPatchType
<1>2. /\ SameList(doc, new) /\ SameSettings(doc, new) /\ new.base = doc.base
      /\ new.marks = WithMarks(doc.marks, changes)
  BY DEF SameList, SameSettings, Document
<1>3. f \in Contents /\ f.marks = doc.marks /\ f.savedBase = ReadSavedBase(doc)
  BY ViewType, ViewSettings
<1> HIDE DEF f, new
<1>4. contents \in Contents
  BY <1>3, MarksEffect
<1>5. /\ contents.snapshots = f.snapshots /\ contents.unreadable = f.unreadable
      /\ contents.savedBase = f.savedBase /\ contents.recorded = f.recorded
      /\ contents.recipe = f.recipe /\ contents.marks = WithMarks(f.marks, changes)
  BY <1>3 DEF WriteMarks, Contents
<1>6. doc.usable => Above({new.base}, Counter(doc))
  BY <1>2 DEF Regular, Above, NamedIds
<1>7. ReadSavedBase(new) = ReadSavedBase(doc)
  BY <1>1, <1>2, SameListReads DEF ReadSavedBase
<1> HIDE DEF contents
<1>8. /\ b \in BOOLEAN /\ (IF b THEN new.keys ELSE SameSettings(doc, new))
      /\ contents.recorded = (b \/ f.recorded)
      /\ contents.recipe = IF b THEN new.recipe ELSE f.recipe
  <2>1. f.recorded \in BOOLEAN
    BY <1>3 DEF Contents
  <2> QED  BY <1>2, <1>5, <2>1
<1>9. /\ contents.snapshots = f.snapshots /\ contents.unreadable = f.unreadable
      /\ contents.savedBase = ReadSavedBase(new) /\ contents.marks = new.marks
  BY <1>2, <1>3, <1>5, <1>7
<1> HIDE DEF b
<1>10. View(Stamped(doc, new, b)) = contents /\ Regular(Stamped(doc, new, b))
  BY <1>1, <1>2, <1>4, <1>6, <1>8, <1>9, SettingsBecome DEF f
<1> QED  BY <1>10 DEF b, new, contents, f

(* A write of the active settings is the store's. *)
LEMMA ActiveBecomes ==
    ASSUME NEW doc \in Document, Regular(doc), NEW recipe \in Recipe,
           NEW changes \in MarkChanges
    PROVE  LET new == PatchActive(doc, recipe, changes)
           IN  /\ View(Stamped(doc, new, TRUE)) = WriteActive(View(doc), recipe, changes)
               /\ Regular(Stamped(doc, new, TRUE))
<1> DEFINE f == View(doc)
           new == PatchActive(doc, recipe, changes)
           contents == WriteActive(f, recipe, changes)
           b == TRUE
<1>1. new \in Document
  BY ActivePatchType
<1>2. /\ SameList(doc, new) /\ new.keys /\ new.recipe = recipe /\ new.base = doc.base
      /\ new.marks = WithMarks(doc.marks, changes)
  BY DEF SameList, PatchActive, Document
<1>3. f \in Contents /\ f.marks = doc.marks /\ f.savedBase = ReadSavedBase(doc)
  BY ViewType, ViewSettings
<1> HIDE DEF f, new
<1>4. contents \in Contents
  BY <1>3, ActiveEffect
<1>5. /\ contents.snapshots = f.snapshots /\ contents.unreadable = f.unreadable
      /\ contents.savedBase = f.savedBase /\ contents.recorded
      /\ contents.recipe = recipe /\ contents.marks = WithMarks(f.marks, changes)
  BY <1>3 DEF WriteActive, WriteMarks, Contents
<1>6. doc.usable => Above({new.base}, Counter(doc))
  BY <1>2 DEF Regular, Above, NamedIds
<1>7. ReadSavedBase(new) = ReadSavedBase(doc)
  BY <1>1, <1>2, SameListReads DEF ReadSavedBase
<1>0. contents.recorded \in BOOLEAN
  BY <1>4 DEF Contents
<1> HIDE DEF contents
<1>8. /\ b \in BOOLEAN /\ (IF b THEN new.keys ELSE SameSettings(doc, new))
      /\ contents.recorded = (b \/ f.recorded)
      /\ contents.recipe = IF b THEN new.recipe ELSE f.recipe
  BY <1>0, <1>2, <1>5
<1>9. /\ contents.snapshots = f.snapshots /\ contents.unreadable = f.unreadable
      /\ contents.savedBase = ReadSavedBase(new) /\ contents.marks = new.marks
  BY <1>2, <1>3, <1>5, <1>7
<1> HIDE DEF b
<1>10. View(Stamped(doc, new, b)) = contents /\ Regular(Stamped(doc, new, b))
  BY <1>1, <1>2, <1>4, <1>6, <1>8, <1>9, SettingsBecome DEF f
<1> QED  BY <1>10 DEF b, new, contents, f

(* So is a write of the settings with their saved base. *)
LEMMA ActiveAndBaseBecome ==
    ASSUME NEW doc \in Document, Regular(doc), NEW recipe \in Recipe,
           NEW changes \in MarkChanges, NEW base \in ListedIds(doc) \cup {NoId}
    PROVE  LET new == [PatchActive(doc, recipe, changes) EXCEPT !.base = base]
           IN  /\ View(Stamped(doc, new, TRUE)) =
                     WriteActiveAndBase(View(doc), recipe, base, changes)
               /\ Regular(Stamped(doc, new, TRUE))
<1> DEFINE f == View(doc)
           patched == PatchActive(doc, recipe, changes)
           new == [patched EXCEPT !.base = base]
           contents == WriteActiveAndBase(f, recipe, base, changes)
           b == TRUE
<1>1. patched \in Document /\ base \in RawId /\ base \in MaybeId
  BY ActivePatchType, ListedAre, SnapshotsAssumption DEF RawId, SnapshotId, NoId, MaybeId
<1>2. /\ SameList(doc, patched) /\ patched.keys /\ patched.recipe = recipe
      /\ patched.marks = WithMarks(doc.marks, changes)
  BY DEF SameList, PatchActive, Document
<1>3. f \in Contents /\ f.marks = doc.marks /\ f.savedBase = ReadSavedBase(doc)
  BY ViewType, ViewSettings
<1> HIDE DEF f, patched
<1>4. contents \in Contents
  BY <1>1, <1>3, ActiveAndBaseEffect
<1>5. /\ contents.snapshots = f.snapshots /\ contents.unreadable = f.unreadable
      /\ contents.savedBase = base /\ contents.recorded
      /\ contents.recipe = recipe /\ contents.marks = WithMarks(f.marks, changes)
  BY <1>3 DEF WriteActiveAndBase, WriteActive, WriteMarks, Contents
<1>6. /\ new \in Document /\ SameList(doc, new) /\ new.keys /\ new.recipe = recipe
      /\ new.marks = WithMarks(doc.marks, changes) /\ new.base = base
  BY <1>1, <1>2 DEF SameList, Document
<1>7. doc.usable => Above({new.base}, Counter(doc))
  <2>1. \A id \in ListedIds(doc) \cup {NoId} : id < Counter(doc)
    BY ListedBelow, CounterIs, SnapshotsAssumption DEF NoId
  <2> QED  BY <1>6, <2>1 DEF Above
<1> HIDE DEF new
<1>8. ReadSavedBase(new) = base
  BY <1>6, SameListReads DEF ReadSavedBase
<1>9. contents.recorded \in BOOLEAN
  BY <1>4 DEF Contents
<1> HIDE DEF contents
<1>10. /\ b \in BOOLEAN /\ (IF b THEN new.keys ELSE SameSettings(doc, new))
       /\ contents.recorded = (b \/ f.recorded)
       /\ contents.recipe = IF b THEN new.recipe ELSE f.recipe
  BY <1>5, <1>6, <1>9
<1>11. /\ contents.snapshots = f.snapshots /\ contents.unreadable = f.unreadable
       /\ contents.savedBase = ReadSavedBase(new) /\ contents.marks = new.marks
  BY <1>3, <1>5, <1>6, <1>8
<1> HIDE DEF b
<1>12. View(Stamped(doc, new, b)) = contents /\ Regular(Stamped(doc, new, b))
  BY <1>4, <1>6, <1>7, <1>10, <1>11, SettingsBecome DEF f
<1> QED  BY <1>12 DEF b, new, patched, contents, f

-----------------------------------------------------------------------------
(* The store and the file speak of the same things. *)

(* The store speaks of contents in the words of the file. *)
LEMMA SameWords ==
    /\ Store!NoId = NoId
    /\ Store!SnapshotId = SnapshotId
    /\ Store!MaybeId = MaybeId
    /\ Store!Recipe = Recipe
    /\ Store!Snapshot = Snapshot
    /\ Store!MarkChanges = MarkChanges
    /\ \A c : Store!Ids(c) = Ids(c)
    /\ \A f, base : Store!CanBase(f, base) <=> CanBase(f, base)
    /\ \A f, draft : Store!CanAdd(f, draft) <=> CanAdd(f, draft)
<1>0. \A S : Store!Cardinality(S) = Cardinality(S)
  BY DEF Store!Cardinality, Cardinality
<1>1. /\ Store!NoId = NoId /\ Store!SnapshotId = SnapshotId /\ Store!MaybeId = MaybeId
      /\ Store!Recipe = Recipe
  BY DEF Store!NoId, NoId, Store!SnapshotId, SnapshotId, Store!MaybeId, MaybeId,
         Store!Recipe, Recipe
<1>2. Store!Snapshot = Snapshot
  BY <1>1 DEF Store!Snapshot, Snapshot
<1>3. Store!MarkChanges = MarkChanges
  BY DEF Store!MarkChanges, MarkChanges
<1>4. \A c : Store!Ids(c) = Ids(c)
  BY <1>1 DEF Store!Ids, Ids
<1>5. \A f, base : Store!CanBase(f, base) <=> CanBase(f, base)
  BY <1>1, <1>4 DEF Store!CanBase, CanBase
<1>6. \A f, draft : Store!CanAdd(f, draft) <=> CanAdd(f, draft)
  <2> SUFFICES ASSUME NEW f, NEW draft
               PROVE  Store!CanAdd(f, draft) <=> CanAdd(f, draft)
    OBVIOUS
  <2>1. Store!Ids(f.snapshots) = Ids(f.snapshots)
    BY <1>4
  <2>2. Store!HasRoom(f) <=> HasRoom(f)
    BY <1>0, <2>1 DEF Store!HasRoom, HasRoom
  <2> QED  BY <1>1, <2>1, <2>2 DEF Store!CanAdd, CanAdd
<1> QED  BY <1>1, <1>2, <1>3, <1>4, <1>5, <1>6

(* The writes of the abstract store are those a reader sees. *)
LEMMA SameWrites ==
    /\ \A f, draft : Store!AddSnapshot(f, draft) = AddSnapshot(f, draft)
    /\ \A f, id, name : Store!RenameSnapshot(f, id, name) = RenameSnapshot(f, id, name)
    /\ \A f, id : Store!DeleteSnapshot(f, id) = DeleteSnapshot(f, id)
    /\ \A f, nextId : Store!DiscardUnreadable(f, nextId) = DiscardUnreadable(f, nextId)
    /\ \A f, ids : Store!SetThumbnails(f, ids) = SetThumbnails(f, ids)
    /\ \A f, changes : Store!WriteMarks(f, changes) = WriteMarks(f, changes)
    /\ \A f, recipe, changes :
          Store!WriteActive(f, recipe, changes) = WriteActive(f, recipe, changes)
    /\ \A f, recipe, base, changes :
          Store!WriteActiveAndBase(f, recipe, base, changes) =
              WriteActiveAndBase(f, recipe, base, changes)
<1>1. \A f, nextId, entries : Store!Edited(f, nextId, entries) = Edited(f, nextId, entries)
  BY DEF Store!Edited, Edited
<1>2. \A f, draft : Store!AddSnapshot(f, draft) = AddSnapshot(f, draft)
  BY <1>1 DEF Store!AddSnapshot, AddSnapshot
<1>3. \A f, id, name : Store!RenameSnapshot(f, id, name) = RenameSnapshot(f, id, name)
  BY <1>1 DEF Store!RenameSnapshot, RenameSnapshot
<1>4. \A f, id : Store!DeleteSnapshot(f, id) = DeleteSnapshot(f, id)
  BY <1>1, SameWords DEF Store!DeleteSnapshot, DeleteSnapshot
<1>5. \A f, nextId : Store!DiscardUnreadable(f, nextId) = DiscardUnreadable(f, nextId)
  BY <1>1 DEF Store!DiscardUnreadable, DiscardUnreadable
<1>6. \A f, ids : Store!SetThumbnails(f, ids) = SetThumbnails(f, ids)
  BY SameWords DEF Store!SetThumbnails, SetThumbnails
<1>7. \A f, changes : Store!WriteMarks(f, changes) = WriteMarks(f, changes)
  BY DEF Store!WriteMarks, WriteMarks, Store!WithMarks, WithMarks
<1>8. \A f, recipe, changes :
         Store!WriteActive(f, recipe, changes) = WriteActive(f, recipe, changes)
  BY <1>7 DEF Store!WriteActive, WriteActive
<1>9. \A f, recipe, base, changes :
         Store!WriteActiveAndBase(f, recipe, base, changes) =
             WriteActiveAndBase(f, recipe, base, changes)
  BY <1>8 DEF Store!WriteActiveAndBase, WriteActiveAndBase
<1> QED  BY <1>2, <1>3, <1>4, <1>5, <1>6, <1>7, <1>8, <1>9

(* What a request does to a list, in the document and in what a reader sees. *)
ListWrite(doc, req, new, contents) ==
    \/ /\ req.op = "add"
       /\ \E draft \in Snapshot :
             /\ CanAdd(View(doc), draft)
             /\ contents = AddSnapshot(View(doc), draft)
    \/ /\ req.op = "rename"
       /\ \E name \in Names : contents = RenameSnapshot(View(doc), req.id, name)
    \/ /\ req.op = "delete"
       /\ contents = DeleteSnapshot(View(doc), req.id)
    \/ /\ req.op = "discard"
       /\ View(doc).unreadable > 0
       /\ \E nextId \in View(doc).snapshots.nextId .. MaximumId :
             contents = DiscardUnreadable(View(doc), nextId)
    \/ /\ req.op = "thumbnails"
       /\ contents = SetThumbnails(View(doc), req.ids \cap ListedIds(doc))

(* Every patch of a list is such a write. *)
LEMMA ListsAreWritten ==
    ASSUME NEW doc \in Document, Regular(doc), NEW req \in Request,
           ~Refused(doc, req), ~NothingToWrite(doc, req),
           NEW new \in Patched(doc, req),
           req.op \notin {"marks", "active", "activeAndBase"}
    PROVE  \E contents : ListBecomes(doc, new, contents) /\ ListWrite(doc, req, new, contents)
<1>1. CASE req.op = "add"
  <2>1. PICK draft \in Snapshot : draft.parent = req.parent /\ new = AddNode(doc, draft)
    BY <1>1 DEF Patched
  <2>2. /\ doc.usable /\ Len(doc.nodes) < MaximumSnapshots /\ Counter(doc) # MaximumId
        /\ draft.parent \in ListedIds(doc) \cup {NoId}
    BY <1>1, <2>1, NotRefused
  <2>3. /\ CanAdd(View(doc), draft)
        /\ ListBecomes(doc, AddNode(doc, draft), AddSnapshot(View(doc), draft))
    BY <2>2, AddBecomes
  <2> QED  BY <1>1, <2>1, <2>3 DEF ListWrite
<1>2. CASE req.op = "rename"
  <2>1. PICK name \in Names : new = RenameNode(doc, req.id, name)
    BY <1>2 DEF Patched
  <2>2. req.id \in ListedIds(doc)
    BY <1>2, NotRefused
  <2>3. ListBecomes(doc, RenameNode(doc, req.id, name), RenameSnapshot(View(doc), req.id, name))
    BY <2>2, RenameBecomes
  <2> QED  BY <1>2, <2>1, <2>3 DEF ListWrite
<1>3. CASE req.op = "delete"
  <2>1. new = DeleteNode(doc, req.id)
    BY <1>3 DEF Patched
  <2>2. req.id \in ListedIds(doc)
    BY <1>3, NotRefused
  <2>3. ListBecomes(doc, DeleteNode(doc, req.id), DeleteSnapshot(View(doc), req.id))
    BY <2>2, DeleteBecomes
  <2> QED  BY <1>3, <2>1, <2>3 DEF ListWrite
<1>4. CASE req.op = "discard"
  <2>1. new = DiscardNodes(doc)
    BY <1>4 DEF Patched
  <2>2. PICK nextId \in Counter(doc) .. MaximumId :
           ListBecomes(doc, DiscardNodes(doc), DiscardUnreadable(View(doc), nextId))
    BY DiscardBecomes
  <2>3. /\ View(doc).unreadable = UnreadableCount(doc) /\ View(doc).unreadable \in Nat
        /\ View(doc).snapshots.nextId = Counter(doc)
    BY ReadingIs DEF View, Contents
  <2>4. View(doc).unreadable > 0
    BY <1>4, <2>3 DEF NothingToWrite
  <2> QED  BY <1>4, <2>1, <2>2, <2>3, <2>4 DEF ListWrite
<1>5. CASE req.op = "thumbnails"
  <2>1. new = SetNodeThumbnails(doc, req.ids)
    BY <1>5 DEF Patched
  <2>2. ListBecomes(doc, SetNodeThumbnails(doc, req.ids),
                    SetThumbnails(View(doc), req.ids \cap ListedIds(doc)))
    BY ThumbnailsBecome
  <2> QED  BY <1>5, <2>1, <2>2 DEF ListWrite
<1>6. req.op \in {"add", "rename", "delete", "discard", "thumbnails",
                  "activeAndBase", "active", "marks"}
  BY DEF Request
<1> QED  BY <1>1, <1>2, <1>3, <1>4, <1>5, <1>6

-----------------------------------------------------------------------------
(* A replacement is a write of the store. *)

(* Every replacement of a regular document is one write of the store, and leaves *)
(* a regular document.                                                           *)
LEMMA ReplaceIsWrite ==
    ASSUME NEW w \in Writers, FileInv, Regular(disk), Replace(w)
    PROVE  Store!Next /\ Regular(disk')
<1> DEFINE req == request[w]
<1>1. /\ disk \in Document /\ req \in Request /\ shown = View(disk)
      /\ Structural(req.op) => req.expected < RevisionBound
      /\ ~Refused(disk, req) /\ ~NothingToWrite(disk, req)
      /\ shown' = View(disk')
  BY ReplaceWrites DEF FileInv, DiskInv
<1>2. PICK new \in Patched(disk, req) :
         new \in Document /\ disk' = Stamped(disk, new, WritesActive(req))
  BY ReplaceWrites
<1>3. /\ shown.snapshots.revision = disk.revision
      /\ shown.snapshots.nextId = Counter(disk)
      /\ Ids(shown.snapshots) = ListedIds(disk)
  BY <1>1, ReadingIs
<1>4. Structural(req.op) => Store!MayEdit
  BY <1>1, <1>3, NotRefused DEF Store!MayEdit
<1> HIDE DEF req
<1>5. CASE req.op \notin {"marks", "active", "activeAndBase"}
  <2>1. PICK contents :
           ListBecomes(disk, new, contents) /\ ListWrite(disk, req, new, contents)
    BY <1>1, <1>2, <1>5, ListsAreWritten
  <2>2. Stamped(disk, new, WritesActive(req)) = Stamped(disk, new, FALSE)
    BY <1>5 DEF WritesActive, Stamped
  <2>3. shown' = contents /\ Regular(disk')
    BY <1>1, <1>2, <2>1, <2>2, BecomesWrites
  <2>4. CASE req.op = "add"
    <3>1. PICK draft \in Snapshot :
             CanAdd(shown, draft) /\ shown' = AddSnapshot(shown, draft)
      BY <1>1, <2>1, <2>3, <2>4 DEF ListWrite
    <3>2. Store!Add
      BY <1>4, <2>4, <3>1, SameWords, SameWrites DEF Store!Add, Structural
    <3> QED  BY <2>3, <3>2 DEF Store!Next
  <2>5. CASE req.op = "rename"
    <3>1. PICK name \in Names : shown' = RenameSnapshot(shown, req.id, name)
      BY <1>1, <2>1, <2>3, <2>5 DEF ListWrite
    <3>2. req.id \in Store!Ids(shown.snapshots)
      BY <1>1, <1>3, <2>5, NotRefused, SameWords
    <3>3. Store!Rename
      BY <1>4, <2>5, <3>1, <3>2, SameWrites DEF Store!Rename, Structural
    <3> QED  BY <2>3, <3>3 DEF Store!Next
  <2>6. CASE req.op = "delete"
    <3>1. shown' = DeleteSnapshot(shown, req.id)
      BY <1>1, <2>1, <2>3, <2>6 DEF ListWrite
    <3>2. req.id \in Store!Ids(shown.snapshots)
      BY <1>1, <1>3, <2>6, NotRefused, SameWords
    <3>3. Store!Delete
      BY <1>4, <2>6, <3>1, <3>2, SameWrites DEF Store!Delete, Structural
    <3> QED  BY <2>3, <3>3 DEF Store!Next
  <2>7. CASE req.op = "discard"
    <3>1. PICK nextId \in shown.snapshots.nextId .. MaximumId :
             shown.unreadable > 0 /\ shown' = DiscardUnreadable(shown, nextId)
      BY <1>1, <2>1, <2>3, <2>7 DEF ListWrite
    <3>2. Store!Discard
      BY <1>4, <2>7, <3>1, SameWrites DEF Store!Discard, Structural
    <3> QED  BY <2>3, <3>2 DEF Store!Next
  <2>8. CASE req.op = "thumbnails"
    <3>1. shown' = SetThumbnails(shown, req.ids \cap ListedIds(disk))
      BY <1>1, <2>1, <2>3, <2>8 DEF ListWrite
    <3>2. (req.ids \cap ListedIds(disk)) \in SUBSET Store!Ids(shown.snapshots)
      BY <1>3, SameWords
    <3>3. Store!StoreThumbnails
      BY <3>1, <3>2, SameWrites DEF Store!StoreThumbnails
    <3> QED  BY <2>3, <3>3 DEF Store!Next
  <2> QED  BY <2>1, <2>4, <2>5, <2>6, <2>7, <2>8 DEF ListWrite
<1>6. CASE req.op = "marks"
  <2>1. PICK changes \in MarkChanges : new = [disk EXCEPT !.marks = WithMarks(@, changes)]
    BY <1>2, <1>6 DEF Patched
  <2>2. Stamped(disk, new, WritesActive(req)) = Stamped(disk, new, FALSE)
    BY <1>6 DEF WritesActive, Stamped
  <2>3. shown' = WriteMarks(shown, changes) /\ Regular(disk')
    BY <1>1, <1>2, <2>1, <2>2, MarksBecome
  <2>4. Store!SaveMarks
    BY <2>3, SameWords, SameWrites DEF Store!SaveMarks
  <2> QED  BY <2>3, <2>4 DEF Store!Next
<1>7. CASE req.op = "active"
  <2>1. PICK recipe \in Recipe, changes \in MarkChanges : new = PatchActive(disk, recipe, changes)
    BY <1>2, <1>7 DEF Patched
  <2>2. Stamped(disk, new, WritesActive(req)) = Stamped(disk, new, TRUE)
    BY <1>7 DEF WritesActive, Stamped
  <2>3. shown' = WriteActive(shown, recipe, changes) /\ Regular(disk')
    BY <1>1, <1>2, <2>1, <2>2, ActiveBecomes
  <2>4. Store!SaveActive
    BY <2>3, SameWords, SameWrites DEF Store!SaveActive
  <2> QED  BY <2>3, <2>4 DEF Store!Next
<1>8. CASE req.op = "activeAndBase"
  <2>1. PICK recipe \in Recipe, changes \in MarkChanges :
           new = [PatchActive(disk, recipe, changes) EXCEPT !.base = req.base]
    BY <1>2, <1>8 DEF Patched
  <2>2. Stamped(disk, new, WritesActive(req)) = Stamped(disk, new, TRUE)
    BY <1>8 DEF WritesActive, Stamped
  <2>3. req.base \in ListedIds(disk) \cup {NoId}
    BY <1>1, <1>8, NotRefused
  <2>4. shown' = WriteActiveAndBase(shown, recipe, req.base, changes) /\ Regular(disk')
    BY <1>1, <1>2, <2>1, <2>2, <2>3, ActiveAndBaseBecome
  <2>5. req.base \in MaybeId /\ CanBase(shown, req.base)
    BY <1>1, <1>3, <2>3, ListedAre DEF CanBase, MaybeId
  <2>6. Store!SaveActiveAndBase
    BY <2>4, <2>5, SameWords, SameWrites DEF Store!SaveActiveAndBase
  <2> QED  BY <2>4, <2>6 DEF Store!Next
<1> QED  BY <1>5, <1>6, <1>7, <1>8

-----------------------------------------------------------------------------
(* What no write but a discard drops. *)

(* A document that lists every node it can: no id is carried twice, and there are *)
(* no more nodes than the limit.                                                  *)
EachIdOnce(doc) == doc.usable => Distinct(doc)

(* What a write makes of a document is kept by the stamp. *)
LEMMA StampKeeps ==
    ASSUME NEW before, NEW doc \in Document, NEW b \in BOOLEAN
    PROVE  /\ EachIdOnce(doc) => EachIdOnce(Stamped(before, doc, b))
           /\ Unusable(Stamped(before, doc, b)) = Unusable(doc)
<1> DEFINE new == Stamped(before, doc, b)
<1>1. new.nodes = doc.nodes /\ new.usable = doc.usable
  BY StampedType
<1> HIDE DEF new
<1>2. Readable(new) = Readable(doc) /\ ListedNodes(new) = ListedNodes(doc)
  BY <1>1 DEF Readable, ListedNodes
<1> QED  BY <1>1, <1>2 DEF EachIdOnce, Distinct, Unusable, new

(* Nodes that cannot be listed are kept when they are in the list that is written. *)
LEMMA Kept ==
    ASSUME NEW doc \in Document, NEW new \in Document,
           EachIdOnce(doc), EachIdOnce(new), new.usable = doc.usable,
           \A k \in 1 .. Len(doc.nodes) :
               (doc.usable => ~CanList(doc.nodes[k])) =>
                   \E j \in 1 .. Len(new.nodes) : new.nodes[j] = doc.nodes[k]
    PROVE  Unusable(doc) \subseteq Unusable(new)
<1>1. ListedNodes(doc) = Readable(doc) /\ ListedNodes(new) = Readable(new)
  BY DistinctIs DEF EachIdOnce
<1> SUFFICES ASSUME NEW k \in (1 .. Len(doc.nodes)) \ Readable(doc)
             PROVE  \E j \in (1 .. Len(new.nodes)) \ Readable(new) : new.nodes[j] = doc.nodes[k]
  BY <1>1 DEF Unusable
<1>2. doc.usable => ~CanList(doc.nodes[k])
  BY DEF Readable
<1>3. PICK j \in 1 .. Len(new.nodes) : new.nodes[j] = doc.nodes[k]
  BY <1>2
<1>4. j \notin Readable(new)
  BY <1>2, <1>3 DEF Readable
<1> QED  BY <1>3, <1>4

(* A write that leaves the ids where they are, and every node that is not listed as it is. *)
LEMMA InPlaceKeeps ==
    ASSUME NEW doc \in Document, NEW new \in Document, EachIdOnce(doc),
           new.usable = doc.usable, Len(new.nodes) = Len(doc.nodes),
           \A k \in 1 .. Len(doc.nodes) :
               /\ new.nodes[k].id = doc.nodes[k].id
               /\ new.nodes[k].readable = doc.nodes[k].readable
               /\ k \notin ListedNodes(doc) => new.nodes[k] = doc.nodes[k]
    PROVE  EachIdOnce(new) /\ Unusable(doc) \subseteq Unusable(new)
<1>1. Readable(new) = Readable(doc)
  BY DEF Readable, CanList
<1>2. EachIdOnce(new)
  BY <1>1 DEF EachIdOnce, Distinct, Readable
<1>3. \A k \in 1 .. Len(doc.nodes) :
         (doc.usable => ~CanList(doc.nodes[k])) => new.nodes[k] = doc.nodes[k]
  BY DistinctIs DEF EachIdOnce, Readable
<1> QED  BY <1>2, <1>3, Kept

(* An add gives an id that no node carries, and appends. *)
LEMMA AddKeeps ==
    ASSUME NEW doc \in Document, EachIdOnce(doc), doc.usable, NEW draft \in Snapshot,
           Len(doc.nodes) < MaximumSnapshots, Counter(doc) # MaximumId,
           NEW new \in Document, new = AddNode(doc, draft)
    PROVE  EachIdOnce(new) /\ Unusable(doc) \subseteq Unusable(new)
<1> DEFINE n == Len(doc.nodes) + 1
           id == Counter(doc)
           usable == doc.usable
           next == id + 1
           nodes == Append(doc.nodes, NewNode(doc, draft))
<1>1. /\ new = Rewritten(doc, nodes, doc.base, usable, next)
      /\ NewNode(doc, draft) \in Node /\ nodes \in Seq(Node) /\ next \in RawId
      /\ doc.base \in RawId /\ usable \in BOOLEAN
      /\ id \in 1 .. MaximumId - 1
  BY AddType DEF Document
<1>2. /\ Len(nodes) = n /\ n \in Nat /\ nodes[n].id = id
      /\ \A k \in 1 .. Len(doc.nodes) : nodes[k] = doc.nodes[k]
  BY <1>1, NodesType DEF NewNode
<1> HIDE DEF nodes, usable, next
<1>3. new.nodes = nodes /\ new.usable = usable
  BY <1>1, RewrittenType
<1>4. \A k \in 1 .. Len(doc.nodes) : doc.nodes[k].id # id
  <2>1. \A k \in 1 .. Len(doc.nodes) : doc.nodes[k].id \in SeenIds(doc) /\ doc.nodes[k].id \in Int
    BY NodesType, RawIdsType DEF SeenIds, RawIds, RawId
  <2>2. Above(SeenIds(doc), id)
    BY CounterIs
  <2> HIDE DEF id
  <2> QED  BY <1>1, <2>1, <2>2 DEF Above
<1>5. n = Len(doc.nodes) + 1 /\ 1 .. n = (1 .. Len(doc.nodes)) \cup {n}
  BY <1>2, NodesType
<1> HIDE DEF id, n
<1>6. EachIdOnce(new)
  <2>1. Len(new.nodes) <= MaximumSnapshots
    BY <1>2, <1>3, <1>5, NodesType, SnapshotsAssumption
  <2>2. ASSUME NEW j \in Readable(new), NEW k \in Readable(new), new.nodes[j].id = new.nodes[k].id
        PROVE  j = k
    <3>1. /\ j \in (1 .. Len(doc.nodes)) \cup {n} /\ CanList(new.nodes[j])
          /\ k \in (1 .. Len(doc.nodes)) \cup {n} /\ CanList(new.nodes[k])
      BY <1>2, <1>3, <1>5 DEF Readable
    <3>2. CASE j = n \/ k = n
      BY <1>2, <1>3, <1>4, <2>2, <3>1, <3>2
    <3>3. CASE j # n /\ k # n
      <4>1. j \in Readable(doc) /\ k \in Readable(doc)
        BY <1>2, <1>3, <3>1, <3>3 DEF Readable
      <4> QED  BY <1>2, <1>3, <2>2, <3>1, <3>3, <4>1 DEF EachIdOnce, Distinct
    <3> QED  BY <3>2, <3>3
  <2> QED  BY <2>1, <2>2 DEF EachIdOnce, Distinct
<1>7. \A k \in 1 .. Len(doc.nodes) : k \in 1 .. Len(new.nodes) /\ new.nodes[k] = doc.nodes[k]
  BY <1>2, <1>3, <1>5
<1>8. new.usable = doc.usable
  BY <1>3 DEF usable
<1> QED  BY <1>6, <1>7, <1>8, Kept

(* A rename leaves the nodes in place. *)
LEMMA RenameKeeps ==
    ASSUME NEW doc \in Document, EachIdOnce(doc), NEW id \in ListedIds(doc), NEW name \in Names,
           NEW new \in Document, new = RenameNode(doc, id, name)
    PROVE  EachIdOnce(new) /\ Unusable(doc) \subseteq Unusable(new)
<1> DEFINE at == NodeAt(doc, id)
           usable == doc.usable
           nodes == [doc.nodes EXCEPT ![at] = [doc.nodes[at] EXCEPT !.name = name]]
<1>1. /\ at \in ListedNodes(doc) /\ nodes \in Seq(Node) /\ Counter(doc) \in RawId
      /\ new = Rewritten(doc, nodes, doc.base, usable, Counter(doc))
      /\ doc.base \in RawId /\ usable \in BOOLEAN
  BY RenameType DEF Document
<1> HIDE DEF at
<1>2. /\ Len(nodes) = Len(doc.nodes)
      /\ \A k \in 1 .. Len(doc.nodes) :
            /\ nodes[k].id = doc.nodes[k].id /\ nodes[k].readable = doc.nodes[k].readable
            /\ k # at => nodes[k] = doc.nodes[k]
  BY NodesType DEF Node
<1> HIDE DEF nodes, usable
<1>3. new.nodes = nodes /\ new.usable = usable
  BY <1>1, RewrittenType
<1>4. new.usable = doc.usable
  BY <1>3 DEF usable
<1>5. \A k \in 1 .. Len(doc.nodes) :
         /\ new.nodes[k].id = doc.nodes[k].id
         /\ new.nodes[k].readable = doc.nodes[k].readable
         /\ k \notin ListedNodes(doc) => new.nodes[k] = doc.nodes[k]
  BY <1>1, <1>2, <1>3
<1> QED  BY <1>2, <1>3, <1>4, <1>5, InPlaceKeeps

(* So do thumbnails. *)
LEMMA ThumbnailsKeep ==
    ASSUME NEW doc \in Document, EachIdOnce(doc), NEW ids,
           NEW new \in Document, new = SetNodeThumbnails(doc, ids)
    PROVE  EachIdOnce(new) /\ Unusable(doc) \subseteq Unusable(new)
<1> DEFINE nodes == Pictured(doc, ids)
<1>1. /\ new = [doc EXCEPT !.nodes = nodes] /\ Len(nodes) = Len(doc.nodes)
  BY ThumbnailsType
<1>2. \A k \in 1 .. Len(doc.nodes) :
         /\ nodes[k].id = doc.nodes[k].id /\ nodes[k].readable = doc.nodes[k].readable
         /\ k \notin ListedNodes(doc) => nodes[k] = doc.nodes[k]
  BY NodesType DEF Pictured, Node
<1> HIDE DEF nodes
<1>3. new.nodes = nodes /\ new.usable = doc.usable
  BY <1>1 DEF Document
<1> QED  BY <1>1, <1>2, <1>3, InPlaceKeeps

(* A delete takes out one listed node, and rewrites no node that is not listed. *)
LEMMA DeleteKeeps ==
    ASSUME NEW doc \in Document, EachIdOnce(doc), NEW id \in ListedIds(doc),
           NEW new \in Document, new = DeleteNode(doc, id)
    PROVE  EachIdOnce(new) /\ Unusable(doc) \subseteq Unusable(new)
<1> DEFINE at == NodeAt(doc, id)
           moved == MovedNodes(doc, id)
           nodes == RemoveAt(moved, at)
           base == MovedBase(doc, id)
           last == Len(doc.nodes) - 1
           usable == doc.usable
<1>1. /\ at \in ListedNodes(doc) /\ at \in 1 .. Len(doc.nodes)
      /\ moved \in Seq(Node) /\ Len(moved) = Len(doc.nodes)
      /\ nodes \in Seq(Node) /\ base \in RawId /\ Counter(doc) \in RawId
      /\ new = Rewritten(doc, nodes, base, usable, Counter(doc))
      /\ usable \in BOOLEAN
  BY DeleteType DEF Document
<1> HIDE DEF at
<1>2. \A k \in 1 .. Len(doc.nodes) :
         /\ moved[k].id = doc.nodes[k].id /\ moved[k].readable = doc.nodes[k].readable
         /\ k \notin ListedNodes(doc) => moved[k] = doc.nodes[k]
  BY NodesType DEF MovedNodes, Node
<1> HIDE DEF moved
<1>3. /\ Len(nodes) = last /\ last \in Nat
      /\ \A i \in 1 .. last : /\ nodes[i] = moved[Was(at, i)]
                              /\ Was(at, i) \in (1 .. Len(doc.nodes)) \ {at}
      /\ \A k \in (1 .. Len(doc.nodes)) \ {at} : \E i \in 1 .. last : k = Was(at, i)
  <2>0. at \in 1 .. Len(moved) /\ moved \in Seq(Node)
    BY <1>1
  <2>1. /\ Len(RemoveAt(moved, at)) = Len(moved) - 1
        /\ \A i \in 1 .. Len(moved) - 1 : /\ RemoveAt(moved, at)[i] = moved[Was(at, i)]
                                          /\ Was(at, i) \in (1 .. Len(moved)) \ {at}
        /\ \A k \in (1 .. Len(moved)) \ {at} :
              \E i \in 1 .. Len(moved) - 1 : k = Was(at, i)
    <3> HIDE DEF nodes
    <3> QED  BY <2>0, Removed
  <2> QED  BY <1>1, <2>1, NodesType
<1>4. \A i, j \in 1 .. last : Was(at, i) = Was(at, j) => i = j
  BY <1>1, NodesType DEF Was
<1> HIDE DEF nodes, base, usable
<1>5. new.nodes = nodes /\ new.usable = usable
  BY <1>1, RewrittenType
<1>6. new.usable = doc.usable /\ doc.usable
  BY <1>5, ListedBelow DEF usable
<1>7. last < Len(doc.nodes) /\ Len(doc.nodes) \in Nat
  BY NodesType
<1> HIDE DEF last
<1>8. EachIdOnce(new)
  <2>1. Len(new.nodes) <= MaximumSnapshots
    BY <1>3, <1>5, <1>6, <1>7, SnapshotsAssumption DEF EachIdOnce, Distinct
  <2>2. ASSUME NEW i \in Readable(new), NEW j \in Readable(new), new.nodes[i].id = new.nodes[j].id
        PROVE  i = j
    <3>1. /\ i \in 1 .. last /\ CanList(nodes[i]) /\ j \in 1 .. last /\ CanList(nodes[j])
      BY <1>3, <1>5 DEF Readable
    <3>2. \A h \in 1 .. last : /\ Was(at, h) \in 1 .. Len(doc.nodes)
                               /\ nodes[h].id = doc.nodes[Was(at, h)].id
                               /\ nodes[h].readable = doc.nodes[Was(at, h)].readable
      BY <1>2, <1>3
    <3>3. Was(at, i) \in Readable(doc) /\ Was(at, j) \in Readable(doc)
      BY <1>6, <3>1, <3>2 DEF Readable, CanList
    <3>4. Was(at, i) = Was(at, j)
      BY <1>5, <1>6, <2>2, <3>1, <3>2, <3>3 DEF EachIdOnce, Distinct
    <3> QED  BY <1>4, <3>1, <3>4
  <2> QED  BY <2>1, <2>2 DEF EachIdOnce, Distinct
<1>9. ASSUME NEW k \in 1 .. Len(doc.nodes), ~CanList(doc.nodes[k])
      PROVE  \E i \in 1 .. Len(new.nodes) : new.nodes[i] = doc.nodes[k]
  <2>1. k \notin ListedNodes(doc) /\ k # at
    BY <1>1, <1>9, ListedAre
  <2>2. PICK i \in 1 .. last : k = Was(at, i)
    BY <1>3, <2>1
  <2> QED  BY <1>2, <1>3, <1>5, <2>1, <2>2
<1> QED  BY <1>6, <1>8, <1>9, Kept

(* A discard leaves listed nodes alone, each of them once. *)
LEMMA DiscardLists ==
    ASSUME NEW doc \in Document, EachIdOnce(doc), NEW new \in Document, new = DiscardNodes(doc)
    PROVE  EachIdOnce(new)
<1> DEFINE K == ListedNodes(doc)
           nodes == KeptNodes(doc)
           base == ReadSavedBase(doc)
           next == AtLeast(Counter(doc), FloorAbove(RawIds(doc.nodes)))
           last == Cardinality(K)
           usable == TRUE
<1>1. /\ nodes \in Seq(Node) /\ Len(nodes) = last /\ base \in RawId /\ next \in RawId
      /\ new = Rewritten(doc, nodes, base, usable, next) /\ usable \in BOOLEAN
  BY DiscardType
<1>2. K \in SUBSET (1 .. Len(doc.nodes)) /\ Len(doc.nodes) \in Nat
  BY ListedAre, NodesType
<1>3. \A i \in 1 .. last :
         nodes[i].id = doc.nodes[Nth(K, i)].id
  <2>1. \A i \in 1 .. last : nodes[i] = [doc.nodes[Nth(K, i)] EXCEPT
                                           !.parent = ReadParents(doc)[doc.nodes[Nth(K, i)].id]]
    BY DEF KeptNodes
  <2>2. \A i \in 1 .. last : Nth(K, i) \in K
    <3> HIDE DEF K
    <3> QED  BY <1>2, NthIs
  <2>3. \A k \in K : doc.nodes[k] \in Node
    BY <1>2, NodesType
  <2> HIDE DEF nodes, K
  <2> QED  BY <2>1, <2>2, <2>3 DEF Node
<1>4. K = Readable(doc)
  BY DistinctIs DEF EachIdOnce
<1> HIDE DEF K, nodes, base, next, usable
<1>5. /\ last \in 0 .. Len(doc.nodes)
      /\ \A i \in 1 .. last : Nth(K, i) \in K
      /\ \A i, j \in 1 .. last : Nth(K, i) = Nth(K, j) => i = j
  BY <1>2, NthIs
<1>6. new.nodes = nodes
  BY <1>1, RewrittenType
<1>7. last <= MaximumSnapshots
  <2>1. CASE doc.usable
    BY <1>2, <1>5, <2>1, SnapshotsAssumption DEF EachIdOnce, Distinct
  <2>2. CASE ~doc.usable
    BY <1>4, <2>2, FS_EmptySet, SnapshotsAssumption DEF Readable
  <2> QED  BY <2>1, <2>2
<1>8. ASSUME NEW i \in Readable(new), NEW j \in Readable(new), new.nodes[i].id = new.nodes[j].id
      PROVE  i = j
  <2>1. i \in 1 .. last /\ j \in 1 .. last
    BY <1>1, <1>6 DEF Readable
  <2>2. Nth(K, i) \in Readable(doc) /\ Nth(K, j) \in Readable(doc)
    BY <1>4, <1>5, <2>1
  <2>3. Nth(K, i) = Nth(K, j)
    BY <1>3, <1>6, <1>8, <2>1, <2>2 DEF EachIdOnce, Distinct, Readable
  <2> QED  BY <1>5, <2>1, <2>3
<1> QED  BY <1>1, <1>6, <1>7, <1>8 DEF EachIdOnce, Distinct

-----------------------------------------------------------------------------
(* The theorems on damage, deletion and the store. *)

(* Whatever the request, a document in which no id is carried twice stays one, and only *)
(* a discard drops nodes.                                                               *)
LEMMA PatchedKeeps ==
    ASSUME NEW doc \in Document, EachIdOnce(doc), NEW req \in Request, ~Refused(doc, req),
           NEW new \in Patched(doc, req)
    PROVE  /\ EachIdOnce(new)
           /\ req.op = "discard" \/ Unusable(doc) \subseteq Unusable(new)
<1>0. new \in Document
  BY PatchedType
<1>1. CASE req.op = "add"
  <2>1. PICK draft \in Snapshot : new = AddNode(doc, draft)
    BY <1>1 DEF Patched
  <2>2. doc.usable /\ Len(doc.nodes) < MaximumSnapshots /\ Counter(doc) # MaximumId
    BY <1>1, NotRefused
  <2> QED  BY <1>0, <2>1, <2>2, AddKeeps
<1>2. CASE req.op = "rename"
  <2>1. PICK name \in Names : new = RenameNode(doc, req.id, name)
    BY <1>2 DEF Patched
  <2>2. req.id \in ListedIds(doc)
    BY <1>2, NotRefused
  <2> QED  BY <1>0, <2>1, <2>2, RenameKeeps
<1>3. CASE req.op = "delete"
  <2>1. new = DeleteNode(doc, req.id)
    BY <1>3 DEF Patched
  <2>2. req.id \in ListedIds(doc)
    BY <1>3, NotRefused
  <2> QED  BY <1>0, <2>1, <2>2, DeleteKeeps
<1>4. CASE req.op = "discard"
  <2>1. new = DiscardNodes(doc)
    BY <1>4 DEF Patched
  <2> QED  BY <1>0, <1>4, <2>1, DiscardLists
<1>5. CASE req.op = "thumbnails"
  <2>1. new = SetNodeThumbnails(doc, req.ids)
    BY <1>5 DEF Patched
  <2> QED  BY <1>0, <2>1, ThumbnailsKeep
<1>6. CASE req.op \in {"marks", "active", "activeAndBase"}
  <2>1. new.nodes = doc.nodes /\ new.usable = doc.usable
    <3>0. \A marks, recipe :
             /\ [doc EXCEPT !.marks = marks].nodes = doc.nodes
             /\ [doc EXCEPT !.marks = marks].usable = doc.usable
             /\ [doc EXCEPT !.keys = TRUE, !.recipe = recipe, !.marks = marks].nodes = doc.nodes
             /\ [doc EXCEPT !.keys = TRUE, !.recipe = recipe, !.marks = marks].usable = doc.usable
      BY DEF Document
    <3>1. CASE req.op = "marks"
      <4>1. PICK changes \in MarkChanges : new = [doc EXCEPT !.marks = WithMarks(@, changes)]
        BY <3>1 DEF Patched
      <4>2. new = [doc EXCEPT !.marks = WithMarks(doc.marks, changes)]
        BY <4>1 DEF Document
      <4> QED  BY <3>0, <4>2
    <3>2. CASE req.op = "active"
      <4>1. PICK recipe \in Recipe, changes \in MarkChanges :
               new = PatchActive(doc, recipe, changes)
        BY <3>2 DEF Patched
      <4>2. /\ PatchActive(doc, recipe, changes).nodes = doc.nodes
            /\ PatchActive(doc, recipe, changes).usable = doc.usable
        BY <3>0 DEF PatchActive, Document
      <4> QED  BY <4>1, <4>2
    <3>3. CASE req.op = "activeAndBase"
      <4>1. PICK recipe \in Recipe, changes \in MarkChanges :
               new = [PatchActive(doc, recipe, changes) EXCEPT !.base = req.base]
        BY <3>3 DEF Patched
      <4>2. /\ PatchActive(doc, recipe, changes).nodes = doc.nodes
            /\ PatchActive(doc, recipe, changes).usable = doc.usable
        BY <3>0 DEF PatchActive, Document
      <4>3. PatchActive(doc, recipe, changes) \in Document
        BY ActivePatchType
      <4>4. \A patched \in Document :
               /\ [patched EXCEPT !.base = req.base].nodes = patched.nodes
               /\ [patched EXCEPT !.base = req.base].usable = patched.usable
        BY DEF Document
      <4> QED  BY <4>1, <4>2, <4>3, <4>4
    <3> QED  BY <1>6, <3>1, <3>2, <3>3
  <2> QED  BY <1>0, <2>1, InPlaceKeeps
<1>7. req.op \in {"add", "rename", "delete", "discard", "thumbnails",
                  "activeAndBase", "active", "marks"}
  BY DEF Request
<1> QED  BY <1>1, <1>2, <1>3, <1>4, <1>5, <1>6, <1>7

(* Only a replacement changes the file. *)
LEMMA OnlyReplaceWrites ==
    ASSUME [Next]_vars, ~ \E w \in Writers : Replace(w)
    PROVE  disk' = disk /\ shown' = shown
BY DEF Next, Step, Ask, TakeLock, GiveUp, Reread, Leave, WriteFails, Unlock, Crash, Restart,
       Finish, vars

(* The step of one replacement. *)
LEMMA ReplaceKeeps ==
    ASSUME NEW w \in Writers, FileInv, EachIdOnce(disk), Replace(w)
    PROVE  /\ EachIdOnce(disk')
           /\ disk.version # NewerVersion
           /\ \/ \E v \in Writers : pc[v] = "patching" /\ request[v].op = "discard"
              \/ Unusable(disk) \subseteq Unusable(disk')
<1> DEFINE req == request[w]
           b == WritesActive(req)
<1>1. disk \in Document /\ req \in Request /\ ~Refused(disk, req) /\ pc[w] = "patching"
  BY ReplaceWrites DEF FileInv, DiskInv, Replace
<1>2. PICK new \in Patched(disk, req) : new \in Document /\ disk' = Stamped(disk, new, b)
  BY ReplaceWrites
<1>3. b \in BOOLEAN
  BY DEF WritesActive
<1> HIDE DEF b
<1>4. /\ EachIdOnce(Stamped(disk, new, b))
      /\ Unusable(Stamped(disk, new, b)) = Unusable(new)
      /\ req.op = "discard" \/ Unusable(disk) \subseteq Unusable(new)
  BY <1>1, <1>2, <1>3, PatchedKeeps, StampKeeps
<1>5. disk.version # NewerVersion
  BY <1>1, NotRefused
<1> QED  BY <1>1, <1>2, <1>4, <1>5

(* The documents the file holds, when those it may start with carry no id twice. *)
EachIdOnceAtFirst == \A doc \in InitialDocuments : EachIdOnce(doc)

(* Then no document the file ever holds carries an id twice. *)
LEMMA IdsStayDistinct ==
    ASSUME EachIdOnceAtFirst
    PROVE  Spec => [](FileInv /\ EachIdOnce(disk))
<1>1. Init => EachIdOnce(disk)
  BY DEF Init, EachIdOnceAtFirst
<1>2. FileInv /\ EachIdOnce(disk) /\ [Next]_vars => EachIdOnce(disk)'
  <2> SUFFICES ASSUME FileInv, EachIdOnce(disk), [Next]_vars
               PROVE  EachIdOnce(disk')
    OBVIOUS
  <2>1. CASE \E w \in Writers : Replace(w)
    BY <2>1, ReplaceKeeps
  <2>2. CASE ~ \E w \in Writers : Replace(w)
    BY <2>2, OnlyReplaceWrites
  <2> QED  BY <2>1, <2>2
<1> QED  BY <1>1, <1>2, FileInit, FileNext, PTL DEF Spec

(* Unless an id is carried twice or the list is past its limit, nothing but a discard *)
(* drops an entry that cannot be used, and a newer version's sidecar is not written.  *)
THEOREM DamageStays == EachIdOnceAtFirst => (Spec => DamageIsKept)
<1> SUFFICES ASSUME EachIdOnceAtFirst PROVE Spec => DamageIsKept
  OBVIOUS
<1> DEFINE DamageStep == disk' # disk =>
              /\ disk.version # NewerVersion
              /\ \/ \E w \in Writers : pc[w] = "patching" /\ request[w].op = "discard"
                 \/ Unusable(disk) \subseteq Unusable(disk')
<1>1. FileInv /\ EachIdOnce(disk) /\ [Next]_vars => [DamageStep]_vars
  <2> SUFFICES ASSUME FileInv, EachIdOnce(disk), [Next]_vars, disk' # disk
               PROVE  DamageStep
    OBVIOUS
  <2>1. PICK w \in Writers : Replace(w)
    BY OnlyReplaceWrites
  <2>2. /\ disk.version # NewerVersion
        /\ \/ \E v \in Writers : pc[v] = "patching" /\ request[v].op = "discard"
           \/ Unusable(disk) \subseteq Unusable(disk')
    BY <2>1, ReplaceKeeps
  <2> QED  BY <2>2
<1>2. Spec => [](FileInv /\ EachIdOnce(disk))
  BY IdsStayDistinct
<1>3. Spec => [][DamageStep]_vars
  BY <1>1, <1>2, PTL DEF Spec
<1> QED  BY <1>3 DEF DamageIsKept

(* A deleted id is listed no more. *)
LEMMA DeleteRemoves ==
    ASSUME NEW doc \in Document, EachIdOnce(doc), NEW id \in ListedIds(doc)
    PROVE  id \notin ListedIds(DeleteNode(doc, id))
<1> DEFINE at == NodeAt(doc, id)
           moved == MovedNodes(doc, id)
           nodes == RemoveAt(moved, at)
           base == MovedBase(doc, id)
           usable == doc.usable
           new == DeleteNode(doc, id)
<1>1. /\ at \in ListedNodes(doc) /\ at \in 1 .. Len(doc.nodes) /\ doc.nodes[at].id = id
      /\ moved \in Seq(Node) /\ Len(moved) = Len(doc.nodes)
      /\ nodes \in Seq(Node) /\ base \in RawId /\ Counter(doc) \in RawId
      /\ new = Rewritten(doc, nodes, base, usable, Counter(doc))
      /\ usable \in BOOLEAN
  BY DeleteType, ListedAre DEF Document
<1> HIDE DEF at
<1>2. \A k \in 1 .. Len(doc.nodes) :
         moved[k].id = doc.nodes[k].id /\ moved[k].readable = doc.nodes[k].readable
  BY NodesType DEF MovedNodes, Node
<1> HIDE DEF moved
<1>3. \A i \in 1 .. Len(nodes) : /\ nodes[i] = moved[Was(at, i)]
                                 /\ Was(at, i) \in (1 .. Len(doc.nodes)) \ {at}
  <2>0. at \in 1 .. Len(moved) /\ moved \in Seq(Node)
    BY <1>1
  <2>1. /\ Len(RemoveAt(moved, at)) = Len(moved) - 1
        /\ \A i \in 1 .. Len(moved) - 1 : /\ RemoveAt(moved, at)[i] = moved[Was(at, i)]
                                          /\ Was(at, i) \in (1 .. Len(moved)) \ {at}
    <3> HIDE DEF nodes
    <3> QED  BY <2>0, Removed
  <2> QED  BY <1>1, <2>1
<1> HIDE DEF nodes, base, usable, new
<1>4. new.nodes = nodes /\ new.usable = usable /\ new \in Document
  BY <1>1, RewrittenType
<1>5. ListedNodes(doc) = Readable(doc) /\ doc.usable
  BY DistinctIs, ListedBelow DEF EachIdOnce
<1> SUFFICES ASSUME NEW i \in ListedNodes(new), new.nodes[i].id = id
             PROVE  FALSE
  BY DEF ListedIds, new
<1>6. i \in 1 .. Len(nodes) /\ CanList(nodes[i])
  BY <1>4, ListedAre
<1>7. Was(at, i) \in Readable(doc) /\ doc.nodes[Was(at, i)].id = id
  BY <1>2, <1>3, <1>4, <1>5, <1>6 DEF Readable, CanList
<1> QED  BY <1>1, <1>3, <1>5, <1>6, <1>7 DEF EachIdOnce, Distinct

(* Unless an id is carried twice or the list is past its limit, a snapshot that was *)
(* deleted is not there any more.                                                   *)
THEOREM DeletedStaysAway == EachIdOnceAtFirst => (Spec => DeletedIsGone)
<1> SUFFICES ASSUME EachIdOnceAtFirst PROVE Spec => DeletedIsGone
  OBVIOUS
<1> DEFINE Gone == \A w \in Writers :
              /\ pc[w] = "patching" /\ pc'[w] = "replaced" /\ request[w].op = "delete"
              => request[w].id \notin Ids(shown'.snapshots)
<1>1. FileInv /\ EachIdOnce(disk) /\ [Next]_vars => [Gone]_vars
  <2> SUFFICES ASSUME FileInv, EachIdOnce(disk), [Next]_vars, NEW w \in Writers,
                      pc[w] = "patching", pc'[w] = "replaced", request[w].op = "delete"
               PROVE  request[w].id \notin Ids(shown'.snapshots)
    OBVIOUS
  <2> DEFINE id == request[w].id
             b == FALSE
  <2>1. Replace(w)
    <3>1. pc \in [Writers -> Places]
      BY DEF FileInv, LockInv
    <3> QED  BY <3>1 DEF Next, Step, Ask, TakeLock, GiveUp, Reread, Leave, WriteFails,
                Unlock, Crash, Restart, Finish, vars, Replace
  <2>2. /\ disk \in Document /\ request[w] \in Request /\ ~Refused(disk, request[w])
        /\ disk' \in Document /\ shown' = View(disk')
        /\ disk' = Stamped(disk, DeleteNode(disk, id), b)
    <3>1. PICK new \in Patched(disk, request[w]) :
             disk' = Stamped(disk, new, WritesActive(request[w]))
      BY <2>1, ReplaceWrites
    <3>2. new = DeleteNode(disk, id)
      BY DEF Patched
    <3>3. Stamped(disk, new, WritesActive(request[w])) = Stamped(disk, new, FALSE)
      BY DEF WritesActive, Stamped
    <3> QED  BY <2>1, <3>1, <3>2, <3>3, ReplaceWrites DEF FileInv, DiskInv
  <2>3. id \in ListedIds(disk)
    BY <2>2, NotRefused
  <2>4. id \notin ListedIds(DeleteNode(disk, id))
    BY <2>2, <2>3, DeleteRemoves
  <2>5. DeleteNode(disk, id) \in Document
    BY <2>2, PatchedType DEF Patched
  <2>6. b \in BOOLEAN
    BY DEF b
  <2> HIDE DEF b, id
  <2>7. /\ disk'.nodes = DeleteNode(disk, id).nodes
        /\ disk'.usable = DeleteNode(disk, id).usable
    <3> DEFINE new == DeleteNode(disk, id)
    <3>1. new \in Document
      BY <2>5
    <3> HIDE DEF new
    <3>2. /\ Stamped(disk, new, b).nodes = new.nodes
          /\ Stamped(disk, new, b).usable = new.usable
      BY <2>6, <3>1, StampedType
    <3> QED  BY <2>2, <3>2 DEF new
  <2>8. ListedIds(disk') = ListedIds(DeleteNode(disk, id))
    BY <2>7 DEF ListedIds, ListedNodes
  <2>9. Ids(shown'.snapshots) = ListedIds(disk')
    BY <2>2, ViewType, CollectionIs
  <2> QED  BY <2>4, <2>8, <2>9 DEF id
<1>2. Spec => [](FileInv /\ EachIdOnce(disk))
  BY IdsStayDistinct
<1>3. Spec => [][Gone]_vars
  BY <1>1, <1>2, PTL DEF Spec
<1> QED  BY <1>3 DEF DeletedIsGone

(* The documents the file may start with, when they are regular. *)
RegularAtFirst == \A doc \in InitialDocuments : Regular(doc)

(* Every step leaves a regular document, and is a step of the store or a stutter. *)
LEMMA StaysRegular ==
    FileInv /\ Regular(disk) /\ [Next]_vars =>
        Regular(disk)' /\ [Store!Next]_(Store!vars)
<1> SUFFICES ASSUME FileInv, Regular(disk), [Next]_vars
             PROVE  Regular(disk') /\ [Store!Next]_(Store!vars)
  OBVIOUS
<1>1. CASE \E w \in Writers : Replace(w)
  BY <1>1, ReplaceIsWrite
<1>2. CASE ~ \E w \in Writers : Replace(w)
  BY <1>2, OnlyReplaceWrites DEF Store!vars
<1> QED  BY <1>1, <1>2

(* Regular documents make the file the store: whoever writes, is refused, waits, dies *)
(* or takes over a lock, a reader sees one write of the store after another.          *)
THEOREM RegularFilesAreTheStore == RegularAtFirst => (Spec => ImplementsStore)
<1> SUFFICES ASSUME RegularAtFirst PROVE Spec => ImplementsStore
  OBVIOUS
<1>1. Init => Regular(disk) /\ Store!Init
  BY DEF Init, Store!Init, RegularAtFirst
<1>2. Spec => Store!Spec
  BY <1>1, FileInit, FileNext, StaysRegular, PTL DEF Spec, Store!Spec
<1> QED  BY <1>2 DEF ImplementsStore
=============================================================================
