-------------------------- MODULE FilmStrip_proofs --------------------------
(***************************************************************************)
(* Theorems about the film strip: its pictures, its marks, its rows, and   *)
(* the watches on the directories of the folder it lists.                  *)
(***************************************************************************)
EXTENDS MCFilmStrip, Subsequences, Integers, FiniteSetTheorems, SequenceTheorems, TLAPS

-----------------------------------------------------------------------------
(* Parts of sequences. *)

(* How many numbers of a set are no later than one. *)
Upto(S, i) == Cardinality({j \in S : j <= i})

(* The numbers of a finite set are its first, its second, and so on. *)
LEMMA NthIs ==
    ASSUME NEW S \in SUBSET Nat, IsFiniteSet(S)
    PROVE  /\ Cardinality(S) \in Nat
           /\ \A k \in 1 .. Cardinality(S) : Nth(S, k) \in S
           /\ \A k, l \in 1 .. Cardinality(S) : k < l => Nth(S, k) < Nth(S, l)
           /\ \A i \in S : \E k \in 1 .. Cardinality(S) : Nth(S, k) = i
<1> DEFINE n == Cardinality(S)
           number == [i \in S |-> Upto(S, i)]
<1>1. n \in Nat
  BY FS_CardinalityType
<1>2. \A i \in S : Upto(S, i) \in 1 .. n
  <2> SUFFICES ASSUME NEW i \in S
               PROVE  Upto(S, i) \in 1 .. n
    OBVIOUS
  <2> DEFINE U == {j \in S : j <= i}
  <2>1. i \in U /\ U \subseteq S
    OBVIOUS
  <2> HIDE DEF U
  <2>2. IsFiniteSet(U) /\ Cardinality(U) <= n
    BY <2>1, FS_Subset
  <2>3. Cardinality(U) \in Nat /\ Cardinality(U) # 0
    BY <2>1, <2>2, FS_CardinalityType, FS_EmptySet
  <2> QED  BY <1>1, <2>2, <2>3 DEF U, Upto
<1>3. \A i, j \in S : i < j => Upto(S, i) < Upto(S, j)
  <2> SUFFICES ASSUME NEW i \in S, NEW j \in S, i < j
               PROVE  Upto(S, i) < Upto(S, j)
    OBVIOUS
  <2> DEFINE U == {l \in S : l <= i}
             V == {l \in S : l <= j}
  <2>0. i \in Nat /\ j \in Nat /\ \A l \in S : l \in Nat
    OBVIOUS
  <2>1. U \in SUBSET V /\ j \in V /\ j \notin U /\ V \in SUBSET S
    <3>1. \A l \in S : l <= i => l <= j
      BY <2>0
    <3>2. j <= j /\ ~(j <= i)
      BY <2>0
    <3> QED  BY <3>1, <3>2
  <2>2. Cardinality(U) = Upto(S, i) /\ Cardinality(V) = Upto(S, j)
    BY DEF Upto
  <2> HIDE DEF U, V
  <2>3. IsFiniteSet(V)
    BY <2>1, FS_Subset
  <2>4. Cardinality(U) <= Cardinality(V) /\ (Cardinality(V) = Cardinality(U) => V = U)
    BY <2>1, <2>3, FS_Subset
  <2>5. Upto(S, i) \in Nat /\ Upto(S, j) \in Nat
    BY <1>1, <1>2
  <2> QED  BY <2>1, <2>2, <2>4, <2>5
<1>4. \A i, j \in S : Upto(S, i) = Upto(S, j) => i = j
  BY <1>1, <1>2, <1>3
<1>5. \A k \in 1 .. n : \E i \in S : Upto(S, i) = k
  <2> DEFINE T == 1 .. n
  <2>1. IsFiniteSet(T) /\ Cardinality(T) = n
    BY <1>1, FS_Interval
  <2>2. number \in Injection(S, T)
    BY <1>2, <1>4 DEF Injection, IsInjective
  <2> HIDE DEF T, number
  <2>3. number \in Surjection(S, T)
    BY <2>1, <2>2, FS_Injection
  <2>4. \A k \in T : \E i \in S : number[i] = k
    BY <2>3 DEF Surjection
  <2> QED  BY <2>4 DEF T, number
<1>6. \A k \in 1 .. n : Nth(S, k) \in S /\ Upto(S, Nth(S, k)) = k
  BY <1>5 DEF Nth, Upto
<1>7. \A k, l \in 1 .. n : k < l => Nth(S, k) < Nth(S, l)
  <2> SUFFICES ASSUME NEW k \in 1 .. n, NEW l \in 1 .. n, k < l
               PROVE  Nth(S, k) < Nth(S, l)
    OBVIOUS
  <2> DEFINE i == Nth(S, k)
             j == Nth(S, l)
  <2>1. i \in S /\ j \in S /\ Upto(S, i) = k /\ Upto(S, j) = l
    BY <1>6
  <2> HIDE DEF i, j
  <2>2. i \in Nat /\ j \in Nat /\ k \in Nat /\ l \in Nat
    BY <1>1, <2>1
  <2>3. i # j /\ ~(j < i)
    BY <1>3, <2>1, <2>2
  <2>4. i < j
    BY <2>2, <2>3
  <2> QED  BY <2>4 DEF i, j
<1>8. \A i \in S : \E k \in 1 .. n : Nth(S, k) = i
  BY <1>2, <1>4, <1>6
<1> QED  BY <1>1, <1>6, <1>7, <1>8

(* A part of a sequence has what the sequence has at its places, in that order. *)
LEMMA SubsequenceIs ==
    ASSUME NEW T, NEW s \in Seq(T), NEW P \in SUBSET DOMAIN s
    PROVE  LET kept == Subsequence(s, P)
           IN  /\ kept \in Seq(T)
               /\ \A k \in DOMAIN kept : Nth(P, k) \in P /\ kept[k] = s[Nth(P, k)]
               /\ \A k, l \in DOMAIN kept : k < l => Nth(P, k) < Nth(P, l)
               /\ \A i \in P : \E k \in DOMAIN kept : Nth(P, k) = i
<1> DEFINE n == Cardinality(P)
           kept == Subsequence(s, P)
<1>1. Len(s) \in Nat /\ DOMAIN s = 1 .. Len(s) /\ \A i \in DOMAIN s : s[i] \in T
  BY LenProperties, ElementOfSeq
<1>2. P \in SUBSET Nat /\ IsFiniteSet(P)
  <2>1. IsFiniteSet(1 .. Len(s))
    BY <1>1, FS_Interval
  <2> QED  BY <1>1, <2>1, FS_Subset
<1>3. /\ n \in Nat
      /\ \A k \in 1 .. n : Nth(P, k) \in P
      /\ \A k, l \in 1 .. n : k < l => Nth(P, k) < Nth(P, l)
      /\ \A i \in P : \E k \in 1 .. n : Nth(P, k) = i
  BY <1>2, NthIs
<1> HIDE DEF n
<1>4. kept = [k \in 1 .. n |-> s[Nth(P, k)]]
  BY DEF Subsequence, n
<1>5. \A k \in 1 .. n : s[Nth(P, k)] \in T
  BY <1>1, <1>3
<1>6. kept \in Seq(T)
  <2> HIDE DEF kept
  <2>1. kept \in [1 .. n -> T]
    BY <1>4, <1>5
  <2> QED  BY <1>3, <2>1
<1>7. DOMAIN kept = 1 .. n /\ \A k \in 1 .. n : kept[k] = s[Nth(P, k)]
  BY <1>4
<1> HIDE DEF kept
<1>8. /\ kept \in Seq(T)
      /\ \A k \in DOMAIN kept : Nth(P, k) \in P /\ kept[k] = s[Nth(P, k)]
      /\ \A k, l \in DOMAIN kept : k < l => Nth(P, k) < Nth(P, l)
      /\ \A i \in P : \E k \in DOMAIN kept : Nth(P, k) = i
  BY <1>3, <1>6, <1>7
<1> QED  BY <1>8 DEF kept

(* What a sequence has. *)
Has(s, e) == \E i \in DOMAIN s : s[i] = e

LEMMA WithoutIs ==
    ASSUME NEW T, NEW s \in Seq(T), NEW E
    PROVE  /\ Without(s, E) \in Seq(T)
           /\ \A e : Has(Without(s, E), e) <=> Has(s, e) /\ e \notin E
<1> DEFINE P == {place \in DOMAIN s : s[place] \notin E}
           kept == Subsequence(s, P)
<1>1. P \in SUBSET DOMAIN s
  OBVIOUS
<1>2. kept = Without(s, E)
  BY DEF Without
<1>3. /\ kept \in Seq(T)
      /\ \A k \in DOMAIN kept : Nth(P, k) \in P /\ kept[k] = s[Nth(P, k)]
      /\ \A i \in P : \E k \in DOMAIN kept : Nth(P, k) = i
  <2> HIDE DEF P
  <2> QED  BY <1>1, SubsequenceIs
<1>4. \A i \in DOMAIN s : i \in P <=> s[i] \notin E
  OBVIOUS
<1>5. \A i \in P : i \in DOMAIN s
  OBVIOUS
<1> HIDE DEF P, kept
<1>6. ASSUME NEW e
      PROVE  Has(kept, e) <=> Has(s, e) /\ e \notin E
  <2>1. ASSUME NEW k \in DOMAIN kept, kept[k] = e
        PROVE  Has(s, e) /\ e \notin E
    BY <1>3, <1>4, <1>5, <2>1 DEF Has
  <2>2. ASSUME NEW i \in DOMAIN s, s[i] = e, e \notin E
        PROVE  Has(kept, e)
    <3>1. PICK k \in DOMAIN kept : Nth(P, k) = i
      BY <1>3, <1>4, <2>2
    <3> QED  BY <1>3, <2>2, <3>1 DEF Has
  <2> QED  BY <2>1, <2>2 DEF Has
<1> QED  BY <1>2, <1>3, <1>6

LEMMA AppendHas ==
    ASSUME NEW T, NEW s \in Seq(T), NEW new \in T
    PROVE  /\ Append(s, new) \in Seq(T)
           /\ Len(Append(s, new)) = Len(s) + 1
           /\ \A e : Has(Append(s, new), e) <=> Has(s, e) \/ e = new
<1>1. /\ Append(s, new) \in Seq(T)
      /\ Len(Append(s, new)) = Len(s) + 1
      /\ \A i \in 1 .. Len(s) : Append(s, new)[i] = s[i]
      /\ Append(s, new)[Len(s) + 1] = new
  OBVIOUS
<1>2. /\ Len(s) \in Nat /\ DOMAIN s = 1 .. Len(s)
      /\ DOMAIN Append(s, new) = 1 .. Len(s) + 1
  BY LenProperties, <1>1
<1>3. \A i \in 1 .. Len(s) + 1 : i \in 1 .. Len(s) \/ i = Len(s) + 1
  BY <1>2
<1>4. ASSUME NEW e
      PROVE  Has(Append(s, new), e) <=> Has(s, e) \/ e = new
  BY <1>1, <1>2, <1>3 DEF Has
<1> QED  BY <1>1, <1>4

LEMMA TailHas ==
    ASSUME NEW T, NEW s \in Seq(T), s # <<>>
    PROVE  /\ Tail(s) \in Seq(T) /\ Head(s) \in T /\ Head(s) = s[1]
           /\ Len(s) \in Nat /\ Len(s) >= 1 /\ DOMAIN s = 1 .. Len(s)
           /\ Len(Tail(s)) = Len(s) - 1
           /\ DOMAIN Tail(s) = 1 .. Len(s) - 1
           /\ \A i \in 1 .. Len(s) - 1 : Tail(s)[i] = s[i + 1]
           /\ \A e : Has(s, e) <=> e = Head(s) \/ Has(Tail(s), e)
<1>1. /\ Tail(s) \in Seq(T) /\ Head(s) \in T
      /\ Len(Tail(s)) = Len(s) - 1
      /\ \A i \in 1 .. Len(s) - 1 : Tail(s)[i] = s[i + 1]
  BY HeadTailProperties
<1>2. Len(s) \in Nat /\ DOMAIN s = 1 .. Len(s) /\ Len(s) # 0
  BY LenProperties, EmptySeq
<1>3. DOMAIN Tail(s) = 1 .. Len(s) - 1
  BY <1>1, LenProperties
<1>4. Head(s) = s[1]
  BY <1>2
<1>5. ASSUME NEW e
      PROVE  Has(s, e) <=> e = Head(s) \/ Has(Tail(s), e)
  <2>1. ASSUME NEW i \in DOMAIN s, s[i] = e, i # 1
        PROVE  Has(Tail(s), e)
    <3>1. i - 1 \in DOMAIN Tail(s) /\ Tail(s)[i - 1] = e
      BY <1>1, <1>2, <1>3, <2>1
    <3> QED  BY <3>1 DEF Has
  <2>2. ASSUME NEW i \in DOMAIN Tail(s), Tail(s)[i] = e
        PROVE  Has(s, e)
    BY <1>1, <1>2, <1>3, <2>2 DEF Has
  <2>3. 1 \in DOMAIN s
    BY <1>2
  <2> QED  BY <1>4, <2>1, <2>2, <2>3 DEF Has
<1> QED  BY <1>1, <1>2, <1>3, <1>4, <1>5

LEMMA NoneHas == \A e : ~Has(<<>>, e)
BY DEF Has

-----------------------------------------------------------------------------
(* The pictures. *)

PictureResults == [photo : Photos, picture : Pictures!Shown, generation : Nat]

Queues == [urgent : Seq(Photos), embedded : SUBSET Photos, developed : SUBSET Photos]

PictureTypes ==
    /\ settings \in [Photos -> Pictures!Versions]
    /\ pictures \in [Photos -> Pictures!Shown \cup {None}]
    /\ generation \in 0 .. ListingBound
    /\ known \cup owed \subseteq Photos
    /\ live \in Photos \cup {None}
    /\ queued \in Queues
    /\ working \in Pictures!Jobs \cup {None}
    /\ working # None /\ working.kind = "embedded" => working.read = <<>>
    /\ results \in Seq(PictureResults)

(* What is queued, or has been known before. *)
QueuesAreKnown ==
    /\ queued.embedded \subseteq queued.developed
    /\ Pictures!Listed \subseteq known

(* The developed picture of a photograph is to be made. *)
ToDevelop(photo) == photo \in queued.developed \/ Has(queued.urgent, photo)

Making(photo) == working # None /\ working.photo = photo /\ working.generation = generation

(* Pictures of a photograph on their way, made for what is listed. *)
OnTheWay(photo) ==
    {i \in DOMAIN results : results[i].photo = photo /\ results[i].generation = generation}

AsSaved(photo, picture) == picture = <<settings[photo], settings[photo]>>

(* The last to come is developed with the settings as they are saved: it is still to be made, it is
   being made and has read nothing else, it is the last on its way, or it has come. *)
Promised(photo) ==
    \/ ToDevelop(photo)
    \/ /\ Making(photo)
       /\ working.kind = "developed"
       /\ \A i \in DOMAIN working.read : working.read[i] = settings[photo]
    \/ /\ ~Making(photo)
       /\ OnTheWay(photo) # {}
       /\ \A i \in OnTheWay(photo) :
             (\A j \in OnTheWay(photo) : j <= i) => AsSaved(photo, results[i].picture)
    \/ /\ ~Making(photo)
       /\ OnTheWay(photo) = {}
       /\ AsSaved(photo, pictures[photo])

PicturesArePromised == \A photo \in Pictures!Listed \ (owed \cup {live}) : Promised(photo)

PicturesInv == PictureTypes /\ QueuesAreKnown /\ PicturesArePromised

LEMMA PicturesWithoutIs ==
    ASSUME NEW s \in Seq(Photos), NEW E
    PROVE  /\ Pictures!Without(s, E) \in Seq(Photos)
           /\ \A e : Has(Pictures!Without(s, E), e) <=> Has(s, e) /\ e \notin E
<1>1. ASSUME NEW S
      PROVE  Pictures!Cardinality(S) = Cardinality(S)
  BY DEF Pictures!Cardinality, Cardinality
<1>2. ASSUME NEW S, NEW k
      PROVE  Pictures!Nth(S, k) = Nth(S, k)
  BY <1>1 DEF Pictures!Nth, Nth
<1>3. ASSUME NEW S
      PROVE  Pictures!Subsequence(s, S) = Subsequence(s, S)
  BY <1>1, <1>2 DEF Pictures!Subsequence, Subsequence
<1>4. Pictures!Without(s, E) = Without(s, E)
  BY <1>3 DEF Pictures!Without, Without
<1> QED  BY <1>4, WithoutIs

LEMMA QueuedFields ==
    ASSUME PictureTypes
    PROVE  /\ queued.urgent \in Seq(Photos)
           /\ queued.embedded \subseteq Photos
           /\ queued.developed \subseteq Photos
BY DEF PictureTypes, Queues

(* Where there is a row, and where there is none. *)
LEMMA ShownIsListed ==
    /\ Pictures!NoPicture \in Pictures!Shown
    /\ \A shown \in Pictures!Shown : shown # None
BY NothingAssumption DEF Pictures!Shown

LEMMA JobsAreSomething == \A job \in Pictures!Jobs : job # None
BY NothingAssumption

(* invalidate() has a photograph developed that is known, and nothing else any less. *)
LEMMA InvalidateTypes ==
    ASSUME PictureTypes, NEW photo \in Photos, Pictures!Invalidate(photo)
    PROVE  /\ queued' \in Queues
           /\ owed' \subseteq Photos
<1> DEFINE kept == Pictures!Without(queued.urgent, {photo})
           invalid == [urgent |-> Append(kept, photo),
                       embedded |-> queued.embedded \ {photo},
                       developed |-> queued.developed \ {photo}]
<1>1. queued' = IF photo \in known THEN invalid ELSE queued
  BY DEF Pictures!Invalidate
<1>2. owed' \subseteq owed
  BY DEF Pictures!Invalidate
<1>3. kept \in Seq(Photos)
  BY QueuedFields, PicturesWithoutIs
<1> HIDE DEF kept
<1>4. Append(kept, photo) \in Seq(Photos)
  BY <1>3
<1>5. invalid \in Queues
  BY <1>4, QueuedFields DEF Queues
<1> QED  BY <1>1, <1>2, <1>5 DEF PictureTypes

LEMMA InvalidateDevelops ==
    ASSUME PictureTypes, NEW photo \in Photos, Pictures!Invalidate(photo)
    PROVE  /\ photo \in known => ToDevelop(photo)'
           /\ \A other : ToDevelop(other) => ToDevelop(other)'
           /\ \A other : other # photo => (other \in owed' <=> other \in owed)
           /\ owed' \subseteq owed
           /\ photo \notin known => owed' = owed
           /\ QueuesAreKnown => queued'.embedded \subseteq queued'.developed
<1> DEFINE kept == Pictures!Without(queued.urgent, {photo})
           invalid == [urgent |-> Append(kept, photo),
                       embedded |-> queued.embedded \ {photo},
                       developed |-> queued.developed \ {photo}]
<1>1. queued' = IF photo \in known THEN invalid ELSE queued
  BY DEF Pictures!Invalidate
<1>2. owed' = IF photo \in known THEN owed \ {photo} ELSE owed
  BY DEF Pictures!Invalidate
<1>3. kept \in Seq(Photos) /\ \A e : Has(kept, e) <=> Has(queued.urgent, e) /\ e # photo
  BY QueuedFields, PicturesWithoutIs
<1> HIDE DEF kept
<1>4. \A e : Has(Append(kept, photo), e) <=> Has(kept, e) \/ e = photo
  BY <1>3, AppendHas
<1>5. /\ invalid.urgent = Append(kept, photo)
      /\ invalid.embedded = queued.embedded \ {photo}
      /\ invalid.developed = queued.developed \ {photo}
  OBVIOUS
<1> HIDE DEF invalid
<1>6. CASE photo \in known
  BY <1>1, <1>2, <1>3, <1>4, <1>5, <1>6 DEF ToDevelop, Has, QueuesAreKnown
<1>7. CASE photo \notin known
  BY <1>1, <1>2, <1>7 DEF ToDevelop, Has, QueuesAreKnown
<1> QED  BY <1>6, <1>7

LEMMA PicturesInitHolds == Pictures!Init => PicturesInv
<1> SUFFICES ASSUME Pictures!Init
             PROVE  PicturesInv
  OBVIOUS
<1>1. /\ settings = [photo \in Photos |-> 0]
      /\ pictures = [photo \in Photos |-> None]
      /\ generation = 0 /\ known = {} /\ owed = {} /\ live = None /\ working = None
      /\ results = <<>>
      /\ queued = [urgent |-> <<>>, embedded |-> {}, developed |-> {}]
  BY DEF Pictures!Init, Pictures!NothingQueued
<1>2. PictureTypes
  BY <1>1, BoundsAssumption, EmptySeq DEF Pictures!Versions, Queues, PictureTypes
<1>3. Pictures!Listed = {}
  BY <1>1 DEF Pictures!Listed
<1>4. QueuesAreKnown
  BY <1>1, <1>3 DEF QueuesAreKnown
<1> QED  BY <1>2, <1>3, <1>4 DEF PicturesInv, PicturesArePromised

(* A picture is of no photograph, or of two settings read one after the other. *)
LEMMA ReadIsShown ==
    ASSUME NEW read \in Seq(Pictures!Versions), read = <<>> \/ Len(read) = 2
    PROVE  read \in Pictures!Shown
<1>1. CASE read = <<>>
  BY <1>1 DEF Pictures!Shown, Pictures!NoPicture
<1>2. CASE Len(read) = 2
  BY <1>2, LenProperties DEF Pictures!Shown
<1> QED  BY <1>1, <1>2

(* Every operation keeps the types. *)
LEMMA PictureTypesHold == PictureTypes /\ Pictures!Next => PictureTypes'
<1> SUFFICES ASSUME PictureTypes, Pictures!Next
             PROVE  PictureTypes'
  OBVIOUS
<1>0. /\ settings \in [Photos -> Pictures!Versions]
      /\ pictures \in [Photos -> Pictures!Shown \cup {None}]
      /\ generation \in 0 .. ListingBound
      /\ known \cup owed \subseteq Photos
      /\ live \in Photos \cup {None}
      /\ queued \in Queues
      /\ working \in Pictures!Jobs \cup {None}
      /\ working # None /\ working.kind = "embedded" => working.read = <<>>
      /\ results \in Seq(PictureResults)
  BY DEF PictureTypes
<1>fields. /\ queued.urgent \in Seq(Photos)
           /\ queued.embedded \subseteq Photos
           /\ queued.developed \subseteq Photos
  BY QueuedFields
<1>bound. ListingBound \in Nat /\ SettingsBound \in Nat
  BY BoundsAssumption
<1>1. ASSUME NEW photo \in Photos, Pictures!ChangeSettings(photo)
      PROVE  PictureTypes'
  BY <1>0, <1>bound, <1>1
     DEF Pictures!ChangeSettings, Pictures!Versions, PictureTypes, Pictures!strip
<1>2. ASSUME NEW photo \in Photos, Pictures!HearOfChange(photo)
      PROVE  PictureTypes'
  BY <1>0, <1>2, InvalidateTypes DEF Pictures!HearOfChange, PictureTypes, Pictures!strip
<1>3. ASSUME NEW photo \in Photos, Pictures!SetLiveThumbnail(photo)
      PROVE  PictureTypes'
  BY <1>0, <1>3, ShownIsListed DEF Pictures!SetLiveThumbnail, PictureTypes
<1>work. ASSUME NEW photo \in Photos, NEW kind \in {"embedded", "developed"},
                Pictures!Work(photo, kind)
         PROVE  /\ working' \in Pictures!Jobs
                /\ working'.read = <<>>
  BY <1>work, <1>0, EmptySeq DEF Pictures!Work, Pictures!NoPicture, Pictures!Jobs
<1>4. ASSUME NEW photo \in Photos, Pictures!TakeEmbedded(photo)
      PROVE  PictureTypes'
  BY <1>fields, <1>0, <1>work, <1>4
     DEF Pictures!TakeEmbedded, Queues, PictureTypes, Pictures!Work, Pictures!strip
<1>5. ASSUME NEW photo \in Photos, Pictures!TakeDeveloped(photo)
      PROVE  PictureTypes'
  BY <1>fields, <1>0, <1>work, <1>5
     DEF Pictures!TakeDeveloped, Queues, PictureTypes, Pictures!Work, Pictures!strip
<1>6. ASSUME Pictures!ListFolder
      PROVE  PictureTypes'
  BY <1>0, <1>bound, <1>6, EmptySeq
     DEF Pictures!ListFolder, Pictures!NothingQueued, Queues, PictureTypes
<1>7. ASSUME NEW some \in SUBSET Photos, Pictures!InsertRows(some)
      PROVE  PictureTypes'
  BY <1>0, <1>fields, <1>7, ShownIsListed DEF Pictures!InsertRows, Queues, PictureTypes
<1>8. ASSUME NEW some \in SUBSET Photos, NEW subfolders \in BOOLEAN,
             Pictures!RemoveRows(some, subfolders)
      PROVE  PictureTypes'
  BY <1>0, <1>fields, <1>8, PicturesWithoutIs DEF Pictures!RemoveRows, Queues, PictureTypes
<1>9. ASSUME Pictures!ReleaseLiveThumbnail
      PROVE  PictureTypes'
  BY <1>0, <1>9, InvalidateTypes DEF Pictures!ReleaseLiveThumbnail, PictureTypes
<1>10. ASSUME Pictures!TakeUrgent
       PROVE  PictureTypes'
  BY <1>fields, <1>0, <1>work, <1>10, TailHas
     DEF Pictures!TakeUrgent, Queues, PictureTypes, Pictures!Work, Pictures!strip
<1>11. ASSUME Pictures!ReadSettings
       PROVE  PictureTypes'
  <2>1. working # None /\ working \in Pictures!Jobs /\ working.kind = "developed"
    BY <1>0, <1>11 DEF Pictures!ReadSettings
  <2>2. settings[working.photo] \in Pictures!Versions /\ working.read \in Seq(Pictures!Versions)
    BY <1>0, <2>1 DEF Pictures!Jobs
  <2>3. Append(working.read, settings[working.photo]) \in Seq(Pictures!Versions)
    BY <2>2
  <2>4. working' = [working EXCEPT !.read = Append(working.read, settings[working.photo])]
    BY <1>11 DEF Pictures!ReadSettings
  <2>5. working' \in Pictures!Jobs /\ working'.kind = "developed"
    BY <2>1, <2>3, <2>4 DEF Pictures!Jobs
  <2> QED  BY <1>0, <1>11, <2>5 DEF PictureTypes, Pictures!ReadSettings, Pictures!strip
<1>12. ASSUME NEW made \in BOOLEAN, Pictures!Deliver(made)
       PROVE  PictureTypes'
  <2>1. working # None /\ working \in Pictures!Jobs
    BY <1>0, <1>12 DEF Pictures!Deliver
  <2>2. /\ working.read \in Seq(Pictures!Versions) /\ working.photo \in Photos
        /\ working.kind \in {"embedded", "developed"}
    BY <2>1 DEF Pictures!Jobs
  <2>3. working.kind = "developed" => Len(working.read) = 2
    BY <1>12 DEF Pictures!Deliver
  <2>4. working.read \in Pictures!Shown
    BY <1>0, <2>1, <2>2, <2>3, ReadIsShown
  <2> DEFINE result == [photo |-> working.photo, picture |-> working.read,
                        generation |-> generation]
  <2>5. result \in PictureResults
    BY <1>0, <1>bound, <2>2, <2>4 DEF PictureResults
  <2>6. results' = Append(results, result) \/ results' = results
    BY <1>12 DEF Pictures!Deliver
  <2> HIDE DEF result
  <2>7. results' \in Seq(PictureResults)
    BY <1>0, <2>5, <2>6
  <2> QED  BY <1>0, <1>12, <2>7 DEF PictureTypes, Pictures!Deliver, Pictures!strip
<1>13. ASSUME Pictures!ReceiveThumbnail
       PROVE  PictureTypes'
  <2>1. Head(results) \in PictureResults /\ Tail(results) \in Seq(PictureResults)
    BY <1>0, <1>13, TailHas DEF Pictures!ReceiveThumbnail
  <2>2. Head(results).picture \in Pictures!Shown /\ Head(results).photo \in Photos
    BY <2>1 DEF PictureResults
  <2>3. \/ pictures' = [pictures EXCEPT ![Head(results).photo] = Head(results).picture]
        \/ pictures' = pictures
    BY <1>13 DEF Pictures!ReceiveThumbnail
  <2>4. pictures' \in [Photos -> Pictures!Shown \cup {None}]
    BY <1>0, <2>2, <2>3
  <2>5. results' \in Seq(PictureResults)
    BY <1>13, <2>1 DEF Pictures!ReceiveThumbnail
  <2> QED  BY <1>0, <1>13, <2>4, <2>5 DEF PictureTypes, Pictures!ReceiveThumbnail
<1> QED  BY <1>1, <1>2, <1>3, <1>4, <1>5, <1>6, <1>7, <1>8, <1>9, <1>10, <1>11, <1>12, <1>13
         DEF Pictures!Next

(* What is queued to be developed stays so where only the queue grows. *)
LEMMA QueuesAreKnownHolds == PicturesInv /\ Pictures!Next => QueuesAreKnown'
<1> SUFFICES ASSUME PicturesInv, Pictures!Next
             PROVE  QueuesAreKnown'
  OBVIOUS
<1>0. /\ PictureTypes
      /\ queued.embedded \subseteq queued.developed
      /\ Pictures!Listed \subseteq known
      /\ pictures \in [Photos -> Pictures!Shown \cup {None}]
      /\ queued \in Queues
      /\ known \subseteq Photos
  BY DEF PicturesInv, QueuesAreKnown, PictureTypes
<1>same. ASSUME UNCHANGED <<pictures, known>>
         PROVE  Pictures!Listed' \subseteq known'
  BY <1>0, <1>same DEF Pictures!Listed
<1>1. ASSUME NEW photo \in Photos, Pictures!ChangeSettings(photo)
      PROVE  QueuesAreKnown'
  BY <1>0, <1>1, <1>same DEF Pictures!ChangeSettings, Pictures!strip, QueuesAreKnown
<1>2. ASSUME NEW photo \in Photos, Pictures!Invalidate(photo), UNCHANGED <<pictures, known>>
      PROVE  QueuesAreKnown'
  BY <1>0, <1>2, <1>same, InvalidateDevelops DEF QueuesAreKnown
<1>3. ASSUME NEW photo \in Photos, Pictures!HearOfChange(photo)
      PROVE  QueuesAreKnown'
  BY <1>2, <1>3 DEF Pictures!HearOfChange, Pictures!strip
<1>4. ASSUME NEW photo \in Photos, Pictures!SetLiveThumbnail(photo)
      PROVE  QueuesAreKnown'
  BY <1>0, <1>4 DEF Pictures!SetLiveThumbnail, Pictures!Listed, QueuesAreKnown
<1>5. ASSUME NEW photo \in Photos, Pictures!TakeEmbedded(photo)
      PROVE  QueuesAreKnown'
  BY <1>0, <1>same, <1>5
     DEF Pictures!TakeEmbedded, Queues, Pictures!Work, Pictures!strip, QueuesAreKnown
<1>6. ASSUME NEW photo \in Photos, Pictures!TakeDeveloped(photo)
      PROVE  QueuesAreKnown'
  BY <1>0, <1>same, <1>6
     DEF Pictures!TakeDeveloped, Queues, Pictures!Work, Pictures!strip, QueuesAreKnown
<1>7. ASSUME Pictures!ListFolder
      PROVE  QueuesAreKnown'
  BY <1>7 DEF Pictures!ListFolder, Pictures!Listed, Pictures!NothingQueued, QueuesAreKnown
<1>8. ASSUME NEW some \in SUBSET Photos, Pictures!InsertRows(some)
      PROVE  QueuesAreKnown'
  BY <1>0, <1>8 DEF Pictures!InsertRows, Queues, Pictures!Listed, QueuesAreKnown
<1>9. ASSUME NEW some \in SUBSET Photos, NEW subfolders \in BOOLEAN,
             Pictures!RemoveRows(some, subfolders)
      PROVE  QueuesAreKnown'
  BY <1>0, <1>9 DEF Pictures!RemoveRows, Pictures!Listed, QueuesAreKnown
<1>10. ASSUME Pictures!ReleaseLiveThumbnail
       PROVE  QueuesAreKnown'
  BY <1>0, <1>2, <1>10 DEF PictureTypes, Pictures!ReleaseLiveThumbnail
<1>11. ASSUME Pictures!TakeUrgent
       PROVE  QueuesAreKnown'
  BY <1>0, <1>same, <1>11
     DEF Pictures!TakeUrgent, Queues, Pictures!Work, Pictures!strip, QueuesAreKnown
<1>12. ASSUME Pictures!ReadSettings \/ \E made \in BOOLEAN : Pictures!Deliver(made)
       PROVE  QueuesAreKnown'
  BY <1>0, <1>same, <1>12
     DEF Pictures!ReadSettings, Pictures!Deliver, Pictures!strip, QueuesAreKnown
<1>13. ASSUME Pictures!ReceiveThumbnail
       PROVE  QueuesAreKnown'
  <2>1. Pictures!Listed' \subseteq Pictures!Listed
    BY <1>0, <1>13 DEF Pictures!Listed, Pictures!ReceiveThumbnail
  <2> QED  BY <1>0, <1>13, <2>1 DEF Pictures!ReceiveThumbnail, QueuesAreKnown
<1> QED  BY <1>1, <1>3, <1>4, <1>5, <1>6, <1>7, <1>8, <1>9, <1>10, <1>11, <1>12, <1>13
         DEF Pictures!Next

(* What is promised is promised still when nothing of it has changed. *)
LEMMA StillPromised ==
    ASSUME NEW photo, Promised(photo), ToDevelop(photo) => ToDevelop(photo)',
           UNCHANGED <<generation, working, results>>,
           settings'[photo] = settings[photo], pictures'[photo] = pictures[photo]
    PROVE  Promised(photo)'
<1>1. Making(photo)' <=> Making(photo)
  BY DEF Making
<1>2. OnTheWay(photo)' = OnTheWay(photo)
  BY DEF OnTheWay
<1>4. AsSaved(photo, pictures[photo])' <=> AsSaved(photo, pictures[photo])
  BY DEF AsSaved
<1>5. \A i : AsSaved(photo, results[i].picture)' <=> AsSaved(photo, results[i].picture)
  BY DEF AsSaved
<1> QED  BY <1>1, <1>2, <1>4, <1>5 DEF Promised

(* A job begun for a photograph develops it with whatever the settings are by then. *)
LEMMA WorkIsPromised ==
    ASSUME PicturesInv, NEW photo \in Photos, Pictures!Work(photo, "developed")
    PROVE  /\ Promised(photo)'
           /\ \A other : other # photo /\ Promised(other) /\ (ToDevelop(other) => ToDevelop(other)')
                 => Promised(other)'
<1>1. /\ working = None
      /\ working' = [photo |-> photo, kind |-> "developed", generation |-> generation,
                      read |-> <<>>]
      /\ UNCHANGED <<settings, pictures, generation, results>>
  BY DEF Pictures!Work, Pictures!strip, Pictures!NoPicture
<1>2. working' # None
  BY <1>1, EmptySeq, JobsAreSomething DEF PicturesInv, PictureTypes, Pictures!Jobs
<1>3. /\ working'.photo = photo /\ working'.generation = generation'
      /\ working'.kind = "developed" /\ working'.read = <<>>
  BY <1>1
<1>4. Promised(photo)'
  BY <1>2, <1>3 DEF Making, Promised
<1>5. ASSUME NEW other, other # photo, Promised(other), ToDevelop(other) => ToDevelop(other)'
      PROVE  Promised(other)'
  BY <1>1, <1>3, <1>5 DEF Making, OnTheWay, AsSaved, Promised
<1> QED  BY <1>4, <1>5

(* Settings read now are the settings that are saved. *)
LEMMA ReadSettingsKeeps ==
    ASSUME PicturesInv, NEW photo \in Photos, Promised(photo), Pictures!ReadSettings
    PROVE  Promised(photo)'
<1>1. /\ working # None /\ working \in Pictures!Jobs
      /\ working' = [working EXCEPT !.read = Append(working.read, settings[working.photo])]
      /\ UNCHANGED <<settings, pictures, generation, queued, results>>
  BY DEF Pictures!ReadSettings, Pictures!strip, PicturesInv, PictureTypes
<1>2. /\ working'.photo = working.photo /\ working'.generation = working.generation
      /\ working'.kind = working.kind
      /\ working'.read = Append(working.read, settings[working.photo])
      /\ working.read \in Seq(Pictures!Versions)
      /\ settings[working.photo] \in Pictures!Versions
  BY <1>1 DEF Pictures!Jobs, PicturesInv, PictureTypes
<1>3. working' # None
  <2>1. working' \in Pictures!Jobs
    <3>1. Append(working.read, settings[working.photo]) \in Seq(Pictures!Versions)
      BY <1>2
    <3> QED  BY <1>1, <3>1 DEF Pictures!Jobs
  <2> QED  BY <2>1, JobsAreSomething
<1>4. Making(photo)' <=> Making(photo)
  BY <1>1, <1>2, <1>3 DEF Making
<1>5. OnTheWay(photo)' = OnTheWay(photo) /\ (ToDevelop(photo)' <=> ToDevelop(photo))
  BY <1>1 DEF OnTheWay, ToDevelop, Has
<1>6. AsSaved(photo, pictures[photo])' <=> AsSaved(photo, pictures[photo])
  BY <1>1 DEF AsSaved
<1>7. \A i : AsSaved(photo, results[i].picture)' <=> AsSaved(photo, results[i].picture)
  BY <1>1 DEF AsSaved
<1>8. ASSUME Making(photo), \A i \in DOMAIN working.read : working.read[i] = settings[photo]
      PROVE  \A i \in DOMAIN working'.read : working'.read[i] = settings'[photo]
  BY <1>1, <1>2, <1>8, AppendHas DEF Making, Has
<1> QED  BY <1>2, <1>4, <1>5, <1>6, <1>7, <1>8 DEF Promised

(* What has been made of the settings that are saved comes after whatever is on its way. *)
LEMMA DeliverKeeps ==
    ASSUME PicturesInv, NEW photo \in Photos, Promised(photo),
           NEW made \in BOOLEAN, Pictures!Deliver(made)
    PROVE  Promised(photo)'
<1> DEFINE result == [photo |-> working.photo, picture |-> working.read,
                      generation |-> generation]
<1>1. /\ working # None /\ working \in Pictures!Jobs
      /\ working.kind = "developed" => Len(working.read) = 2 /\ made
      /\ results' = IF made /\ working.generation = generation
                    THEN Append(results, result) ELSE results
      /\ working' = None
      /\ UNCHANGED <<settings, pictures, generation, queued>>
  BY DEF Pictures!Deliver, Pictures!strip, PicturesInv, PictureTypes
<1>2. /\ results \in Seq(PictureResults) /\ Len(results) \in Nat
      /\ DOMAIN results = 1 .. Len(results)
  BY LenProperties DEF PicturesInv, PictureTypes
<1>3. ~Making(photo)'
  BY <1>1 DEF Making
<1>4. ToDevelop(photo)' <=> ToDevelop(photo)
  BY <1>1 DEF ToDevelop, Has
<1>5. AsSaved(photo, pictures[photo])' <=> AsSaved(photo, pictures[photo])
  BY <1>1 DEF AsSaved
<1>6. \A picture : AsSaved(photo, picture) <=> picture = <<settings[photo], settings[photo]>>
  BY DEF AsSaved
<1>7. \A i : AsSaved(photo, results[i].picture)'
                 <=> results'[i].picture = <<settings[photo], settings[photo]>>
  BY <1>1 DEF AsSaved
<1>8. OnTheWay(photo)' = {i \in DOMAIN results' : results'[i].photo = photo
                                                 /\ results'[i].generation = generation}
  BY <1>1 DEF OnTheWay
<1>9. CASE ToDevelop(photo)
  BY <1>4, <1>9 DEF Promised
<1>10. CASE Making(photo) /\ ~ToDevelop(photo)
  <2>1. /\ working.kind = "developed" /\ working.generation = generation
        /\ working.photo = photo
        /\ \A i \in DOMAIN working.read : working.read[i] = settings[photo]
    BY <1>10 DEF Promised, Making
  <2>2. results' = Append(results, result)
    BY <1>1, <2>1
  <2>3. working.read = <<settings[photo], settings[photo]>>
    BY <1>1, <2>1, LenProperties DEF Pictures!Jobs
  <2>4. /\ result.photo = photo /\ result.generation = generation
        /\ result.picture = <<settings[photo], settings[photo]>>
    BY <2>1, <2>3
  <2> HIDE DEF result
  <2>5. /\ DOMAIN results' = 1 .. Len(results) + 1
        /\ results'[Len(results) + 1] = result
    BY <1>2, <2>2
  <2>6. Len(results) + 1 \in OnTheWay(photo)'
    BY <1>2, <1>8, <2>4, <2>5
  <2>7. \A i \in OnTheWay(photo)' : i \in 1 .. Len(results) + 1
    BY <1>8, <2>5
  <2>8. ASSUME NEW i \in OnTheWay(photo)', \A j \in OnTheWay(photo)' : j <= i
        PROVE  results'[i].picture = <<settings[photo], settings[photo]>>
    BY <1>2, <2>4, <2>5, <2>6, <2>7, <2>8
  <2>9. OnTheWay(photo)' # {}
    BY <2>6
  <2> QED  BY <1>3, <1>7, <2>8, <2>9 DEF Promised
<1>11. CASE ~Making(photo) /\ ~ToDevelop(photo)
  <2>1. ASSUME results' = Append(results, result)
        PROVE  working.generation = generation /\ result.photo # photo
    <3>1. CASE working.generation = generation
      BY <1>1, <1>11, <3>1 DEF Making
    <3>2. CASE working.generation # generation
      <4>1. results' = results
        BY <1>1, <3>2
      <4>2. Len(Append(results, result)) = Len(results) + 1
        <5> HIDE DEF result
        <5> QED  BY <1>2
      <4> QED  BY <1>2, <2>1, <4>1, <4>2
    <3> QED  BY <3>1, <3>2
  <2> HIDE DEF result
  <2>2. results' = results \/ results' = Append(results, result)
    BY <1>1
  <2>3. /\ OnTheWay(photo)' = OnTheWay(photo)
        /\ \A i \in OnTheWay(photo) : results'[i] = results[i]
    BY <1>2, <1>8, <2>1, <2>2 DEF OnTheWay
  <2> QED  BY <1>3, <1>5, <1>6, <1>7, <1>11, <2>3 DEF Promised
<1> QED  BY <1>9, <1>10, <1>11

(* The strip shows what comes, but for the photograph that is open. *)
LEMMA ReceiveKeeps ==
    ASSUME PicturesInv, NEW photo \in Pictures!Listed, photo # live, Promised(photo),
           Pictures!ReceiveThumbnail
    PROVE  Promised(photo)'
<1>1. /\ results # <<>> /\ results' = Tail(results)
      /\ pictures' = IF Head(results).generation = generation /\ Head(results).photo # live
                         /\ Head(results).photo \in Pictures!Listed
                     THEN [pictures EXCEPT ![Head(results).photo] = Head(results).picture]
                     ELSE pictures
      /\ UNCHANGED <<settings, generation, queued, working>>
  BY DEF Pictures!ReceiveThumbnail
<1>2. results \in Seq(PictureResults) /\ photo \in Photos
      /\ pictures \in [Photos -> Pictures!Shown \cup {None}]
  BY DEF PicturesInv, PictureTypes, Pictures!Listed
<1>3. /\ Head(results) = results[1]
      /\ Len(results) \in Nat /\ Len(results) >= 1 /\ DOMAIN results = 1 .. Len(results)
      /\ DOMAIN results' = 1 .. Len(results) - 1
      /\ \A i \in 1 .. Len(results) - 1 : results'[i] = results[i + 1]
  BY <1>1, <1>2, TailHas
<1>4. (Making(photo)' <=> Making(photo)) /\ (ToDevelop(photo)' <=> ToDevelop(photo))
  BY <1>1 DEF Making, ToDevelop, Has
<1>5. working' = working /\ settings'[photo] = settings[photo]
  BY <1>1
<1>6. CASE ToDevelop(photo) \/ (Making(photo) /\ working.kind = "developed")
  BY <1>4, <1>5, <1>6 DEF Promised
<1> DEFINE saved == <<settings[photo], settings[photo]>>
<1>7. /\ \A i : AsSaved(photo, results[i].picture) <=> results[i].picture = saved
      /\ \A i : AsSaved(photo, results[i].picture)' <=> results'[i].picture = saved
      /\ AsSaved(photo, pictures[photo]) <=> pictures[photo] = saved
      /\ AsSaved(photo, pictures[photo])' <=> pictures'[photo] = saved
  BY <1>1 DEF AsSaved
<1> HIDE DEF saved
<1>8. \A i : i \in OnTheWay(photo) <=> /\ i \in 1 .. Len(results)
                                       /\ results[i].photo = photo
                                       /\ results[i].generation = generation
  BY <1>3 DEF OnTheWay
<1>9. \A i : i \in OnTheWay(photo)' <=> /\ i \in 1 .. Len(results) - 1
                                        /\ results'[i].photo = photo
                                        /\ results'[i].generation = generation
  BY <1>1, <1>3 DEF OnTheWay
<1>10. \A i \in 1 .. Len(results) - 1 : i \in OnTheWay(photo)' <=> i + 1 \in OnTheWay(photo)
  BY <1>3, <1>8, <1>9
<1>11. CASE ~Making(photo) /\ ~ToDevelop(photo) /\ OnTheWay(photo) = {}
  BY <1>1, <1>2, <1>3, <1>4, <1>7, <1>8, <1>9, <1>10, <1>11 DEF Promised
<1>12. CASE ~Making(photo) /\ ~ToDevelop(photo) /\ OnTheWay(photo) # {}
  <2>1. \A i \in OnTheWay(photo) :
            (\A j \in OnTheWay(photo) : j <= i) => results[i].picture = saved
    BY <1>7, <1>12 DEF Promised
  <2>2. CASE OnTheWay(photo)' # {}
    <3>1. ASSUME NEW i \in OnTheWay(photo)', \A j \in OnTheWay(photo)' : j <= i
          PROVE  results'[i].picture = saved
      <4>1. i \in 1 .. Len(results) - 1 /\ i + 1 \in OnTheWay(photo)
        BY <1>9, <1>10, <3>1
      <4>2. ASSUME NEW j \in OnTheWay(photo)
            PROVE  j <= i + 1
        <5>1. j \in 1 .. Len(results)
          BY <1>8, <4>2
        <5>2. CASE j = 1
          BY <4>1, <5>2, <1>3
        <5>3. CASE j # 1
          <6>1. j - 1 \in 1 .. Len(results) - 1 /\ (j - 1) + 1 = j
            BY <1>3, <5>1, <5>3
          <6>2. j - 1 \in OnTheWay(photo)'
            BY <1>10, <4>2, <6>1
          <6>3. j - 1 <= i
            BY <3>1, <6>2
          <6> QED  BY <1>3, <4>1, <5>1, <6>3
        <5> QED  BY <5>2, <5>3
      <4>3. results[i + 1].picture = saved
        BY <2>1, <4>1, <4>2
      <4> QED  BY <1>3, <4>1, <4>3
    <3> QED  BY <1>4, <1>7, <1>12, <2>2, <3>1 DEF Promised
  <2>3. CASE OnTheWay(photo)' = {}
    <3>1. ASSUME NEW i \in OnTheWay(photo)
          PROVE  i = 1
      <4>1. i \in 1 .. Len(results)
        BY <1>8, <3>1
      <4>2. CASE i # 1
        <5>1. i - 1 \in 1 .. Len(results) - 1 /\ (i - 1) + 1 = i
          BY <1>3, <4>1, <4>2
        <5>2. i - 1 \in OnTheWay(photo)'
          BY <1>10, <3>1, <5>1
        <5> QED  BY <2>3, <5>2
      <4> QED  BY <4>2
    <3>2. 1 \in OnTheWay(photo) /\ \A j \in OnTheWay(photo) : j <= 1
      BY <1>12, <3>1
    <3>3. results[1].picture = saved
      BY <2>1, <3>2
    <3>4. Head(results).photo = photo /\ Head(results).generation = generation
      BY <1>3, <1>8, <3>2
    <3>5. pictures' = [pictures EXCEPT ![photo] = results[1].picture]
      BY <1>1, <1>3, <3>4
    <3>6. pictures'[photo] = saved
      BY <1>2, <3>3, <3>5
    <3> QED  BY <1>4, <1>7, <1>12, <2>3, <3>6 DEF Promised
  <2> QED  BY <2>2, <2>3
<1> QED  BY <1>6, <1>11, <1>12 DEF Promised

LEMMA PicturesArePromisedHolds == PicturesInv /\ Pictures!Next => PicturesArePromised'
<1> SUFFICES ASSUME PicturesInv, Pictures!Next,
                    NEW each \in Pictures!Listed', each \notin owed', each # live'
             PROVE  Promised(each)'
  BY DEF PicturesArePromised
<1>0. /\ PictureTypes
      /\ pictures \in [Photos -> Pictures!Shown \cup {None}]
      /\ queued \in Queues
      /\ known \subseteq Photos /\ live \in Photos \cup {None}
      /\ settings \in [Photos -> Pictures!Versions]
      /\ queued.embedded \subseteq queued.developed
      /\ Pictures!Listed \subseteq known
      /\ each \in Photos
  BY DEF PicturesInv, QueuesAreKnown, PictureTypes, Pictures!Listed
<1>promised. each \in Pictures!Listed /\ each \notin owed /\ each # live => Promised(each)
  BY DEF PicturesInv, PicturesArePromised
<1>1. ASSUME NEW photo \in Photos, Pictures!ChangeSettings(photo)
      PROVE  Promised(each)'
  BY <1>0, <1>promised, <1>1, StillPromised
     DEF Pictures!ChangeSettings, Pictures!strip, Pictures!Listed, ToDevelop, Has
<1>2. ASSUME NEW photo \in Photos, Pictures!Invalidate(photo),
             UNCHANGED <<settings, pictures, generation, known, working, results>>,
             photo \notin owed => photo = live /\ live' = None,
             photo # live => live' = live
      PROVE  Promised(each)'
  BY <1>0, <1>promised, <1>2, InvalidateDevelops, StillPromised DEF Pictures!Listed, Promised
<1>3. ASSUME NEW photo \in Photos, Pictures!HearOfChange(photo)
      PROVE  Promised(each)'
  BY <1>2, <1>3 DEF Pictures!HearOfChange, Pictures!strip
<1>4. ASSUME NEW photo \in Photos, Pictures!SetLiveThumbnail(photo)
      PROVE  Promised(each)'
  BY <1>0, <1>promised, <1>4, BoundsAssumption, StillPromised
     DEF Pictures!SetLiveThumbnail, Pictures!NoPicture, Pictures!Listed, ToDevelop, Has
<1>work. ASSUME UNCHANGED <<pictures, live, owed>>
         PROVE  Promised(each)
  BY <1>promised, <1>work DEF Pictures!Listed
<1>5. ASSUME NEW photo \in Photos, Pictures!TakeEmbedded(photo)
      PROVE  Promised(each)'
  BY <1>0, <1>work, <1>5
     DEF Pictures!TakeEmbedded, Pictures!Work, Pictures!strip, Pictures!NoPicture, Queues,
         ToDevelop, Has, Promised, Making, OnTheWay, AsSaved
<1>6. ASSUME NEW photo \in Photos, Pictures!TakeDeveloped(photo)
      PROVE  Promised(each)'
  BY <1>0, <1>work, <1>6, WorkIsPromised
     DEF Pictures!TakeDeveloped, Pictures!Work, Pictures!strip, Queues, ToDevelop, Has
<1>7. ASSUME Pictures!TakeUrgent
      PROVE  Promised(each)'
  <2> DEFINE photo == Head(queued.urgent)
  <2>1. /\ Pictures!Work(photo, "developed") /\ queued.urgent # <<>>
        /\ UNCHANGED <<pictures, live, owed>>
        /\ queued' = [queued EXCEPT !.urgent = Tail(queued.urgent)]
    BY <1>7 DEF Pictures!TakeUrgent, Pictures!Work, Pictures!strip
  <2>2. queued'.urgent = Tail(queued.urgent) /\ queued'.developed = queued.developed
    BY <1>0, <2>1 DEF Queues
  <2>3. /\ photo \in Photos
        /\ \A e : Has(queued.urgent, e) <=> e = photo \/ Has(Tail(queued.urgent), e)
    BY <1>0, <2>1, QueuedFields, TailHas
  <2> HIDE DEF photo
  <2>4. each # photo => (ToDevelop(each) => ToDevelop(each)')
    BY <2>2, <2>3 DEF ToDevelop, Has
  <2>5. Promised(each)
    BY <1>work, <2>1
  <2> QED  BY <2>1, <2>3, <2>4, <2>5, WorkIsPromised
<1>8. ASSUME Pictures!ListFolder
      PROVE  Promised(each)'
  BY <1>0, <1>8 DEF Pictures!ListFolder, Pictures!Listed
<1>9. ASSUME NEW some \in SUBSET Photos, Pictures!InsertRows(some)
      PROVE  Promised(each)'
  BY <1>0, <1>promised, <1>9, StillPromised
     DEF Pictures!InsertRows, Pictures!NoPicture, Queues, ToDevelop, Has, Promised, Pictures!Listed
<1>10. ASSUME NEW some \in SUBSET Photos, NEW subfolders \in BOOLEAN,
              Pictures!RemoveRows(some, subfolders)
       PROVE  Promised(each)'
  <2>1. /\ pictures' = [photo \in Photos |-> IF photo \in some THEN None ELSE pictures[photo]]
        /\ UNCHANGED <<settings, generation, working, results, live, owed>>
    BY <1>10 DEF Pictures!RemoveRows
  <2>2. each \notin some /\ pictures'[each] = pictures[each]
    BY <1>0, <2>1 DEF Pictures!Listed
  <2>3. each \in Pictures!Listed /\ each \notin owed /\ each # live
    BY <2>1, <2>2 DEF Pictures!Listed
  <2>4. ToDevelop(each) => ToDevelop(each)'
    BY <1>0, <1>10, <2>2, QueuedFields, PicturesWithoutIs DEF ToDevelop, Has, Pictures!RemoveRows
  <2>5. settings'[each] = settings[each]
    BY <2>1
  <2> QED  BY <1>promised, <2>1, <2>2, <2>3, <2>4, <2>5, StillPromised
<1>11. ASSUME Pictures!ReleaseLiveThumbnail
       PROVE  Promised(each)'
  BY <1>0, <1>2, <1>11 DEF Pictures!ReleaseLiveThumbnail
<1>12. ASSUME Pictures!ReadSettings
       PROVE  Promised(each)'
  BY <1>0, <1>work, <1>12, ReadSettingsKeeps DEF Pictures!ReadSettings, Pictures!strip
<1>13. ASSUME NEW made \in BOOLEAN, Pictures!Deliver(made)
       PROVE  Promised(each)'
  BY <1>0, <1>work, <1>13, DeliverKeeps DEF Pictures!Deliver, Pictures!strip
<1>14. ASSUME Pictures!ReceiveThumbnail
       PROVE  Promised(each)'
  BY <1>0, <1>promised, <1>14, ReceiveKeeps DEF Pictures!ReceiveThumbnail, Pictures!Listed
<1> QED  BY <1>1, <1>3, <1>4, <1>5, <1>6, <1>7, <1>8, <1>9, <1>10, <1>11, <1>12, <1>13, <1>14
         DEF Pictures!Next

(* In the parts of the run that are not about pictures there are none. *)
NoPictures == Pictures!Listed = {}

LEMMA PicturesStep ==
    ASSUME part = "pictures" => PicturesInv, part # "pictures" => NoPictures, [MCNext]_MCvars
    PROVE  /\ (part = "pictures" => PicturesInv)'
           /\ (part # "pictures" => NoPictures)'
<1>1. CASE InPictures
  BY <1>1, PictureTypesHold, QueuesAreKnownHolds, PicturesArePromisedHolds
     DEF InPictures, PicturesInv
<1>2. CASE InChanges \/ InWalks \/ InMarks
  BY <1>2 DEF InChanges, InWalks, InMarks, InFolder, pictureVars, NoPictures, Pictures!Listed
<1>3. CASE UNCHANGED MCvars
  <2>1. UNCHANGED <<part, settings, pictures, generation, known, queued, working, live, owed,
                    results>>
    BY <1>3 DEF MCvars, pictureVars
  <2>2. Pictures!Listed' = Pictures!Listed
    BY <2>1 DEF Pictures!Listed
  <2>3. PictureTypes' <=> PictureTypes
    BY <2>1 DEF PictureTypes
  <2>4. QueuesAreKnown' <=> QueuesAreKnown
    BY <2>1, <2>2 DEF QueuesAreKnown
  <2>5. PicturesArePromised => PicturesArePromised'
    BY <2>1, <2>2, StillPromised DEF PicturesArePromised, ToDevelop, Has
  <2> QED  BY <2>1, <2>2, <2>3, <2>4, <2>5 DEF PicturesInv, NoPictures
<1> QED  BY <1>1, <1>2, <1>3 DEF MCNext

(* When the worker has nothing left to do, every row shows the picture developed with the settings
   that are saved (ThumbnailWorker, FilmStrip), for any photographs, changes and listings. *)
THEOREM PicturesOfWhatIsSaved == MCSpec => []PicturesAgree
<1> DEFINE Good == /\ part = "pictures" => PicturesInv
                   /\ part # "pictures" => NoPictures
<1>1. MCInit => Good
  BY PicturesInitHolds DEF MCInit, Pictures!Init, NoPictures, Pictures!Listed
<1>2. Good /\ [MCNext]_MCvars => Good'
  BY PicturesStep
<1>3. Good => PicturesAgree
  BY NoneHas
     DEF PicturesAgree, Pictures!PicturesAgree, PicturesInv, PicturesArePromised, NoPictures,
         ToDevelop, Pictures!NothingQueued, Making, OnTheWay, Promised, AsSaved
<1> QED  BY <1>1, <1>2, <1>3, PTL DEF MCSpec

-----------------------------------------------------------------------------
(* What comes last in a sequence, what comes after what, and how often. *)

LastOf(s, E, e) ==
    \E i \in DOMAIN s : s[i] = e /\ e \in E /\ \A j \in DOMAIN s : i < j => s[j] \notin E

Lacks(s, E) == \A i \in DOMAIN s : s[i] \notin E

Before(s, e, f) == \E i, j \in DOMAIN s : i < j /\ s[i] = e /\ s[j] = f

Count(s, E) == Cardinality({i \in DOMAIN s : s[i] \in E})

LEMMA LacksHas ==
    ASSUME NEW T, NEW s \in Seq(T), NEW E
    PROVE  /\ Lacks(s, E) <=> \A e \in E : ~Has(s, e)
           /\ \A e : LastOf(s, E, e) => Has(s, e) /\ e \in E /\ ~Lacks(s, E)
BY DEF Lacks, Has, LastOf

LEMMA AppendOrder ==
    ASSUME NEW T, NEW s \in Seq(T), NEW new \in T
    PROVE  /\ \A E : Lacks(Append(s, new), E) <=> Lacks(s, E) /\ new \notin E
           /\ \A E, e : LastOf(Append(s, new), E, e)
                            => IF new \in E THEN e = new ELSE LastOf(s, E, e)
           /\ \A e, f : Before(Append(s, new), e, f) => Before(s, e, f) \/ (Has(s, e) /\ f = new)
<1> DEFINE n == Len(s)
           longer == Append(s, new)
<1>1. /\ n \in Nat /\ DOMAIN s = 1 .. n
      /\ DOMAIN longer = 1 .. n + 1
      /\ \A i \in 1 .. n : longer[i] = s[i]
      /\ longer[n + 1] = new
  BY LenProperties
<1> HIDE DEF n, longer
<1>2. /\ \A i \in 1 .. n : i \in 1 .. n + 1 /\ i < n + 1
      /\ \A i \in 1 .. n + 1 : i \in 1 .. n \/ i = n + 1
      /\ n + 1 \in 1 .. n + 1
      /\ \A i, j \in 1 .. n + 1 : i < j => i \in 1 .. n
  BY <1>1
<1>3. \A E : Lacks(longer, E) <=> Lacks(s, E) /\ new \notin E
  BY <1>1, <1>2 DEF Lacks
<1>4. ASSUME NEW E, NEW e, LastOf(longer, E, e)
      PROVE  IF new \in E THEN e = new ELSE LastOf(s, E, e)
  <2>1. PICK i \in DOMAIN longer :
               longer[i] = e /\ e \in E /\ \A j \in DOMAIN longer : i < j => longer[j] \notin E
    BY <1>4 DEF LastOf
  <2>2. CASE i = n + 1
    BY <1>1, <2>1, <2>2
  <2>3. CASE i \in 1 .. n
    BY <1>1, <1>2, <2>1, <2>3 DEF LastOf
  <2> QED  BY <1>1, <1>2, <2>1, <2>2, <2>3
<1>5. ASSUME NEW e, NEW f, Before(longer, e, f)
      PROVE  Before(s, e, f) \/ (Has(s, e) /\ f = new)
  <2>1. PICK i, j \in DOMAIN longer : i < j /\ longer[i] = e /\ longer[j] = f
    BY <1>5 DEF Before
  <2>2. i \in 1 .. n
    BY <1>1, <1>2, <2>1
  <2>3. CASE j = n + 1
    BY <1>1, <2>1, <2>2, <2>3 DEF Has
  <2>4. CASE j \in 1 .. n
    BY <1>1, <2>1, <2>2, <2>4 DEF Before
  <2> QED  BY <1>1, <1>2, <2>1, <2>3, <2>4
<1> QED  BY <1>3, <1>4, <1>5 DEF longer

LEMMA TailOrder ==
    ASSUME NEW T, NEW s \in Seq(T), s # <<>>
    PROVE  /\ \A E : Lacks(s, E) <=> Head(s) \notin E /\ Lacks(Tail(s), E)
           /\ \A E, e : LastOf(Tail(s), E, e) => LastOf(s, E, e)
           /\ \A E : Head(s) \in E /\ Lacks(Tail(s), E) => LastOf(s, E, Head(s))
           /\ \A e, f : Before(Tail(s), e, f) => Before(s, e, f)
           /\ \A f : Has(Tail(s), f) => Before(s, Head(s), f)
<1> DEFINE n == Len(s)
           t == Tail(s)
           first == Head(s)
<1>1. /\ n \in Nat /\ n >= 1 /\ DOMAIN s = 1 .. n /\ first = s[1]
      /\ DOMAIN t = 1 .. n - 1
      /\ \A i \in 1 .. n - 1 : t[i] = s[i + 1]
  BY TailHas
<1> HIDE DEF n, t, first
<1>2. /\ \A i \in 1 .. n - 1 : i + 1 \in 1 .. n /\ 1 < i + 1
      /\ \A i \in 1 .. n : i = 1 \/ (i - 1 \in 1 .. n - 1 /\ (i - 1) + 1 = i)
      /\ 1 \in 1 .. n
      /\ \A i, j \in 1 .. n - 1 : i < j <=> i + 1 < j + 1
      /\ \A i \in 1 .. n - 1 : \A j \in 1 .. n : i + 1 < j => j # 1 /\ i < j - 1
  BY <1>1
<1>0. \A i \in 1 .. n : i # 1 => t[i - 1] = s[i]
  BY <1>1, <1>2
<1>3. \A E : Lacks(s, E) <=> first \notin E /\ Lacks(t, E)
  BY <1>1, <1>2, <1>0 DEF Lacks
<1>4. ASSUME NEW E, NEW e, LastOf(t, E, e)
      PROVE  LastOf(s, E, e)
  <2>1. PICK i \in 1 .. n - 1 :
               t[i] = e /\ e \in E /\ \A j \in 1 .. n - 1 : i < j => t[j] \notin E
    BY <1>1, <1>4 DEF LastOf
  <2>2. s[i + 1] = e
    BY <1>1, <2>1
  <2>3. \A j \in 1 .. n : i + 1 < j => s[j] \notin E
    BY <1>0, <1>2, <2>1
  <2> QED  BY <1>1, <1>2, <2>1, <2>2, <2>3 DEF LastOf
<1>5. ASSUME NEW E, first \in E, Lacks(t, E)
      PROVE  LastOf(s, E, first)
  <2>1. \A j \in 1 .. n : 1 < j => s[j] \notin E
    BY <1>0, <1>1, <1>5 DEF Lacks
  <2> QED  BY <1>1, <1>2, <1>5, <2>1 DEF LastOf
<1>6. ASSUME NEW e, NEW f, Before(t, e, f)
      PROVE  Before(s, e, f)
  <2>1. PICK i, j \in 1 .. n - 1 : i < j /\ t[i] = e /\ t[j] = f
    BY <1>1, <1>6 DEF Before
  <2>2. i + 1 \in DOMAIN s /\ j + 1 \in DOMAIN s /\ i + 1 < j + 1 /\ s[i + 1] = e /\ s[j + 1] = f
    BY <1>1, <1>2, <2>1
  <2> QED  BY <2>2 DEF Before
<1>7. ASSUME NEW f, Has(t, f)
      PROVE  Before(s, first, f)
  <2>1. PICK i \in 1 .. n - 1 : t[i] = f
    BY <1>1, <1>7 DEF Has
  <2>2. 1 \in DOMAIN s /\ i + 1 \in DOMAIN s /\ 1 < i + 1 /\ s[1] = first /\ s[i + 1] = f
    BY <1>1, <1>2, <2>1
  <2> QED  BY <2>2 DEF Before
<1> QED  BY <1>3, <1>4, <1>5, <1>6, <1>7 DEF t, first

LEMMA ConcatOrder ==
    ASSUME NEW T, NEW s \in Seq(T), NEW t \in Seq(T)
    PROVE  /\ s \o t \in Seq(T)
           /\ \A e : Has(s \o t, e) <=> Has(s, e) \/ Has(t, e)
           /\ \A E : Lacks(s \o t, E) <=> Lacks(s, E) /\ Lacks(t, E)
           /\ \A E, e : LastOf(s \o t, E, e)
                            => LastOf(t, E, e) \/ (Lacks(t, E) /\ LastOf(s, E, e))
<1> DEFINE n == Len(s)
           m == Len(t)
           both == s \o t
<1>1. /\ both \in Seq(T)
      /\ Len(both) = n + m
      /\ \A i \in 1 .. n + m : both[i] = IF i <= n THEN s[i] ELSE t[i - n]
  BY ConcatProperties
<1>2. /\ n \in Nat /\ m \in Nat
      /\ DOMAIN s = 1 .. n /\ DOMAIN t = 1 .. m /\ DOMAIN both = 1 .. n + m
  BY <1>1, LenProperties
<1> HIDE DEF n, m, both
<1>3. /\ \A i \in 1 .. n : i \in 1 .. n + m /\ both[i] = s[i]
      /\ \A i \in 1 .. m : n + i \in 1 .. n + m /\ both[n + i] = t[i]
  BY <1>1, <1>2
<1>4. \A i \in 1 .. n + m : i \in 1 .. n \/ \E j \in 1 .. m : i = n + j
  BY <1>2
<1>5. \A e : Has(both, e) <=> Has(s, e) \/ Has(t, e)
  <2>1. \A i \in 1 .. n : i \in DOMAIN s /\ i \in DOMAIN both /\ both[i] = s[i]
    BY <1>2, <1>3
  <2>2. \A i \in 1 .. m : i \in DOMAIN t /\ n + i \in DOMAIN both /\ both[n + i] = t[i]
    BY <1>2, <1>3
  <2>3. ASSUME NEW e, NEW i \in DOMAIN both, both[i] = e
        PROVE  Has(s, e) \/ Has(t, e)
    <3>1. CASE i \in 1 .. n
      BY <2>1, <2>3, <3>1 DEF Has
    <3>2. CASE \E j \in 1 .. m : i = n + j
      <4>1. PICK j \in 1 .. m : i = n + j
        BY <3>2
      <4>2. t[j] = both[i]
        BY <2>2, <4>1
      <4>3. t[j] = e
        BY <2>3, <4>2
      <4> QED  BY <2>2, <4>1, <4>3 DEF Has
    <3> QED  BY <1>2, <1>4, <3>1, <3>2
  <2>4. \A e : Has(s, e) => Has(both, e)
    BY <1>2, <2>1 DEF Has
  <2>5. \A e : Has(t, e) => Has(both, e)
    BY <1>2, <2>2 DEF Has
  <2>6. \A e : Has(both, e) => Has(s, e) \/ Has(t, e)
    BY <2>3 DEF Has
  <2> QED  BY <2>4, <2>5, <2>6
<1>6. \A E : Lacks(both, E) <=> Lacks(s, E) /\ Lacks(t, E)
  <2> SUFFICES ASSUME NEW E
               PROVE  Lacks(both, E) <=> Lacks(s, E) /\ Lacks(t, E)
    OBVIOUS
  <2>1. Lacks(both, E) => Lacks(s, E)
    BY <1>2, <1>3 DEF Lacks
  <2>2. Lacks(both, E) => Lacks(t, E)
    BY <1>2, <1>3 DEF Lacks
  <2>3. Lacks(s, E) /\ Lacks(t, E) => Lacks(both, E)
    BY <1>2, <1>3, <1>4 DEF Lacks
  <2> QED  BY <2>1, <2>2, <2>3
<1>7. ASSUME NEW E, NEW e, LastOf(both, E, e)
      PROVE  LastOf(t, E, e) \/ (Lacks(t, E) /\ LastOf(s, E, e))
  <2>1. PICK i \in 1 .. n + m :
               both[i] = e /\ e \in E /\ \A j \in 1 .. n + m : i < j => both[j] \notin E
    BY <1>2, <1>7 DEF LastOf
  <2>2. CASE i \in 1 .. n
    <3>1. Lacks(t, E)
      BY <1>2, <1>3, <2>1, <2>2 DEF Lacks
    <3>2. LastOf(s, E, e)
      BY <1>2, <1>3, <2>1, <2>2 DEF LastOf
    <3> QED  BY <3>1, <3>2
  <2>3. CASE \E j \in 1 .. m : i = n + j
    <3>1. PICK j \in 1 .. m : i = n + j
      BY <2>3
    <3>2. \A k \in 1 .. m : j < k => t[k] \notin E
      BY <1>2, <1>3, <2>1, <3>1
    <3>3. t[j] = both[i]
      BY <1>3, <3>1
    <3>4. t[j] = e
      BY <2>1, <3>3
    <3>5. LastOf(t, E, e)
      BY <1>2, <2>1, <3>2, <3>4 DEF LastOf
    <3> QED  BY <3>5
  <2> QED  BY <1>4, <2>2, <2>3
<1> QED  BY <1>1, <1>5, <1>6, <1>7 DEF both

(* A part that has all of some elements has their last last. *)
LEMMA SubsequenceOrder ==
    ASSUME NEW T, NEW s \in Seq(T), NEW P \in SUBSET DOMAIN s
    PROVE  /\ \A e : Has(Subsequence(s, P), e) => Has(s, e)
           /\ \A E : (\A i \in DOMAIN s : s[i] \in E => i \in P)
                        => /\ Lacks(Subsequence(s, P), E) => Lacks(s, E)
                           /\ \A e : LastOf(Subsequence(s, P), E, e) => LastOf(s, E, e)
<1> DEFINE kept == Subsequence(s, P)
<1>1. /\ kept \in Seq(T)
      /\ \A k \in DOMAIN kept : Nth(P, k) \in P /\ kept[k] = s[Nth(P, k)]
      /\ \A k, l \in DOMAIN kept : k < l => Nth(P, k) < Nth(P, l)
      /\ \A i \in P : \E k \in DOMAIN kept : Nth(P, k) = i
  BY SubsequenceIs
<1>2. \A i \in P : i \in DOMAIN s /\ i \in Int
  BY LenProperties
<1>3. \A k \in DOMAIN kept : k \in Int
  BY <1>1, LenProperties
<1> HIDE DEF kept
<1>4. \A e : Has(kept, e) => Has(s, e)
  BY <1>1, <1>2 DEF Has
<1>5. ASSUME NEW E, \A i \in DOMAIN s : s[i] \in E => i \in P
      PROVE  /\ Lacks(kept, E) => Lacks(s, E)
             /\ \A e : LastOf(kept, E, e) => LastOf(s, E, e)
  <2>1. Lacks(kept, E) => Lacks(s, E)
    BY <1>1, <1>5 DEF Lacks
  <2>2. ASSUME NEW e, LastOf(kept, E, e)
        PROVE  LastOf(s, E, e)
    <3>1. PICK k \in DOMAIN kept :
                 kept[k] = e /\ e \in E /\ \A l \in DOMAIN kept : k < l => kept[l] \notin E
      BY <2>2 DEF LastOf
    <3> DEFINE i == Nth(P, k)
    <3>2. i \in P /\ i \in DOMAIN s /\ s[i] = e
      BY <1>1, <1>2, <3>1
    <3> HIDE DEF i
    <3>3. ASSUME NEW j \in DOMAIN s, i < j, s[j] \in E
          PROVE  FALSE
      <4>1. j \in P
        BY <1>5, <3>3
      <4>2. PICK l \in DOMAIN kept : Nth(P, l) = j
        BY <1>1, <4>1
      <4>3. kept[l] \in E
        BY <1>1, <3>3, <4>2
      <4>4. ~(k < l)
        BY <3>1, <4>3
      <4>5. l < k \/ l = k
        BY <1>3, <4>4
      <4>6. j < i \/ j = i
        BY <1>1, <4>2, <4>5 DEF i
      <4> QED  BY <1>2, <3>2, <3>3, <4>1, <4>6
    <3> QED  BY <3>1, <3>2, <3>3 DEF LastOf
  <2> QED  BY <2>1, <2>2
<1> QED  BY <1>4, <1>5 DEF kept

LEMMA CountIs ==
    ASSUME NEW T, NEW s \in Seq(T), NEW E
    PROVE  /\ Count(s, E) \in Nat
           /\ Lacks(s, E) => Count(s, E) = 0
           /\ s = <<>> => Count(s, E) = 0
           /\ \A new \in T : Count(Append(s, new), E)
                                = Count(s, E) + (IF new \in E THEN 1 ELSE 0)
<1> DEFINE C(r) == {i \in DOMAIN r : r[i] \in E}
           n == Len(s)
<1>0. \A r : Count(r, E) = Cardinality(C(r))
  BY DEF Count
<1>1. n \in Nat /\ DOMAIN s = 1 .. n
  BY LenProperties
<1>2. IsFiniteSet(C(s)) /\ Cardinality(C(s)) \in Nat
  <2>1. IsFiniteSet(1 .. n)
    BY <1>1, FS_Interval
  <2>2. C(s) \in SUBSET (1 .. n)
    BY <1>1
  <2> HIDE DEF C
  <2>3. IsFiniteSet(C(s))
    BY <2>1, <2>2, FS_Subset
  <2> QED  BY <2>3, FS_CardinalityType
<1>3. Lacks(s, E) \/ s = <<>> => C(s) = {}
  BY DEF Lacks
<1>4. Cardinality({}) = 0
  BY FS_EmptySet
<1>5. ASSUME NEW new \in T
      PROVE  Cardinality(C(Append(s, new))) = Cardinality(C(s)) + (IF new \in E THEN 1 ELSE 0)
  <2>1. /\ DOMAIN Append(s, new) = 1 .. n + 1
        /\ \A i \in 1 .. n : Append(s, new)[i] = s[i]
        /\ Append(s, new)[n + 1] = new
    OBVIOUS
  <2>2. \A i : i \in 1 .. n + 1 <=> i \in 1 .. n \/ i = n + 1
    BY <1>1
  <2>3. n + 1 \notin C(s)
    BY <1>1
  <2>4. C(Append(s, new)) = IF new \in E THEN C(s) \cup {n + 1} ELSE C(s)
    BY <1>1, <2>1, <2>2
  <2> HIDE DEF C
  <2>5. Cardinality(C(s) \cup {n + 1}) = Cardinality(C(s)) + 1
    BY <1>2, <2>3, FS_AddElement
  <2> QED  BY <1>2, <2>4, <2>5
<1> QED  BY <1>0, <1>2, <1>3, <1>4, <1>5

LEMMA CountTail ==
    ASSUME NEW T, NEW s \in Seq(T), NEW E, s # <<>>
    PROVE  Count(s, E) = Count(Tail(s), E) + (IF Head(s) \in E THEN 1 ELSE 0)
<1> DEFINE n == Len(s)
           t == Tail(s)
           C == {i \in DOMAIN s : s[i] \in E}
           D == {i \in DOMAIN t : t[i] \in E}
           moved == {i \in C : i # 1}
           f == [i \in D |-> i + 1]
<1>1. /\ n \in Nat /\ n >= 1 /\ DOMAIN s = 1 .. n /\ Head(s) = s[1] /\ t \in Seq(T)
      /\ DOMAIN t = 1 .. n - 1
      /\ \A i \in 1 .. n - 1 : t[i] = s[i + 1]
  BY TailHas
<1>2. IsFiniteSet(C) /\ IsFiniteSet(D) /\ IsFiniteSet(moved)
  <2>1. IsFiniteSet(1 .. n) /\ IsFiniteSet(1 .. n - 1)
    BY <1>1, FS_Interval
  <2>2. C \in SUBSET (1 .. n) /\ D \in SUBSET (1 .. n - 1) /\ moved \in SUBSET C
    BY <1>1
  <2> HIDE DEF C, D, moved
  <2> QED  BY <2>1, <2>2, FS_Subset
<1>3. Cardinality(D) = Cardinality(moved)
  <2>1. \A i \in D : i \in Int /\ i + 1 \in moved
    BY <1>1
  <2>2. \A i \in moved : i - 1 \in D /\ (i - 1) + 1 = i
    BY <1>1
  <2> HIDE DEF D, moved
  <2>3. f \in [D -> moved]
    BY <2>1
  <2>4. \A i, j \in D : f[i] = f[j] => i = j
    BY <2>1
  <2>5. \A i \in moved : \E j \in D : f[j] = i
    BY <2>2
  <2>6. f \in Bijection(D, moved)
    <3> HIDE DEF f
    <3>1. DOMAIN f = D
      BY <2>3
    <3> QED  BY <2>3, <2>4, <2>5, <3>1 DEF Bijection, Injection, Surjection, IsInjective
  <2>7. ExistsBijection(D, moved)
    BY <2>6 DEF ExistsBijection
  <2> QED  BY <1>2, <2>7, FS_Bijection
<1>4. C = IF Head(s) \in E THEN moved \cup {1} ELSE moved
  BY <1>1
<1>5. Cardinality(moved \cup {1}) = Cardinality(moved) + 1
  <2>1. 1 \notin moved
    OBVIOUS
  <2> HIDE DEF moved
  <2> QED  BY <1>2, <2>1, FS_AddElement
<1>6. Cardinality(D) \in Nat
  BY <1>2, FS_CardinalityType
<1>7. Count(s, E) = Cardinality(C) /\ Count(t, E) = Cardinality(D)
  BY DEF Count
<1> HIDE DEF C, D, moved
<1> QED  BY <1>3, <1>4, <1>5, <1>6, <1>7

-----------------------------------------------------------------------------
(* The marks. *)

MarkResults ==
    [kind : {"recheck", "marks"}, listing : 0 .. ListingBound, photo : Photos,
     stamp : Reads!Versions, marks : Reads!Versions \cup {None}]

MarkTypes ==
    /\ sidecar \in [Photos -> [stamp : Reads!Versions, marks : Reads!Versions]]
    /\ writes \in Reads!Versions
    /\ row \in [Photos -> Reads!Rows \cup {None}]
    /\ listing \in 0 .. ListingBound
    /\ jobs \in Seq(Reads!Readings)
    /\ loading \in Reads!Loads \cup {None}
    /\ results \in Seq(MarkResults)
    /\ ownStamps \in [Photos -> Seq(Reads!Versions)]
    /\ saving \in Reads!Saves \cup {None}

(* What is still to be read, and what has been. *)
JobsOf(photo) == {job \in Reads!Readings : job.photo = photo}

ResultsOf(photo) == {result \in MarkResults : result.photo = photo /\ result.listing = listing}

OfThisListing == {result \in MarkResults : result.listing = listing}

Loading == loading # None /\ loading.job.listing = listing

Reading(photo) == Loading /\ loading.job.photo = photo

(* A result is owed of each reading queued, under way or posted, of what is listed now. *)
PendingIsRight ==
    /\ \A job : Has(jobs, job) => job.listing = listing
    /\ loading # None => loading.job.listing <= listing
    /\ \A result : Has(results, result) => result.listing <= listing
    /\ pending = Len(jobs) + (IF Loading THEN 1 ELSE 0) + Count(results, OfThisListing)

StampsArePast ==
    /\ \A photo \in Photos :
        /\ sidecar[photo].stamp <= writes /\ sidecar[photo].marks <= writes
        /\ row[photo] # None =>
               /\ row[photo].stamp <= writes
               /\ (row[photo].byHand => row[photo].marks <= writes)
        /\ \A stamp : Has(ownStamps[photo], stamp) => stamp <= writes
    /\ loading # None => loading.seen <= writes
    /\ \A job : Has(jobs, job) => job.stamp <= writes
    /\ loading # None => loading.job.stamp <= writes
    /\ \A result : Has(results, result) => result.stamp <= writes
    /\ saving # None => saving.marks = None \/ saving.marks <= writes

(* What was seen of a sidecar that has not changed since. *)
IsLatest(photo, stamp) == stamp = sidecar[photo].stamp /\ stamp # 0

SeenByLoader(photo) ==
    loading # None /\ loading.job.photo = photo => loading.seen = sidecar[photo].stamp

(* After the latest was seen of a sidecar, nothing earlier comes. *)
SeenInOrder(photo) ==
    /\ row[photo] # None /\ IsLatest(photo, row[photo].stamp) =>
        /\ \A result : Has(results, result) /\ result.photo = photo =>
               result.stamp = sidecar[photo].stamp
        /\ SeenByLoader(photo)
    /\ \A result : Has(results, result) /\ result.photo = photo /\ IsLatest(photo, result.stamp) =>
        /\ SeenByLoader(photo)
        /\ \A later : Before(results, result, later) /\ later.photo = photo =>
               later.stamp = sidecar[photo].stamp

(* Who has seen the latest has read it: a result has the marks of the sidecar... *)
ResultsAreRead(photo) ==
    \A result : Has(results, result) /\ result.photo = photo =>
        /\ result.kind = "marks" => result.marks # None
        /\ result.marks # None /\ IsLatest(photo, result.stamp) =>
               result.marks = sidecar[photo].marks

(* ... and a row, but for marks that lost to those set by hand. *)
RowIsRead(photo) ==
    row[photo] # None =>
        /\ row[photo].byHand \/ row[photo].stamp # 0 => row[photo].loaded
        /\ IsLatest(photo, row[photo].stamp) =>
            /\ row[photo].marks = sidecar[photo].marks \/ photo \in ignored
            /\ photo \notin untold

(* What a sidecar has is not older than some marks. *)
NotBefore(photo, marks) ==
    sidecar[photo].stamp # 0 =>
        /\ marks <= sidecar[photo].stamp
        /\ marks = sidecar[photo].stamp => marks = sidecar[photo].marks

ByHandIsLast(photo) ==
    row[photo] # None /\ row[photo].byHand => NotBefore(photo, row[photo].marks)

SavedIsNew ==
    saving # None =>
        /\ saving.photo \in unread
        /\ row[saving.photo] # None => ~IsLatest(saving.photo, row[saving.photo].stamp)
        /\ saving.marks # None =>
               row[saving.photo] # None /\ NotBefore(saving.photo, saving.marks)

OwnAreTold(photo) ==
    \A stamp : Has(ownStamps[photo], stamp) /\ IsLatest(photo, stamp) => photo \notin untold

(* A second look that finds nothing new finds what the row shows. *)
Finds(photo, kind, stamp) ==
    kind = "recheck" =>
        row[photo].loaded /\ (IsLatest(photo, stamp) => row[photo].stamp = stamp)

(* The last reading of a row sees the sidecar as it is: it is queued, under way, posted or done. *)
ToBeRead(photo) ==
    \A job : LastOf(jobs, JobsOf(photo), job) => Finds(photo, job.kind, job.stamp)

BeingRead(photo) ==
    Lacks(jobs, JobsOf(photo)) /\ Reading(photo) =>
        /\ loading.seen = sidecar[photo].stamp
        /\ Finds(photo, loading.job.kind, loading.job.stamp)

Read(photo) ==
    Lacks(jobs, JobsOf(photo)) /\ ~Reading(photo) =>
        \A result : LastOf(results, ResultsOf(photo), result) =>
            /\ result.stamp = sidecar[photo].stamp
            /\ result.kind = "recheck" => row[photo].loaded
            /\ result.marks = None /\ result.stamp # 0 => row[photo].stamp = result.stamp

Shown(photo) ==
    /\ Lacks(jobs, JobsOf(photo)) /\ ~Reading(photo) /\ Lacks(results, ResultsOf(photo))
    /\ photo \notin ignored
    => /\ row[photo].loaded
       /\ sidecar[photo].stamp # 0 =>
              row[photo].marks = sidecar[photo].marks /\ photo \notin untold

LastIsFresh(photo) ==
    row[photo] # None /\ photo \notin unread =>
        ToBeRead(photo) /\ BeingRead(photo) /\ Read(photo) /\ Shown(photo)

MarksAgree(photo) ==
    /\ SeenInOrder(photo)
    /\ ResultsAreRead(photo)
    /\ RowIsRead(photo)
    /\ ByHandIsLast(photo)
    /\ OwnAreTold(photo)
    /\ LastIsFresh(photo)

MarksInv ==
    /\ MarkTypes
    /\ PendingIsRight
    /\ StampsArePast
    /\ SavedIsNew
    /\ \A photo \in Photos : MarksAgree(photo)

(* What the types say of a photograph, and of what is on its way. *)
LEMMA VersionsAreNumbers ==
    /\ Reads!Versions = 0 .. WriteBound /\ WriteBound \in Nat /\ ListingBound \in Nat
    /\ \A stamp \in Reads!Versions : stamp \in Nat /\ stamp # None
BY BoundsAssumption, NothingAssumption DEF Reads!Versions

LEMMA PhotoTypes ==
    ASSUME MarkTypes, NEW photo \in Photos
    PROVE  /\ sidecar[photo].stamp \in Reads!Versions
           /\ sidecar[photo].marks \in Reads!Versions
           /\ row[photo] # None => /\ row[photo].marks \in Reads!Versions
                                   /\ row[photo].stamp \in Reads!Versions
                                   /\ row[photo].loaded \in BOOLEAN
                                   /\ row[photo].byHand \in BOOLEAN
           /\ ownStamps[photo] \in Seq(Reads!Versions)
<1>1. sidecar[photo] \in [stamp : Reads!Versions, marks : Reads!Versions]
  BY DEF MarkTypes
<1>2. row[photo] \in Reads!Rows \cup {None}
  BY DEF MarkTypes
<1>3. ownStamps[photo] \in Seq(Reads!Versions)
  BY DEF MarkTypes
<1> QED  BY <1>1, <1>2, <1>3 DEF Reads!Rows

LEMMA SequenceHas ==
    ASSUME NEW T, NEW s \in Seq(T)
    PROVE  \A e : Has(s, e) => e \in T
BY ElementOfSeq DEF Has

LEMMA WayTypes ==
    ASSUME MarkTypes
    PROVE  /\ \A job : Has(jobs, job) => /\ job \in Reads!Readings
                                         /\ job.photo \in Photos /\ job.stamp \in Reads!Versions
                                         /\ job.kind \in {"recheck", "marks"}
                                         /\ job.listing \in 0 .. ListingBound
           /\ \A result : Has(results, result) =>
                 /\ result \in MarkResults /\ result.photo \in Photos
                 /\ result.stamp \in Reads!Versions /\ result.kind \in {"recheck", "marks"}
                 /\ result.listing \in 0 .. ListingBound
                 /\ result.marks \in Reads!Versions \cup {None}
           /\ loading # None => /\ loading.job \in Reads!Readings
                                /\ loading.seen \in Reads!Versions
                                /\ loading.job.photo \in Photos
                                /\ loading.job.stamp \in Reads!Versions
                                /\ loading.job.kind \in {"recheck", "marks"}
                                /\ loading.job.listing \in 0 .. ListingBound
<1>1. ASSUME NEW job, Has(jobs, job)
      PROVE  job \in Reads!Readings
  BY <1>1, SequenceHas DEF MarkTypes
<1>2. ASSUME NEW result, Has(results, result)
      PROVE  result \in MarkResults
  BY <1>2, SequenceHas DEF MarkTypes
<1>3. loading # None => loading \in Reads!Loads
  BY DEF MarkTypes
<1>4. \A job \in Reads!Readings :
            /\ job.photo \in Photos /\ job.stamp \in Reads!Versions
            /\ job.kind \in {"recheck", "marks"} /\ job.listing \in 0 .. ListingBound
  BY DEF Reads!Readings
<1>5. \A result \in MarkResults :
            /\ result.photo \in Photos /\ result.stamp \in Reads!Versions
            /\ result.kind \in {"recheck", "marks"} /\ result.listing \in 0 .. ListingBound
            /\ result.marks \in Reads!Versions \cup {None}
  BY DEF MarkResults
<1>6. \A load \in Reads!Loads : load.job \in Reads!Readings /\ load.seen \in Reads!Versions
  BY DEF Reads!Loads
<1> QED  BY <1>1, <1>2, <1>3, <1>4, <1>5, <1>6

LEMMA SavingTypes ==
    ASSUME MarkTypes, saving # None
    PROVE  saving.photo \in Photos /\ saving.marks \in Reads!Versions \cup {None}
BY DEF MarkTypes, Reads!Saves

LEMMA MarksInitHolds == Reads!Init => MarksInv
<1> SUFFICES ASSUME Reads!Init
             PROVE  MarksInv
  OBVIOUS
<1>1. /\ sidecar = [photo \in Photos |-> [stamp |-> 0, marks |-> 0]]
      /\ row = [photo \in Photos |-> None]
      /\ ownStamps = [photo \in Photos |-> <<>>]
      /\ writes = 0 /\ listing = 0 /\ pending = 0
      /\ jobs = <<>> /\ results = <<>> /\ loading = None /\ saving = None
  BY DEF Reads!Init
<1>2. /\ \A e : ~Has(jobs, e)
      /\ \A e : ~Has(results, e)
      /\ \A photo \in Photos : \A e : ~Has(ownStamps[photo], e)
  BY <1>1, NoneHas
<1>3. MarkTypes
  BY <1>1, VersionsAreNumbers, EmptySeq DEF MarkTypes
<1>4. PendingIsRight
  <2>1. Count(results, OfThisListing) = 0
    <3>1. results \in Seq(MarkResults)
      BY <1>3 DEF MarkTypes
    <3> QED  BY <1>1, <3>1, CountIs
  <2>2. Len(jobs) = 0
    BY <1>1
  <2> QED  BY <1>1, <1>2, <2>1, <2>2 DEF PendingIsRight, Loading
<1>5. StampsArePast
  BY <1>1, <1>2 DEF StampsArePast
<1>6. SavedIsNew
  BY <1>1 DEF SavedIsNew
<1>7. ASSUME NEW photo \in Photos
      PROVE  MarksAgree(photo)
  BY <1>1, <1>2
     DEF MarksAgree, SeenInOrder, ResultsAreRead, RowIsRead, ByHandIsLast, OwnAreTold, LastIsFresh
<1> QED  BY <1>3, <1>4, <1>5, <1>6, <1>7 DEF MarksInv

-----------------------------------------------------------------------------
(* Writes of sidecars. *)

(* What is neither written nor said to have changed stays in agreement. *)
LEMMA StillAgrees ==
    ASSUME NEW photo \in Photos, MarksAgree(photo),
           UNCHANGED <<jobs, loading, results, listing>>,
           sidecar'[photo] = sidecar[photo], row'[photo] = row[photo],
           ownStamps'[photo] = ownStamps[photo],
           photo \in ignored' <=> photo \in ignored,
           photo \in untold' => photo \in untold,
           photo \notin unread' => photo \notin unread
    PROVE  MarksAgree(photo)'
<1>0. MarksAgree(photo)' <=> /\ SeenInOrder(photo)' /\ ResultsAreRead(photo)' /\ RowIsRead(photo)'
                             /\ ByHandIsLast(photo)' /\ OwnAreTold(photo)' /\ LastIsFresh(photo)'
  BY DEF MarksAgree
<1>1. \A stamp : IsLatest(photo, stamp)' <=> IsLatest(photo, stamp)
  BY DEF IsLatest
<1>2. SeenInOrder(photo)'
  BY <1>1 DEF MarksAgree, SeenInOrder, SeenByLoader, IsLatest, Has, Before
<1>3. ResultsAreRead(photo)'
  BY DEF MarksAgree, ResultsAreRead, IsLatest, Has
<1>4. RowIsRead(photo)'
  BY DEF MarksAgree, RowIsRead, IsLatest
<1>5. ByHandIsLast(photo)'
  BY DEF MarksAgree, ByHandIsLast, NotBefore
<1>6. OwnAreTold(photo)'
  BY DEF MarksAgree, OwnAreTold, IsLatest, Has
<1>7. LastIsFresh(photo)'
  <2>1. \A kind, stamp : Finds(photo, kind, stamp)' <=> Finds(photo, kind, stamp)
    BY DEF Finds, IsLatest
  <2>2. /\ JobsOf(photo)' = JobsOf(photo)
        /\ ResultsOf(photo)' = ResultsOf(photo)
        /\ Reading(photo)' <=> Reading(photo)
    BY DEF JobsOf, ResultsOf, Reading, Loading, Reads!Readings
  <2>3. SUFFICES ASSUME row[photo] # None, photo \notin unread'
                 PROVE  ToBeRead(photo)' /\ BeingRead(photo)' /\ Read(photo)' /\ Shown(photo)'
    BY DEF LastIsFresh
  <2>4. ToBeRead(photo) /\ BeingRead(photo) /\ Read(photo) /\ Shown(photo)
    BY <2>3 DEF MarksAgree, LastIsFresh
  <2>5. ToBeRead(photo)'
    BY <2>1, <2>2, <2>4 DEF ToBeRead, LastOf, Finds, IsLatest
  <2>6. BeingRead(photo)'
    BY <2>1, <2>2, <2>4 DEF BeingRead, Lacks, Finds, IsLatest
  <2>7. Read(photo)'
    BY <2>2, <2>4 DEF Read, Lacks, LastOf
  <2>8. Shown(photo)'
    BY <2>2, <2>4 DEF Shown, Lacks
  <2> QED  BY <2>5, <2>6, <2>7, <2>8
<1> QED  BY <1>0, <1>2, <1>3, <1>4, <1>5, <1>6, <1>7

(* A write gives a sidecar a stamp that nobody has seen. *)
LEMMA WriteKeeps ==
    ASSUME MarksInv, NEW photo \in Photos,
           NEW stamp \in {0, writes + 1}, NEW marks \in 0 .. writes + 1,
           Reads!Write(photo, stamp, marks),
           UNCHANGED <<jobs, loading, results, row, listing, pending, ownStamps, ignored>>,
           untold' \subseteq untold \cup {photo},
           saving' \in Reads!Saves \cup {None},
           saving' # None => saving'.marks = None \/ saving'.marks <= writes + 1
    PROVE  /\ MarkTypes' /\ PendingIsRight' /\ StampsArePast'
           /\ sidecar'[photo].stamp = stamp /\ sidecar'[photo].marks = marks
           /\ row[photo] # None => ~IsLatest(photo, row[photo].stamp)'
           /\ \A earlier \in 0 .. writes : NotBefore(photo, earlier)'
           /\ unread' = unread \cup {photo}
           /\ \A other \in Photos : MarksAgree(other)'
<1>1. /\ writes < WriteBound /\ writes' = writes + 1
      /\ sidecar' = [sidecar EXCEPT ![photo] = [stamp |-> stamp, marks |-> marks]]
      /\ unread' = unread \cup {photo}
  BY DEF Reads!Write
<1>2. MarkTypes /\ PendingIsRight /\ StampsArePast
  BY DEF MarksInv
<1>3. writes \in Nat /\ writes + 1 \in Reads!Versions /\ stamp \in Reads!Versions
      /\ marks \in Reads!Versions
  BY <1>1, <1>2, VersionsAreNumbers DEF MarkTypes
<1>4. sidecar'[photo] = [stamp |-> stamp, marks |-> marks]
  BY <1>1, <1>2 DEF MarkTypes
<1>5. \A other \in Photos : other # photo => sidecar'[other] = sidecar[other]
  BY <1>1, <1>2 DEF MarkTypes
<1>6. MarkTypes'
  BY <1>1, <1>2, <1>3 DEF MarkTypes
<1>7. PendingIsRight'
  BY <1>2 DEF PendingIsRight, Loading, Count, OfThisListing, Has
<1>8. \A earlier \in Reads!Versions : earlier <= writes => earlier <= writes'
  BY <1>1, <1>3, VersionsAreNumbers
<1>9. StampsArePast'
  <2>1. ASSUME NEW other \in Photos
        PROVE  /\ sidecar'[other].stamp <= writes' /\ sidecar'[other].marks <= writes'
               /\ row'[other] # None =>
                      /\ row'[other].stamp <= writes'
                      /\ (row'[other].byHand => row'[other].marks <= writes')
               /\ \A noted : Has(ownStamps'[other], noted) => noted <= writes'
    <3>1. sidecar'[other].stamp <= writes' /\ sidecar'[other].marks <= writes'
      <4>1. CASE other = photo
        BY <1>1, <1>3, <1>4, <4>1
      <4>2. CASE other # photo
        BY <1>2, <1>5, <1>8, <4>2, PhotoTypes DEF StampsArePast
      <4> QED  BY <4>1, <4>2
    <3>2. row[other] # None =>
              /\ row[other].stamp <= writes'
              /\ (row[other].byHand => row[other].marks <= writes')
      BY <1>2, <1>8, PhotoTypes DEF StampsArePast
    <3>3. \A noted : Has(ownStamps[other], noted) => noted <= writes'
      BY <1>2, <1>8, PhotoTypes, SequenceHas DEF StampsArePast
    <3> QED  BY <3>1, <3>2, <3>3
  <2>2. /\ loading # None => loading.seen <= writes' /\ loading.job.stamp <= writes'
        /\ \A job : Has(jobs, job) => job.stamp <= writes'
        /\ \A result : Has(results, result) => result.stamp <= writes'
    BY <1>2, <1>8, WayTypes DEF StampsArePast
  <2>3. /\ \A job : Has(jobs', job) => job.stamp <= writes'
        /\ \A result : Has(results', result) => result.stamp <= writes'
    BY <2>2
  <2>4. saving' # None => saving'.marks = None \/ saving'.marks <= writes'
    BY <1>1
  <2>5. /\ loading' # None => loading'.seen <= writes'
        /\ loading' # None => loading'.job.stamp <= writes'
    BY <2>2
  <2>6. StampsArePast' <=>
            /\ \A other \in Photos :
                /\ sidecar'[other].stamp <= writes' /\ sidecar'[other].marks <= writes'
                /\ row'[other] # None =>
                       /\ row'[other].stamp <= writes'
                       /\ (row'[other].byHand => row'[other].marks <= writes')
                /\ \A noted : Has(ownStamps'[other], noted) => noted <= writes'
            /\ loading' # None => loading'.seen <= writes'
            /\ \A job : Has(jobs', job) => job.stamp <= writes'
            /\ loading' # None => loading'.job.stamp <= writes'
            /\ \A result : Has(results', result) => result.stamp <= writes'
            /\ saving' # None => saving'.marks = None \/ saving'.marks <= writes'
    BY DEF StampsArePast, Has
  <2> QED  BY <2>1, <2>3, <2>4, <2>5, <2>6
<1>10. \A earlier : earlier \in Reads!Versions /\ earlier <= writes => ~IsLatest(photo, earlier)'
  BY <1>3, <1>4, VersionsAreNumbers DEF IsLatest
<1>11. \A earlier \in 0 .. writes : NotBefore(photo, earlier)'
  BY <1>3, <1>4 DEF NotBefore
<1>12. row[photo] # None =>
           row[photo].stamp \in Reads!Versions /\ row[photo].stamp <= writes
           /\ (row[photo].byHand => row[photo].marks \in 0 .. writes)
  BY <1>2, <1>3, PhotoTypes, VersionsAreNumbers DEF StampsArePast
<1>13. row[photo] # None => ~IsLatest(photo, row[photo].stamp)'
  BY <1>10, <1>12
<1>14. \A result : Has(results, result) /\ result.photo = photo => ~IsLatest(photo, result.stamp)'
  BY <1>2, <1>10, WayTypes DEF StampsArePast
<1>15. \A noted : Has(ownStamps[photo], noted) => ~IsLatest(photo, noted)'
  BY <1>2, <1>10, PhotoTypes, SequenceHas DEF StampsArePast
<1>16. MarksAgree(photo)'
  <2>1. MarksAgree(photo)
    BY DEF MarksInv
  <2>2. row'[photo] = row[photo]
    OBVIOUS
  <2>3. \A result : Has(results, result)' => Has(results, result)
    BY DEF Has
  <2>4. SeenInOrder(photo)'
    BY <1>13, <1>14, <2>2, <2>3 DEF SeenInOrder
  <2>5. ResultsAreRead(photo)'
    BY <1>14, <2>1, <2>3 DEF MarksAgree, ResultsAreRead
  <2>6. RowIsRead(photo)'
    BY <1>13, <2>1, <2>2 DEF MarksAgree, RowIsRead
  <2>7. ByHandIsLast(photo)'
    BY <1>11, <1>12 DEF ByHandIsLast
  <2>8. OwnAreTold(photo)'
    BY <1>15 DEF Has, OwnAreTold
  <2>9. LastIsFresh(photo)'
    BY <1>1 DEF LastIsFresh
  <2> QED  BY <2>4, <2>5, <2>6, <2>7, <2>8, <2>9 DEF MarksAgree
<1>17. ASSUME NEW other \in Photos, other # photo
       PROVE  MarksAgree(other)'
  BY <1>1, <1>5, <1>17, StillAgrees DEF MarksInv
<1>18. \A other \in Photos : MarksAgree(other)'
  BY <1>16, <1>17
<1> QED  BY <1>1, <1>4, <1>6, <1>7, <1>9, <1>11, <1>13, <1>18

(* Another program's write leaves what is being saved the newer. *)
LEMMA ForeignWriteKeeps ==
    ASSUME MarksInv, NEW photo \in Photos, Reads!ForeignWrite(photo)
    PROVE  MarksInv'
<1>0. PICK stamp \in {0, writes + 1} :
             /\ Reads!Write(photo, stamp, stamp)
             /\ untold' = untold \cup {photo}
             /\ UNCHANGED <<Reads!loader, Reads!strip, ignored>>
  BY DEF Reads!ForeignWrite
<1>1. UNCHANGED <<jobs, loading, results, row, listing, pending, ownStamps, ignored, saving>>
  BY <1>0 DEF Reads!loader, Reads!strip
<1>2. /\ MarkTypes /\ StampsArePast /\ SavedIsNew
      /\ writes \in Nat /\ stamp \in 0 .. writes + 1
  BY VersionsAreNumbers DEF MarksInv, MarkTypes
<1>3. saving' \in Reads!Saves \cup {None}
  BY <1>1, <1>2 DEF MarkTypes
<1>4. saving # None => saving.marks = None \/ saving.marks \in 0 .. writes
  BY <1>2, SavingTypes, VersionsAreNumbers DEF StampsArePast
<1>5. saving' # None => saving'.marks = None \/ saving'.marks <= writes + 1
  BY <1>1, <1>2, <1>4
<1>6. /\ MarkTypes' /\ PendingIsRight' /\ StampsArePast'
      /\ row[photo] # None => ~IsLatest(photo, row[photo].stamp)'
      /\ \A earlier \in 0 .. writes : NotBefore(photo, earlier)'
      /\ unread' = unread \cup {photo}
      /\ \A other \in Photos : MarksAgree(other)'
  BY <1>0, <1>1, <1>2, <1>3, <1>5, WriteKeeps
<1>7. SavedIsNew'
  BY <1>0, <1>1, <1>2, <1>4, <1>6, SavingTypes
     DEF SavedIsNew, IsLatest, NotBefore, Reads!Write, MarkTypes
<1> QED  BY <1>6, <1>7 DEF MarksInv

LEMMA OwnWriteKeeps ==
    ASSUME MarksInv, NEW photo \in Photos,
           Reads!WriteMarks(photo) \/ Reads!WriteSettings(photo)
    PROVE  MarksInv'
<1>1. MarkTypes /\ StampsArePast /\ SavedIsNew /\ writes \in Nat
  BY VersionsAreNumbers DEF MarksInv, MarkTypes
<1>2. PICK marks \in 0 .. writes + 1 :
             /\ Reads!Write(photo, writes + 1, marks)
             /\ UNCHANGED <<Reads!loader, row, listing, pending, ownStamps, ignored, untold>>
             /\ \/ photo \in Reads!Listed /\ marks = writes + 1
                   /\ saving' = [photo |-> photo, marks |-> writes + 1]
                \/ saving' = [photo |-> photo, marks |-> None]
  BY <1>1, PhotoTypes, VersionsAreNumbers DEF Reads!WriteMarks, StampsArePast, Reads!WriteSettings
<1>3. UNCHANGED <<jobs, loading, results, row, listing, pending, ownStamps, ignored>>
  BY <1>2 DEF Reads!loader
<1>4. writes + 1 \in Reads!Versions /\ writes + 1 # None
  BY <1>1, <1>2, VersionsAreNumbers DEF Reads!Write
<1>5. saving' \in Reads!Saves \cup {None}
  BY <1>2, <1>4 DEF Reads!Saves
<1>6. saving' # None => saving'.marks = None \/ saving'.marks <= writes + 1
  BY <1>1, <1>2
<1>7. /\ MarkTypes' /\ PendingIsRight' /\ StampsArePast'
      /\ sidecar'[photo].stamp = writes + 1 /\ sidecar'[photo].marks = marks
      /\ row[photo] # None => ~IsLatest(photo, row[photo].stamp)'
      /\ unread' = unread \cup {photo}
      /\ \A other \in Photos : MarksAgree(other)'
  BY <1>2, <1>3, <1>5, <1>6, WriteKeeps
<1>8. SavedIsNew'
  BY <1>1, <1>2, <1>3, <1>7 DEF IsLatest, Reads!Listed, SavedIsNew, NotBefore
<1> QED  BY <1>7, <1>8 DEF MarksInv

(* noteOwnWrite() keeps stamps that the sidecar has had. *)
LEMMA ReadsWithoutIs ==
    ASSUME NEW T, NEW s \in Seq(T), NEW E
    PROVE  /\ Reads!Without(s, E) \in Seq(T)
           /\ \A e : Has(Reads!Without(s, E), e) <=> Has(s, e) /\ e \notin E
<1>1. ASSUME NEW S
      PROVE  Reads!Cardinality(S) = Cardinality(S)
  BY DEF Reads!Cardinality, Cardinality
<1>2. ASSUME NEW S, NEW k
      PROVE  Reads!Nth(S, k) = Nth(S, k)
  BY <1>1 DEF Reads!Nth, Nth
<1>3. ASSUME NEW S
      PROVE  Reads!Subsequence(s, S) = Subsequence(s, S)
  BY <1>1, <1>2 DEF Reads!Subsequence, Subsequence
<1>4. Reads!Without(s, E) = Without(s, E)
  BY <1>3 DEF Reads!Without, Without
<1> QED  BY <1>4, WithoutIs

LEMMA NoteOwnWriteIs ==
    ASSUME MarkTypes, NEW photo \in Photos, Reads!NoteOwnWrite(photo)
    PROVE  /\ ownStamps' \in [Photos -> Seq(Reads!Versions)]
           /\ \A other \in Photos : other # photo => ownStamps'[other] = ownStamps[other]
           /\ \A stamp : Has(ownStamps'[photo], stamp)
                             => Has(ownStamps[photo], stamp) \/ stamp = sidecar[photo].stamp
           /\ untold' = untold \ {photo}
<1> DEFINE stamp == sidecar[photo].stamp
           old == ownStamps[photo]
           rest == Reads!Without(old, {stamp})
           noted == Append(rest, stamp)
           new == IF Len(noted) > OwnStampsKept THEN Tail(noted) ELSE noted
<1>1. /\ ownStamps' = IF stamp = 0 THEN ownStamps ELSE [ownStamps EXCEPT ![photo] = new]
      /\ untold' = untold \ {photo}
  BY DEF Reads!NoteOwnWrite
<1>2. old \in Seq(Reads!Versions) /\ stamp \in Reads!Versions
  BY PhotoTypes
<1>3. ownStamps \in [Photos -> Seq(Reads!Versions)]
  BY DEF MarkTypes
<1> HIDE DEF stamp, old
<1>4. rest \in Seq(Reads!Versions) /\ \A e : Has(rest, e) => Has(old, e)
  BY <1>2, ReadsWithoutIs
<1> HIDE DEF rest
<1>5. /\ noted \in Seq(Reads!Versions)
      /\ \A e : Has(noted, e) <=> Has(rest, e) \/ e = stamp
      /\ Len(noted) = Len(rest) + 1
  BY <1>2, <1>4, AppendHas
<1>6. noted # <<>>
  <2>1. Has(noted, stamp)
    BY <1>5
  <2> HIDE DEF noted
  <2> QED  BY <2>1, NoneHas
<1> HIDE DEF noted
<1>7. Tail(noted) \in Seq(Reads!Versions) /\ \A e : Has(Tail(noted), e) => Has(noted, e)
  BY <1>5, <1>6, TailHas
<1>8. new \in Seq(Reads!Versions) /\ \A e : Has(new, e) => Has(noted, e)
  BY <1>5, <1>7
<1> HIDE DEF new
<1>9. CASE stamp = 0
  BY <1>1, <1>3, <1>9
<1>10. CASE stamp # 0
  BY <1>1, <1>3, <1>4, <1>5, <1>8, <1>10 DEF old, stamp
<1> QED  BY <1>9, <1>10

(* The write is noted: a row has what was set by hand, and not the stamp of it. *)
LEMMA WrittenKeeps ==
    ASSUME MarksInv, Reads!Written
    PROVE  MarksInv'
<1>3. MarkTypes /\ PendingIsRight /\ StampsArePast /\ SavedIsNew
  BY DEF MarksInv
<1>0. PICK photo \in Photos : photo = saving.photo
  BY <1>3, SavingTypes DEF Reads!Written
<1>1. /\ saving # None /\ saving' = None
      /\ Reads!NoteOwnWrite(photo)
      /\ UNCHANGED <<sidecar, writes, jobs, loading, results, listing, pending, unread, ignored>>
  BY <1>0 DEF Reads!Written, Reads!loader
<1>2. row' = IF saving.marks = None
             THEN row
             ELSE [row EXCEPT ![photo] =
                      [@ EXCEPT !.marks = saving.marks, !.loaded = TRUE, !.byHand = TRUE]]
  BY <1>0 DEF Reads!Written
<1>4. photo \in Photos /\ saving.marks \in Reads!Versions \cup {None}
  BY <1>1, <1>3, SavingTypes
<1>5. /\ photo \in unread
      /\ row[photo] # None => ~IsLatest(photo, row[photo].stamp)
      /\ saving.marks # None => row[photo] # None /\ NotBefore(photo, saving.marks)
      /\ saving.marks # None => saving.marks <= writes
  BY <1>0, <1>1, <1>3 DEF SavedIsNew, StampsArePast
<1>6. MarksAgree(photo)
  BY DEF MarksInv
<1>7. /\ ownStamps' \in [Photos -> Seq(Reads!Versions)]
      /\ \A other \in Photos : other # photo => ownStamps'[other] = ownStamps[other]
      /\ \A stamp : Has(ownStamps'[photo], stamp)
                        => Has(ownStamps[photo], stamp) \/ stamp = sidecar[photo].stamp
      /\ untold' = untold \ {photo}
  BY <1>1, <1>3, <1>4, NoteOwnWriteIs
<1>8. /\ row' \in [Photos -> Reads!Rows \cup {None}]
      /\ \A other \in Photos : other # photo => row'[other] = row[other]
      /\ row'[photo] # None =>
            /\ row[photo] # None /\ row'[photo].stamp = row[photo].stamp
            /\ \/ row'[photo] = row[photo]
               \/ /\ saving.marks # None /\ row'[photo].marks = saving.marks
                  /\ row'[photo].loaded
  <2>1. row \in [Photos -> Reads!Rows \cup {None}]
    BY <1>3 DEF MarkTypes
  <2>2. CASE saving.marks = None
    BY <1>2, <2>1, <2>2
  <2>3. CASE saving.marks # None
    <3> DEFINE new == [row[photo] EXCEPT !.marks = saving.marks, !.loaded = TRUE, !.byHand = TRUE]
    <3>1. row' = [row EXCEPT ![photo] = new]
      BY <1>2, <2>3
    <3>2. row[photo] \in Reads!Rows
      BY <1>4, <1>5, <2>1, <2>3
    <3>3. /\ new \in Reads!Rows
          /\ new.stamp = row[photo].stamp /\ new.marks = saving.marks /\ new.loaded
      BY <1>4, <2>3, <3>2 DEF Reads!Rows
    <3> HIDE DEF new
    <3>4. row'[photo] = new /\ \A other \in Photos : other # photo => row'[other] = row[other]
      BY <1>4, <2>1, <3>1
    <3>5. row' \in [Photos -> Reads!Rows \cup {None}]
      BY <2>1, <3>1, <3>3
    <3> QED  BY <1>5, <2>3, <3>3, <3>4, <3>5
  <2> QED  BY <2>2, <2>3
<1>9. MarkTypes'
  BY <1>1, <1>3, <1>7, <1>8 DEF MarkTypes
<1>10. PendingIsRight'
  BY <1>1, <1>3 DEF PendingIsRight, Loading, Count, OfThisListing, Has
<1>11. StampsArePast'
  <2>1. ASSUME NEW other \in Photos
        PROVE  /\ row'[other] # None =>
                      /\ row'[other].stamp <= writes
                      /\ (row'[other].byHand => row'[other].marks <= writes)
               /\ \A stamp : Has(ownStamps'[other], stamp) => stamp <= writes
    BY <1>3, <1>5, <1>7, <1>8 DEF StampsArePast
  <2>2. \A other \in Photos : \A stamp : Has(ownStamps[other], stamp)'
                                             <=> Has(ownStamps'[other], stamp)
    BY DEF Has
  <2> QED  BY <1>1, <1>3, <2>1, <2>2 DEF StampsArePast, Has
<1>12. SavedIsNew'
  BY <1>1 DEF SavedIsNew
<1>13. MarksAgree(photo)'
  BY <1>1, <1>5, <1>6, <1>7, <1>8
     DEF IsLatest, MarksAgree, SeenInOrder, SeenByLoader, Has, Before, ResultsAreRead, RowIsRead,
         ByHandIsLast, NotBefore, OwnAreTold, LastIsFresh
<1>14. ASSUME NEW other \in Photos, other # photo
       PROVE  MarksAgree(other)'
  BY <1>1, <1>7, <1>8, <1>14, StillAgrees DEF MarksInv
<1> QED  BY <1>9, <1>10, <1>11, <1>12, <1>13, <1>14 DEF MarksInv

-----------------------------------------------------------------------------
(* What the strip lists. *)

LEMMA ListFolderKeeps ==
    ASSUME MarksInv, Reads!ListFolder
    PROVE  MarksInv'
<1>1. /\ listing < ListingBound /\ listing' = listing + 1
      /\ row' = [photo \in Photos |-> None]
      /\ jobs' = <<>> /\ pending' = 0 /\ saving = None /\ saving' = None
      /\ unread' = {} /\ ignored' = {} /\ untold' = {}
      /\ UNCHANGED <<sidecar, writes, loading, results, ownStamps>>
  BY DEF Reads!ListFolder
<1>2. MarkTypes /\ PendingIsRight /\ StampsArePast
  BY DEF MarksInv
<1>3. \A job : ~Has(jobs', job)
  BY <1>1, NoneHas
<1>4. \A photo \in Photos : row'[photo] = None
  BY <1>1
<1>5. MarkTypes'
  BY <1>1, <1>2, VersionsAreNumbers, EmptySeq DEF MarkTypes
<1>6. listing \in Nat
  BY <1>2, VersionsAreNumbers DEF MarkTypes
<1>7. \A earlier \in 0 .. ListingBound :
            earlier <= listing => earlier <= listing' /\ earlier # listing'
  BY <1>1, <1>6, VersionsAreNumbers
<1>8. \A result : Has(results, result) => result.listing <= listing' /\ result.listing # listing'
  BY <1>2, <1>7, WayTypes DEF PendingIsRight
<1>9. loading # None => loading.job.listing <= listing' /\ loading.job.listing # listing'
  BY <1>2, <1>7, WayTypes DEF PendingIsRight
<1>10. PendingIsRight'
  <2> DEFINE E == {result \in MarkResults : result.listing = listing'}
  <2>1. results \in Seq(MarkResults)
    BY <1>2 DEF MarkTypes
  <2>2. \A result \in E : ~Has(results, result)
    BY <1>8
  <2>3. Count(results, E) = 0
    <3> HIDE DEF E
    <3>1. Lacks(results, E)
      BY <2>1, <2>2, LacksHas
    <3> QED  BY <2>1, <3>1, CountIs
  <2>4. Count(results, OfThisListing)' = Count(results, E)
    BY <1>1 DEF Count, OfThisListing, MarkResults, Reads!Versions
  <2>5. \A result : Has(results, result)' <=> Has(results, result)
    BY <1>1 DEF Has
  <2>6. Len(jobs') = 0 /\ ~Loading'
    BY <1>1, <1>9 DEF Loading
  <2>7. \A job : ~Has(jobs, job)'
    BY <1>3 DEF Has
  <2> QED  BY <1>1, <1>8, <1>9, <2>3, <2>4, <2>5, <2>6, <2>7 DEF PendingIsRight
<1>11. StampsArePast'
  BY <1>1, <1>2, <1>3, <1>4 DEF StampsArePast, Has
<1>12. SavedIsNew'
  BY <1>1 DEF SavedIsNew
<1>13. ASSUME NEW photo \in Photos
       PROVE  MarksAgree(photo)'
  BY <1>1, <1>4
     DEF MarksInv, MarksAgree, SeenInOrder, SeenByLoader, IsLatest, Has, Before, ResultsAreRead,
         RowIsRead, ByHandIsLast, LastIsFresh, OwnAreTold
<1> QED  BY <1>5, <1>10, <1>11, <1>12, <1>13 DEF MarksInv

(* The reading that is asked of a row. *)
Asked(kind, photo) ==
    [kind |-> kind, listing |-> listing, photo |-> photo,
     stamp |-> IF kind = "recheck" THEN row[photo].stamp ELSE 0]

LEMMA JobsAre ==
    ASSUME MarkTypes, NEW P \in SUBSET Photos, NEW kind \in {"recheck", "marks"},
           kind = "recheck" => \A photo \in P : row[photo] # None
    PROVE  /\ Reads!Jobs(kind, P) \in Seq(Reads!Readings)
           /\ \A job : Has(Reads!Jobs(kind, P), job) <=> \E photo \in P : job = Asked(kind, photo)
<1> DEFINE n == Cardinality(P)
           order == Reads!SetToSeq(P)
           asked == Reads!Jobs(kind, P)
<1>1. IsFiniteSet(P)
  BY BoundsAssumption, FS_Subset
<1>2. n \in Nat /\ ExistsBijection(1 .. n, P)
  BY <1>1, FS_CardinalityType
<1>3. /\ order \in [1 .. n -> P]
      /\ Reads!IsInjective(order)
  <2>1. PICK f : f \in Bijection(1 .. n, P)
    BY <1>2 DEF ExistsBijection
  <2>2. f \in [1 .. n -> P] /\ Reads!IsInjective(f)
    BY <2>1 DEF Bijection, Injection, IsInjective, Reads!IsInjective
  <2>3. n = Reads!Cardinality(P)
    BY DEF Reads!Cardinality, Cardinality
  <2>4. order = CHOOSE g \in [1 .. n -> P] : Reads!IsInjective(g)
    BY <2>3 DEF Reads!SetToSeq
  <2> HIDE DEF n, order
  <2> QED  BY <2>2, <2>4
<1>4. \A photo \in P : \E i \in 1 .. n : order[i] = photo
  <2>1. IsFiniteSet(1 .. n) /\ Cardinality(1 .. n) = n
    BY <1>2, FS_Interval
  <2>2. order \in Injection(1 .. n, P)
    BY <1>3 DEF Injection, IsInjective, Reads!IsInjective
  <2> DEFINE D == 1 .. n
  <2>3. Cardinality(D) = Cardinality(P)
    BY <2>1
  <2> HIDE DEF D, order
  <2>4. order \in Surjection(D, P)
    BY <1>1, <2>1, <2>2, <2>3, FS_Injection DEF D
  <2> QED  BY <2>4 DEF Surjection, D
<1>5. /\ DOMAIN order = 1 .. n
      /\ \A i \in 1 .. n : order[i] \in P
  BY <1>3
<1> HIDE DEF n
<1>6. asked = [i \in 1 .. n |-> Asked(kind, order[i])]
  BY <1>5 DEF Reads!Jobs, Asked
<1> HIDE DEF order, asked
<1>7. \A photo \in P : Asked(kind, photo) \in Reads!Readings
  BY VersionsAreNumbers, PhotoTypes DEF MarkTypes, Asked, Reads!Readings
<1>8. asked \in Seq(Reads!Readings)
  BY <1>2, <1>5, <1>6, <1>7 DEF n
<1>9. DOMAIN asked = 1 .. n /\ \A i \in 1 .. n : asked[i] = Asked(kind, order[i])
  BY <1>6
<1>10. \A job : Has(asked, job) <=> \E photo \in P : job = Asked(kind, photo)
  BY <1>4, <1>5, <1>9 DEF Has
<1> QED  BY <1>8, <1>10 DEF asked

(* Every row that is new or has its marks is read again, and of those no earlier reading is
   awaited. *)
LEMMA MergeKeeps ==
    ASSUME MarksInv, NEW coming \in SUBSET Photos, NEW going \in SUBSET Photos,
           Reads!Merge(coming, going)
    PROVE  MarksInv'
<1> DEFINE checked == {photo \in Reads!Listed \ going : row[photo].loaded}
           again == Reads!Jobs("recheck", checked)
           first == Reads!Jobs("marks", coming)
           reads == again \o first
           blank == [marks |-> 0, loaded |-> FALSE, byHand |-> FALSE, stamp |-> 0]
<1>1. /\ saving = None /\ saving' = None
      /\ coming \cap Reads!Listed = {} /\ going \subseteq Reads!Listed
      /\ jobs' = jobs \o reads
      /\ pending' = pending + Len(reads)
      /\ unread' = unread \ (checked \cup coming)
      /\ ignored' = ignored \ coming /\ untold' = untold \ coming
      /\ UNCHANGED <<sidecar, writes, loading, results, listing, ownStamps>>
  BY DEF Reads!Merge
<1>2. row' = [photo \in Photos |->
                 IF photo \in coming THEN blank
                 ELSE IF photo \in going THEN None ELSE row[photo]]
  BY DEF Reads!Merge
<1>3. MarkTypes /\ PendingIsRight /\ StampsArePast
  BY DEF MarksInv
<1>4. /\ \A photo \in coming : row'[photo] = blank
      /\ \A photo \in going : row'[photo] = None
      /\ \A photo \in Photos \ (coming \cup going) : row'[photo] = row[photo]
  BY <1>1, <1>2
<1>5. /\ checked \in SUBSET Photos
      /\ \A photo \in Photos :
            photo \in checked <=> row[photo] # None /\ photo \notin going /\ row[photo].loaded
      /\ \A photo \in Photos : photo \in coming => row[photo] = None
  BY <1>1 DEF Reads!Listed
<1>6. blank # None /\ blank \in Reads!Rows
  <2>1. blank \in Reads!Rows
    BY VersionsAreNumbers DEF Reads!Rows
  <2> QED  BY <2>1, NothingAssumption
<1> HIDE DEF checked
<1>7. /\ again \in Seq(Reads!Readings)
      /\ \A job : Has(again, job) <=> \E photo \in checked : job = Asked("recheck", photo)
  BY <1>3, <1>5, JobsAre
<1>8. /\ first \in Seq(Reads!Readings)
      /\ \A job : Has(first, job) <=> \E photo \in coming : job = Asked("marks", photo)
  BY <1>3, JobsAre
<1> HIDE DEF again, first
<1>9. /\ reads \in Seq(Reads!Readings)
      /\ \A job : Has(reads, job) <=> Has(again, job) \/ Has(first, job)
  BY <1>7, <1>8, ConcatOrder
<1> HIDE DEF reads
<1>10. jobs \in Seq(Reads!Readings)
  BY <1>3 DEF MarkTypes
<1>11. /\ jobs' \in Seq(Reads!Readings)
       /\ \A job : Has(jobs', job) <=> Has(jobs, job) \/ Has(reads, job)
       /\ \A E : Lacks(jobs', E) <=> Lacks(jobs, E) /\ Lacks(reads, E)
       /\ \A E, job : LastOf(jobs', E, job)
                          => LastOf(reads, E, job) \/ (Lacks(reads, E) /\ LastOf(jobs, E, job))
  BY <1>1, <1>9, <1>10, ConcatOrder
<1>12. \A kind, photo : /\ Asked(kind, photo).photo = photo /\ Asked(kind, photo).kind = kind
                        /\ Asked(kind, photo).listing = listing
  BY DEF Asked
<1>13. MarkTypes'
  <2>1. row' \in [Photos -> Reads!Rows \cup {None}]
    <3> HIDE DEF blank
    <3>1. row \in [Photos -> Reads!Rows \cup {None}]
      BY <1>3 DEF MarkTypes
    <3> QED  BY <1>2, <1>6, <3>1
  <2> QED  BY <1>1, <1>3, <1>11, <2>1 DEF MarkTypes
<1>14. PendingIsRight'
  <2>1. Len(jobs') = Len(jobs) + Len(reads)
    BY <1>1, <1>9, <1>10, ConcatProperties
  <2>2. Len(jobs) \in Nat /\ Len(reads) \in Nat
    BY <1>9, <1>10, LenProperties
  <2>3. Count(results, OfThisListing) \in Nat
    BY <1>3, CountIs DEF MarkTypes
  <2>4. Count(results, OfThisListing)' = Count(results, OfThisListing)
    BY <1>1 DEF Count, OfThisListing, MarkResults, Reads!Versions
  <2>5. \A job : Has(jobs', job) => job.listing = listing'
    BY <1>1, <1>3, <1>7, <1>8, <1>9, <1>11, <1>12 DEF PendingIsRight
  <2>6. \A job : Has(jobs, job)' => job.listing = listing'
    BY <2>5 DEF Has
  <2>7. \A result : Has(results, result)' => result.listing <= listing'
    BY <1>1, <1>3 DEF PendingIsRight, Has
  <2>8. Loading' <=> Loading
    BY <1>1 DEF Loading
  <2>9. pending' = Len(jobs') + (IF Loading' THEN 1 ELSE 0) + Count(results, OfThisListing)'
    <3>1. pending = Len(jobs) + (IF Loading THEN 1 ELSE 0) + Count(results, OfThisListing)
      BY <1>3 DEF PendingIsRight
    <3>2. pending' = pending + Len(reads)
      BY <1>1
    <3> HIDE DEF reads
    <3> QED  BY <2>1, <2>2, <2>3, <2>4, <2>8, <3>1, <3>2
  <2>10. loading' # None => loading'.job.listing <= listing'
    BY <1>1, <1>3 DEF PendingIsRight
  <2> QED  BY <2>6, <2>7, <2>9, <2>10 DEF PendingIsRight
<1>15. StampsArePast'
  <2>1. writes \in Nat
    BY <1>3, VersionsAreNumbers DEF MarkTypes
  <2>2. ASSUME NEW photo \in Photos
        PROVE  row'[photo] # None =>
                   /\ row'[photo].stamp <= writes
                   /\ (row'[photo].byHand => row'[photo].marks <= writes)
    BY <1>3, <1>4, <2>1 DEF StampsArePast
  <2>3. \A job : Has(reads, job) => job.stamp <= writes
    <3> SUFFICES ASSUME NEW job, Has(reads, job)
                 PROVE  job.stamp <= writes
      OBVIOUS
    <3>1. (\E photo \in checked : job = Asked("recheck", photo))
             \/ (\E photo \in coming : job = Asked("marks", photo))
      BY <1>7, <1>8, <1>9
    <3>2. CASE \E photo \in checked : job = Asked("recheck", photo)
      <4>1. PICK photo \in checked : job = Asked("recheck", photo)
        BY <3>2
      <4>2. job.stamp = row[photo].stamp /\ row[photo] # None
        BY <1>5, <4>1 DEF Asked
      <4> QED  BY <1>3, <1>5, <4>2 DEF StampsArePast
    <3>3. CASE \E photo \in coming : job = Asked("marks", photo)
      BY <2>1, <3>3 DEF Asked
    <3> QED  BY <3>1, <3>2, <3>3
  <2>4. \A job : Has(jobs, job)' => job.stamp <= writes
    BY <1>3, <1>11, <2>3 DEF StampsArePast, Has
  <2>5. /\ \A result : Has(results, result)' => result.stamp <= writes
        /\ \A photo \in Photos : \A stamp : Has(ownStamps[photo], stamp)' => stamp <= writes
    BY <1>1, <1>3 DEF StampsArePast, Has
  <2>6. \A photo \in Photos : sidecar'[photo].stamp <= writes /\ sidecar'[photo].marks <= writes
    BY <1>1, <1>3 DEF StampsArePast
  <2>7. loading' # None => loading'.seen <= writes /\ loading'.job.stamp <= writes
    BY <1>1, <1>3 DEF StampsArePast
  <2> QED  BY <1>1, <2>2, <2>4, <2>5, <2>6, <2>7 DEF StampsArePast
<1>16. SavedIsNew'
  BY <1>1 DEF SavedIsNew
<1>17. ASSUME NEW photo \in Photos
       PROVE  MarksAgree(photo)'
  <2>1. MarksAgree(photo)
    BY DEF MarksInv
  <2>3. \/ row'[photo] = blank
        \/ row'[photo] = None
        \/ row'[photo] = row[photo] /\ photo \notin coming
    BY <1>4
  <2>4. row'[photo] = blank => row'[photo].stamp = 0 /\ ~row'[photo].byHand
    OBVIOUS
  <2>5. SeenInOrder(photo)'
    BY <1>1, <2>1, <2>3, <2>4 DEF MarksAgree, SeenInOrder, SeenByLoader, IsLatest, Has, Before
  <2>6. ResultsAreRead(photo)'
    BY <1>1, <2>1 DEF MarksAgree, ResultsAreRead, IsLatest, Has
  <2>7. RowIsRead(photo)'
    BY <1>1, <2>1, <2>3, <2>4 DEF MarksAgree, RowIsRead, IsLatest
  <2>8. ByHandIsLast(photo)'
    BY <1>1, <2>1, <2>3, <2>4 DEF MarksAgree, ByHandIsLast, NotBefore
  <2>9. OwnAreTold(photo)'
    BY <1>1, <2>1 DEF MarksAgree, OwnAreTold, IsLatest, Has
  <2>10. LastIsFresh(photo)'
    <3> SUFFICES ASSUME row'[photo] # None, photo \notin unread'
                 PROVE  ToBeRead(photo)' /\ BeingRead(photo)' /\ Read(photo)' /\ Shown(photo)'
      BY DEF LastIsFresh
    <3> DEFINE E == JobsOf(photo)
    <3>1. JobsOf(photo)' = E /\ ResultsOf(photo)' = ResultsOf(photo)
      BY <1>1 DEF JobsOf, ResultsOf, Reads!Readings
    <3>2. \A job : Has(reads, job) /\ job \in E =>
              \/ photo \in checked /\ job = Asked("recheck", photo)
              \/ photo \in coming /\ job = Asked("marks", photo)
      BY <1>7, <1>8, <1>9, <1>12 DEF JobsOf
    <3>3. ASSUME photo \in coming \cup checked
          PROVE  ~Lacks(reads, E)
      <4>1. PICK kind \in {"recheck", "marks"} : Has(reads, Asked(kind, photo))
        BY <1>7, <1>8, <1>9, <3>3
      <4>2. Asked(kind, photo) \in E
        BY <1>9, <1>12, <4>1, SequenceHas DEF JobsOf
      <4> HIDE DEF E
      <4> QED  BY <1>9, <4>1, <4>2, LacksHas
    <3>4. ASSUME photo \notin coming \cup checked
          PROVE  Lacks(reads, E)
      <4>1. \A job \in E : ~Has(reads, job)
        BY <3>2, <3>4
      <4> HIDE DEF E
      <4> QED  BY <1>9, <4>1, LacksHas
    <3>5. \A job : LastOf(reads, E, job) => Has(reads, job) /\ job \in E
      <4> HIDE DEF E
      <4> QED  BY <1>9, LacksHas
    <3> HIDE DEF E
    <3>6. CASE photo \in coming \cup checked
      BY <1>4, <1>5, <1>11, <1>12, <3>1, <3>2, <3>3, <3>5, <3>6
         DEF Lacks, Asked, Finds, LastOf, ToBeRead, BeingRead, Read, Shown
    <3>7. CASE photo \notin coming \cup checked
      <4>1. row'[photo] = row[photo] /\ row[photo] # None /\ photo \notin unread
        BY <1>1, <1>4, <3>7
      <4>2. ToBeRead(photo) /\ BeingRead(photo) /\ Read(photo) /\ Shown(photo)
        BY <2>1, <4>1 DEF MarksAgree, LastIsFresh
      <4>3. /\ Lacks(jobs, JobsOf(photo))' <=> Lacks(jobs, E)
            /\ \A job : LastOf(jobs, JobsOf(photo), job)' => LastOf(jobs, E, job)
        <5>1. Lacks(reads, E) /\ \A job : ~LastOf(reads, E, job)
          BY <1>9, <3>4, <3>7, LacksHas
        <5>2. /\ Lacks(jobs, JobsOf(photo))' <=> Lacks(jobs', E)
              /\ \A job : LastOf(jobs, JobsOf(photo), job)' <=> LastOf(jobs', E, job)
          BY <3>1 DEF Lacks, LastOf
        <5> QED  BY <1>11, <5>1, <5>2
      <4>4. Reading(photo)' <=> Reading(photo)
        BY <1>1 DEF Reading, Loading
      <4>5. \A kind, stamp : Finds(photo, kind, stamp) => Finds(photo, kind, stamp)'
        BY <1>1, <4>1 DEF Finds, IsLatest
      <4>6. ToBeRead(photo)'
        BY <4>2, <4>3, <4>5 DEF ToBeRead, E
      <4>7. BeingRead(photo)'
        BY <1>1, <4>2, <4>3, <4>4, <4>5 DEF BeingRead, E
      <4>8. Read(photo)'
        BY <1>1, <3>1, <4>1, <4>2, <4>3, <4>4 DEF LastOf, Read, E
      <4>9. Shown(photo)'
        BY <1>1, <3>1, <3>7, <4>1, <4>2, <4>3, <4>4 DEF Lacks, Shown, E
      <4> QED  BY <4>6, <4>7, <4>8, <4>9
    <3> QED  BY <3>6, <3>7
  <2> QED  BY <2>5, <2>6, <2>7, <2>8, <2>9, <2>10 DEF MarksAgree
<1> QED  BY <1>13, <1>14, <1>15, <1>16, <1>17 DEF MarksInv

(* The rows of the subfolders go, with the readings queued for them. *)
LEMMA DropSubfoldersKeeps ==
    ASSUME MarksInv, NEW going \in SUBSET Photos, Reads!DropSubfolders(going)
    PROVE  MarksInv'
<1> DEFINE P == {i \in DOMAIN jobs : jobs[i].photo \notin going}
           kept == Reads!Subsequence(jobs, P)
<1>1. /\ saving = None /\ saving' = None
      /\ jobs' = kept
      /\ pending' = pending - (Len(jobs) - Len(kept))
      /\ row' = [photo \in Photos |-> IF photo \in going THEN None ELSE row[photo]]
      /\ UNCHANGED <<sidecar, writes, loading, results, listing, ownStamps, unread, ignored,
                     untold>>
  BY DEF Reads!DropSubfolders
<1>2. MarkTypes /\ PendingIsRight /\ StampsArePast
  BY DEF MarksInv
<1>3. jobs \in Seq(Reads!Readings) /\ P \in SUBSET DOMAIN jobs
  BY <1>2 DEF MarkTypes
<1>4. \A i \in DOMAIN jobs : i \in P <=> jobs[i].photo \notin going
  OBVIOUS
<1> HIDE DEF P
<1>5. kept = Subsequence(jobs, P)
  BY DEF Reads!Cardinality, Cardinality, Reads!Nth, Nth, Reads!Subsequence, Subsequence
<1>6. kept \in Seq(Reads!Readings)
  BY <1>3, <1>5, SubsequenceIs
<1>7. /\ \A job : Has(kept, job) => Has(jobs, job)
      /\ \A E : (\A i \in DOMAIN jobs : jobs[i] \in E => i \in P)
                    => /\ Lacks(kept, E) => Lacks(jobs, E)
                       /\ \A job : LastOf(kept, E, job) => LastOf(jobs, E, job)
  BY <1>3, <1>5, SubsequenceOrder
<1> HIDE DEF kept
<1>8. /\ \A photo \in going : row'[photo] = None
      /\ \A photo \in Photos \ going : row'[photo] = row[photo]
  BY <1>1
<1>9. MarkTypes'
  BY <1>1, <1>2, <1>6 DEF MarkTypes
<1>10. \A job : Has(jobs, job)' => Has(jobs, job)
  BY <1>1, <1>7 DEF Has
<1>11. \A result : Has(results, result)' <=> Has(results, result)
  BY <1>1 DEF Has
<1>12. PendingIsRight'
  <2>1. Len(jobs) \in Nat /\ Len(kept) \in Nat
    BY <1>3, <1>6, LenProperties
  <2>2. Count(results, OfThisListing) \in Nat
    BY <1>2, CountIs DEF MarkTypes
  <2>3. Count(results, OfThisListing)' = Count(results, OfThisListing)
    BY <1>1 DEF Count, OfThisListing, MarkResults, Reads!Versions
  <2>4. Loading' <=> Loading
    BY <1>1 DEF Loading
  <2>5. pending' = Len(jobs') + (IF Loading' THEN 1 ELSE 0) + Count(results, OfThisListing)'
    BY <1>1, <1>2, <2>1, <2>2, <2>3, <2>4 DEF PendingIsRight
  <2>6. \A job : Has(jobs, job)' => job.listing = listing'
    BY <1>1, <1>2, <1>10 DEF PendingIsRight
  <2>7. \A result : Has(results, result)' => result.listing <= listing'
    BY <1>1, <1>2, <1>11 DEF PendingIsRight
  <2>8. loading' # None => loading'.job.listing <= listing'
    BY <1>1, <1>2 DEF PendingIsRight
  <2> QED  BY <2>5, <2>6, <2>7, <2>8 DEF PendingIsRight
<1>13. StampsArePast'
  BY <1>1, <1>2, <1>8, <1>10, <1>11 DEF StampsArePast, Has
<1>14. SavedIsNew'
  BY <1>1 DEF SavedIsNew
<1>15. ASSUME NEW photo \in Photos
       PROVE  MarksAgree(photo)'
  <2>1. MarksAgree(photo)
    BY DEF MarksInv
  <2>3. row'[photo] = None \/ (row'[photo] = row[photo] /\ photo \notin going)
    BY <1>8
  <2>4. SeenInOrder(photo)'
    BY <1>1, <2>1, <2>3 DEF MarksAgree, SeenInOrder, SeenByLoader, IsLatest, Has, Before
  <2>5. ResultsAreRead(photo)'
    BY <1>1, <2>1 DEF MarksAgree, ResultsAreRead, IsLatest, Has
  <2>6. RowIsRead(photo)'
    BY <1>1, <2>1, <2>3 DEF MarksAgree, RowIsRead, IsLatest
  <2>7. ByHandIsLast(photo)'
    BY <1>1, <2>1, <2>3 DEF MarksAgree, ByHandIsLast, NotBefore
  <2>8. OwnAreTold(photo)'
    BY <1>1, <2>1 DEF MarksAgree, OwnAreTold, IsLatest, Has
  <2>9. LastIsFresh(photo)'
    <3> SUFFICES ASSUME row'[photo] # None, photo \notin unread
                 PROVE  ToBeRead(photo)' /\ BeingRead(photo)' /\ Read(photo)' /\ Shown(photo)'
      BY <1>1 DEF LastIsFresh
    <3>0. row'[photo] = row[photo] /\ photo \notin going
      BY <2>3
    <3> DEFINE E == JobsOf(photo)
    <3>1. JobsOf(photo)' = E /\ ResultsOf(photo)' = ResultsOf(photo)
      BY <1>1 DEF JobsOf, ResultsOf, Reads!Readings
    <3>2. ToBeRead(photo) /\ BeingRead(photo) /\ Read(photo) /\ Shown(photo)
      BY <2>1, <3>0 DEF MarksAgree, LastIsFresh
    <3>3. \A i \in DOMAIN jobs : jobs[i] \in E => i \in P
      BY <1>4, <3>0 DEF JobsOf
    <3>4. /\ Lacks(jobs, E)' => Lacks(jobs, E)
          /\ \A job : LastOf(jobs, E, job)' => LastOf(jobs, E, job)
      <4> HIDE DEF E
      <4>1. /\ Lacks(kept, E) => Lacks(jobs, E)
            /\ \A job : LastOf(kept, E, job) => LastOf(jobs, E, job)
        BY <1>7, <3>3
      <4>2. /\ Lacks(jobs, E)' => Lacks(kept, E)
            /\ \A job : LastOf(jobs, E, job)' => LastOf(kept, E, job)
        BY <1>1, <3>1 DEF Lacks, LastOf, E
      <4> QED  BY <4>1, <4>2
    <3>5. /\ Lacks(jobs, JobsOf(photo))' => Lacks(jobs, JobsOf(photo))
          /\ \A job : LastOf(jobs, JobsOf(photo), job)' => LastOf(jobs, JobsOf(photo), job)
      BY <3>4
    <3>6. Reading(photo)' <=> Reading(photo)
      BY <1>1 DEF Reading, Loading
    <3>7. \A kind, stamp : Finds(photo, kind, stamp) => Finds(photo, kind, stamp)'
      BY <1>1, <3>0 DEF Finds, IsLatest
    <3>8. ToBeRead(photo)'
      BY <3>2, <3>5, <3>7 DEF ToBeRead
    <3>9. BeingRead(photo)'
      BY <1>1, <3>2, <3>5, <3>6, <3>7 DEF BeingRead
    <3>10. Read(photo)'
      BY <1>1, <3>0, <3>1, <3>2, <3>5, <3>6 DEF LastOf, Read
    <3>11. Shown(photo)'
      BY <1>1, <3>0, <3>1, <3>2, <3>5, <3>6 DEF Lacks, Shown
    <3> QED  BY <3>8, <3>9, <3>10, <3>11
  <2> QED  BY <2>4, <2>5, <2>6, <2>7, <2>8, <2>9 DEF MarksAgree
<1> QED  BY <1>9, <1>12, <1>13, <1>14, <1>15 DEF MarksInv

-----------------------------------------------------------------------------
(* The loader's thread. *)

LEMMA TakeKeeps ==
    ASSUME MarksInv, Reads!Take
    PROVE  MarksInv'
<1> DEFINE head == Head(jobs)
           rest == Tail(jobs)
<1>1. /\ loading = None /\ jobs # <<>> /\ jobs' = rest
      /\ loading' = [job |-> head, seen |-> sidecar[head.photo].stamp]
      /\ UNCHANGED <<sidecar, writes, results, row, listing, pending, ownStamps, saving, unread,
                     ignored, untold>>
  BY DEF Reads!Take, Reads!strip
<1>2. MarkTypes /\ PendingIsRight /\ StampsArePast /\ SavedIsNew
  BY DEF MarksInv
<1>3. jobs \in Seq(Reads!Readings)
  BY <1>2 DEF MarkTypes
<1>4. /\ rest \in Seq(Reads!Readings) /\ head \in Reads!Readings
      /\ Len(rest) = Len(jobs) - 1 /\ Len(jobs) \in Nat
      /\ \A job : Has(jobs, job) <=> job = head \/ Has(rest, job)
  BY <1>1, <1>3, TailHas
<1>5. /\ \A E : Lacks(jobs, E) <=> head \notin E /\ Lacks(rest, E)
      /\ \A E, job : LastOf(rest, E, job) => LastOf(jobs, E, job)
      /\ \A E : head \in E /\ Lacks(rest, E) => LastOf(jobs, E, head)
  BY <1>1, <1>3, TailOrder
<1> HIDE DEF head, rest
<1>6. Has(jobs, head) /\ head.photo \in Photos
  BY <1>2, <1>4, WayTypes
<1>7. loading'.job = head /\ loading'.seen = sidecar[head.photo].stamp /\ loading' # None
  BY <1>1, <1>2, <1>4, <1>6, PhotoTypes, NothingAssumption DEF Reads!Loads
<1>8. MarkTypes'
  BY <1>1, <1>2, <1>4, <1>6, PhotoTypes DEF Reads!Loads, MarkTypes
<1>9. \A job : Has(jobs, job)' => Has(jobs, job)
  BY <1>1, <1>4 DEF Has
<1>10. \A result : Has(results, result)' <=> Has(results, result)
  BY <1>1 DEF Has
<1>11. head.listing = listing /\ head.stamp <= writes
  BY <1>2, <1>6 DEF PendingIsRight, StampsArePast
<1>12. PendingIsRight'
  BY <1>1, <1>2, <1>4, <1>7, <1>9, <1>10, <1>11, CountIs
     DEF Count, OfThisListing, MarkResults, Reads!Versions, MarkTypes, Loading, PendingIsRight
<1>13. StampsArePast'
  BY <1>1, <1>2, <1>6, <1>7, <1>9, <1>10, <1>11 DEF StampsArePast, Has
<1>14. SavedIsNew'
  BY <1>1, <1>2 DEF SavedIsNew, IsLatest, NotBefore
<1>15. ASSUME NEW photo \in Photos
       PROVE  MarksAgree(photo)'
  <2>1. MarksAgree(photo)
    BY DEF MarksInv
  <2>2. SeenByLoader(photo)'
    BY <1>1, <1>7 DEF SeenByLoader
  <2>3. SeenInOrder(photo)'
    BY <1>1, <2>1, <2>2 DEF MarksAgree, SeenInOrder, IsLatest, Has, Before
  <2>4. ResultsAreRead(photo)'
    BY <1>1, <2>1 DEF MarksAgree, ResultsAreRead, IsLatest, Has
  <2>5. RowIsRead(photo)'
    BY <1>1, <2>1 DEF MarksAgree, RowIsRead, IsLatest
  <2>6. ByHandIsLast(photo)'
    BY <1>1, <2>1 DEF MarksAgree, ByHandIsLast, NotBefore
  <2>7. OwnAreTold(photo)'
    BY <1>1, <2>1 DEF MarksAgree, OwnAreTold, IsLatest, Has
  <2>8. LastIsFresh(photo)'
    <3> SUFFICES ASSUME row[photo] # None, photo \notin unread
                 PROVE  ToBeRead(photo)' /\ BeingRead(photo)' /\ Read(photo)' /\ Shown(photo)'
      BY <1>1 DEF LastIsFresh
    <3> DEFINE E == JobsOf(photo)
    <3>1. JobsOf(photo)' = E /\ ResultsOf(photo)' = ResultsOf(photo)
      BY <1>1 DEF JobsOf, ResultsOf, Reads!Readings
    <3>2. ToBeRead(photo) /\ BeingRead(photo) /\ Read(photo) /\ Shown(photo)
      BY <2>1 DEF MarksAgree, LastIsFresh
    <3>3. Reading(photo)' <=> head \in E
      BY <1>1, <1>4, <1>7, <1>11 DEF Reading, Loading, JobsOf
    <3>4. ~Reading(photo)
      BY <1>1 DEF Reading, Loading
    <3> HIDE DEF E
    <3>5. /\ Lacks(jobs, JobsOf(photo))' <=> Lacks(rest, E)
          /\ \A job : LastOf(jobs, JobsOf(photo), job)' <=> LastOf(rest, E, job)
      BY <1>1, <3>1 DEF Lacks, LastOf
    <3>6. \A kind, stamp : Finds(photo, kind, stamp) => Finds(photo, kind, stamp)'
      BY <1>1 DEF Finds, IsLatest
    <3>7. ToBeRead(photo)'
      BY <1>5, <3>2, <3>5, <3>6 DEF ToBeRead, E
    <3>8. BeingRead(photo)'
      BY <1>1, <1>5, <1>7, <3>2, <3>3, <3>5 DEF BeingRead, Finds, IsLatest, ToBeRead, E, JobsOf
    <3>9. Read(photo)'
      BY <1>1, <1>5, <3>1, <3>2, <3>3, <3>4, <3>5 DEF Read, LastOf, E
    <3>10. Shown(photo)'
      BY <1>1, <1>5, <3>1, <3>2, <3>3, <3>4, <3>5 DEF Shown, Lacks, E
    <3> QED  BY <3>7, <3>8, <3>9, <3>10
  <2> QED  BY <2>3, <2>4, <2>5, <2>6, <2>7, <2>8 DEF MarksAgree
<1> QED  BY <1>8, <1>12, <1>13, <1>14, <1>15 DEF MarksInv

(* What was read is posted behind all that was read before. *)
LEMMA ExecuteKeeps ==
    ASSUME MarksInv, Reads!Execute
    PROVE  MarksInv'
<1>0. /\ MarkTypes /\ PendingIsRight /\ StampsArePast /\ SavedIsNew
      /\ loading # None
  BY DEF MarksInv, Reads!Execute
<1>1. PICK new \in MarkResults :
             /\ new.kind = loading.job.kind /\ new.listing = loading.job.listing
             /\ new.photo = loading.job.photo /\ new.stamp = loading.seen
             /\ \/ new.marks = sidecar[new.photo].marks
                \/ /\ new.marks = None /\ new.kind = "recheck"
                   /\ loading.job.stamp = loading.seen
             /\ results' = Append(results, new)
  <2> DEFINE job == loading.job
             unchanged == job.kind = "recheck" /\ job.stamp = loading.seen
             new == [kind |-> job.kind, listing |-> job.listing, photo |-> job.photo,
                     stamp |-> loading.seen,
                     marks |-> IF unchanged THEN None ELSE sidecar[job.photo].marks]
  <2>1. results' = Append(results, new)
    BY DEF Reads!Execute
  <2>2. /\ job.photo \in Photos /\ job.kind \in {"recheck", "marks"}
        /\ job.listing \in 0 .. ListingBound /\ loading.seen \in Reads!Versions
    BY <1>0, WayTypes
  <2>3. sidecar[job.photo].marks \in Reads!Versions
    BY <1>0, <2>2, PhotoTypes
  <2> HIDE DEF job
  <2>4. new \in MarkResults
    BY <2>2, <2>3 DEF MarkResults
  <2>5. /\ new.kind = job.kind /\ new.listing = job.listing
        /\ new.photo = job.photo /\ new.stamp = loading.seen
        /\ new.marks = IF unchanged THEN None ELSE sidecar[job.photo].marks
    OBVIOUS
  <2> HIDE DEF new
  <2>6. \/ new.marks = sidecar[new.photo].marks
        \/ /\ new.marks = None /\ new.kind = "recheck"
           /\ job.stamp = loading.seen
    BY <2>5
  <2> QED  BY <2>1, <2>4, <2>5, <2>6 DEF job
<1>2. /\ loading' = None
      /\ UNCHANGED <<sidecar, writes, jobs, row, listing, pending, ownStamps, saving, unread,
                     ignored, untold>>
  BY DEF Reads!Execute, Reads!strip
<1>3. results \in Seq(MarkResults)
  BY <1>0 DEF MarkTypes
<1>4. /\ results' \in Seq(MarkResults)
      /\ \A e : Has(results', e) <=> Has(results, e) \/ e = new
  BY <1>1, <1>3, AppendHas
<1>5. /\ \A E : Lacks(results', E) <=> Lacks(results, E) /\ new \notin E
      /\ \A E, e : LastOf(results', E, e) => IF new \in E THEN e = new ELSE LastOf(results, E, e)
      /\ \A e, f : Before(results', e, f) => Before(results, e, f) \/ (Has(results, e) /\ f = new)
  BY <1>1, <1>3, AppendOrder
<1>6. MarkTypes'
  BY <1>0, <1>2, <1>4 DEF MarkTypes
<1>7. \A result : Has(results, result)' => Has(results, result) \/ result = new
  BY <1>4 DEF Has
<1>8. new.photo \in Photos /\ new.listing <= listing /\ new.stamp <= writes
  BY <1>0, <1>1, WayTypes DEF PendingIsRight, StampsArePast
<1>9. PendingIsRight'
  <2>1. OfThisListing' = OfThisListing
    BY <1>2 DEF OfThisListing, MarkResults, Reads!Versions
  <2>2. Loading <=> new \in OfThisListing
    BY <1>0, <1>1 DEF Loading, OfThisListing
  <2> DEFINE E == OfThisListing
  <2>3. Count(results, OfThisListing)' = Count(results', E)
    BY <2>1 DEF Count
  <2> HIDE DEF E
  <2>4. Count(results', E) = Count(results, E) + (IF new \in E THEN 1 ELSE 0)
    BY <1>1, <1>3, CountIs
  <2>5. Count(results, E) \in Nat
    BY <1>3, CountIs
  <2>6. Len(jobs) \in Nat
    BY <1>0, LenProperties DEF MarkTypes
  <2>7. ~Loading'
    BY <1>2 DEF Loading
  <2>8. pending' = Len(jobs') + (IF Loading' THEN 1 ELSE 0) + Count(results, OfThisListing)'
    BY <1>0, <1>2, <2>2, <2>3, <2>4, <2>5, <2>6, <2>7 DEF PendingIsRight, E
  <2>9. \A job : Has(jobs, job)' => job.listing = listing'
    BY <1>0, <1>2 DEF PendingIsRight, Has
  <2>10. \A result : Has(results, result)' => result.listing <= listing'
    BY <1>0, <1>2, <1>7, <1>8 DEF PendingIsRight
  <2> QED  BY <1>2, <2>8, <2>9, <2>10 DEF PendingIsRight
<1>10. StampsArePast'
  BY <1>0, <1>2, <1>7, <1>8 DEF StampsArePast, Has
<1>11. SavedIsNew'
  BY <1>0, <1>2 DEF SavedIsNew, IsLatest, NotBefore
<1>12. sidecar[new.photo].marks # None
  BY <1>0, <1>8, PhotoTypes, VersionsAreNumbers
<1>13. ASSUME NEW photo \in Photos
       PROVE  MarksAgree(photo)'
  <2>1. MarksAgree(photo)
    BY DEF MarksInv
  <2>2. \A stamp : IsLatest(photo, stamp)' <=> IsLatest(photo, stamp)
    BY <1>2 DEF IsLatest
  <2>3. SeenByLoader(photo)'
    BY <1>2 DEF SeenByLoader
  <2>4. SeenByLoader(photo) /\ new.photo = photo => new.stamp = sidecar[photo].stamp
    BY <1>0, <1>1 DEF SeenByLoader
  <2>5. SeenInOrder(photo)'
    BY <1>2, <1>5, <1>7, <2>1, <2>2, <2>3, <2>4 DEF Before, MarksAgree, SeenInOrder, IsLatest, Has
  <2>6. ResultsAreRead(photo)'
    BY <1>1, <1>2, <1>7, <1>12, <2>1, <2>2 DEF MarksAgree, ResultsAreRead
  <2>7. RowIsRead(photo)'
    BY <1>2, <2>1 DEF MarksAgree, RowIsRead, IsLatest
  <2>8. ByHandIsLast(photo)'
    BY <1>2, <2>1 DEF MarksAgree, ByHandIsLast, NotBefore
  <2>9. OwnAreTold(photo)'
    BY <1>2, <2>1 DEF MarksAgree, OwnAreTold, IsLatest, Has
  <2>10. LastIsFresh(photo)'
    <3> SUFFICES ASSUME row[photo] # None, photo \notin unread
                 PROVE  ToBeRead(photo)' /\ BeingRead(photo)' /\ Read(photo)' /\ Shown(photo)'
      BY <1>2 DEF LastIsFresh
    <3>1. ToBeRead(photo) /\ BeingRead(photo) /\ Read(photo) /\ Shown(photo)
      BY <2>1 DEF MarksAgree, LastIsFresh
    <3> DEFINE E == ResultsOf(photo)
    <3>2. JobsOf(photo)' = JobsOf(photo) /\ ResultsOf(photo)' = E
      BY <1>2 DEF JobsOf, ResultsOf, Reads!Readings, MarkResults, Reads!Versions
    <3>3. Reading(photo) <=> new \in E
      BY <1>0, <1>1 DEF Reading, Loading, ResultsOf
    <3>4. ~Reading(photo)'
      BY <1>2 DEF Reading, Loading
    <3> HIDE DEF E
    <3>5. /\ Lacks(jobs, JobsOf(photo))' <=> Lacks(jobs, JobsOf(photo))
          /\ \A job : LastOf(jobs, JobsOf(photo), job)' <=> LastOf(jobs, JobsOf(photo), job)
      BY <1>2, <3>2 DEF Lacks, LastOf
    <3>6. /\ Lacks(results, ResultsOf(photo))' <=> Lacks(results', E)
          /\ \A result : LastOf(results, ResultsOf(photo), result)' <=> LastOf(results', E, result)
      BY <3>2 DEF Lacks, LastOf
    <3>7. ToBeRead(photo)'
      BY <1>2, <3>1, <3>5 DEF ToBeRead, Finds, IsLatest
    <3>8. BeingRead(photo)'
      BY <3>4 DEF BeingRead
    <3>9. Read(photo)'
      BY <1>1, <1>2, <1>5, <1>12, <3>1, <3>3, <3>5, <3>6
         DEF Read, BeingRead, E, ResultsOf, Finds, IsLatest
    <3>10. Shown(photo)'
      BY <1>2, <1>5, <3>1, <3>3, <3>5, <3>6 DEF Shown, E
    <3> QED  BY <3>7, <3>8, <3>9, <3>10
  <2> QED  BY <2>5, <2>6, <2>7, <2>8, <2>9, <2>10 DEF MarksAgree
<1> QED  BY <1>6, <1>9, <1>10, <1>11, <1>13 DEF MarksInv

-----------------------------------------------------------------------------
(* receive(): what came is the first of the results. *)

HeadResult == Head(results)

(* A row shows what came, or stays as nothing that it wants has come. *)
Took(photo) ==
    /\ row'[photo] = None <=> row[photo] = None
    /\ photo \in untold' => photo \in untold
    /\ row[photo] # None =>
        /\ row[photo].loaded => row'[photo].loaded
        /\ \/ /\ row'[photo] = row[photo]
              /\ photo \in ignored' <=> photo \in ignored
              /\ HeadResult \in ResultsOf(photo) => HeadResult.marks = None
           \/ /\ HeadResult \in ResultsOf(photo)
              /\ row'[photo].stamp = HeadResult.stamp /\ row'[photo].loaded

ResultsMoveUp ==
    /\ results # <<>> /\ results' = Tail(results)
    /\ saving = None
    /\ UNCHANGED <<sidecar, writes, jobs, loading, listing, ownStamps, saving, unread>>

LEMMA HeadResultIs ==
    ASSUME MarksInv, ResultsMoveUp
    PROVE  /\ results \in Seq(MarkResults) /\ HeadResult \in MarkResults
           /\ HeadResult.photo \in Photos /\ HeadResult.stamp \in Reads!Versions
           /\ HeadResult.kind \in {"recheck", "marks"}
           /\ HeadResult.marks \in Reads!Versions \cup {None}
           /\ HeadResult.stamp <= writes /\ Has(results, HeadResult)
           /\ \A photo \in Photos :
                 HeadResult \in ResultsOf(photo)
                     <=> HeadResult.photo = photo /\ HeadResult.listing = listing
<1>1. MarkTypes /\ StampsArePast
  BY DEF MarksInv
<1>2. results \in Seq(MarkResults) /\ results # <<>>
  BY <1>1 DEF MarkTypes, ResultsMoveUp
<1>3. HeadResult \in MarkResults /\ Has(results, HeadResult)
  BY <1>2, TailHas DEF HeadResult
<1>4. /\ HeadResult.photo \in Photos /\ HeadResult.stamp \in Reads!Versions
      /\ HeadResult.kind \in {"recheck", "marks"}
      /\ HeadResult.marks \in Reads!Versions \cup {None}
  BY <1>1, <1>3, WayTypes
<1>5. HeadResult.stamp <= writes
  BY <1>1, <1>3 DEF StampsArePast
<1>6. \A photo \in Photos :
            HeadResult \in ResultsOf(photo)
                <=> HeadResult.photo = photo /\ HeadResult.listing = listing
  BY <1>3 DEF ResultsOf
<1> QED  BY <1>2, <1>3, <1>4, <1>5, <1>6

LEMMA ReceiveTypes ==
    ASSUME MarksInv, ResultsMoveUp,
           row' \in [Photos -> Reads!Rows \cup {None}],
           \A photo \in Photos :
               row'[photo] # None => /\ row'[photo].stamp <= writes
                                     /\ (row'[photo].byHand => row'[photo].marks <= writes),
           pending' = pending - (IF HeadResult.listing = listing THEN 1 ELSE 0)
    PROVE  MarkTypes' /\ PendingIsRight' /\ StampsArePast' /\ SavedIsNew'
<1>1. MarkTypes /\ PendingIsRight /\ StampsArePast
  BY DEF MarksInv
<1>2. /\ results # <<>> /\ results' = Tail(results) /\ saving = None
      /\ UNCHANGED <<sidecar, writes, jobs, loading, listing, ownStamps, saving, unread>>
  BY DEF ResultsMoveUp
<1>3. results \in Seq(MarkResults) /\ HeadResult \in MarkResults
  BY HeadResultIs
<1>4. /\ Tail(results) \in Seq(MarkResults)
      /\ \A result : Has(Tail(results), result) => Has(results, result)
  BY <1>2, <1>3, TailHas
<1>5. \A result : Has(results, result)' => Has(results, result)
  BY <1>2, <1>4 DEF Has
<1>6. MarkTypes'
  BY <1>1, <1>2, <1>4 DEF MarkTypes
<1>7. PendingIsRight'
  <2> DEFINE E == OfThisListing
  <2>1. OfThisListing' = E
    BY <1>2 DEF OfThisListing, MarkResults, Reads!Versions
  <2>2. HeadResult \in E <=> HeadResult.listing = listing
    BY <1>3 DEF OfThisListing
  <2> HIDE DEF E
  <2>3. Count(results, OfThisListing)' = Count(Tail(results), E)
    BY <1>2, <2>1 DEF Count
  <2>4. Count(results, E) = Count(Tail(results), E) + (IF HeadResult \in E THEN 1 ELSE 0)
    BY <1>2, <1>3, CountTail DEF HeadResult
  <2>5. Count(Tail(results), E) \in Nat
    BY <1>4, CountIs
  <2>6. Len(jobs) \in Nat
    BY <1>1, LenProperties DEF MarkTypes
  <2>7. Loading' <=> Loading
    BY <1>2 DEF Loading
  <2>8. pending' = Len(jobs') + (IF Loading' THEN 1 ELSE 0) + Count(results, OfThisListing)'
    <3>1. pending = Len(jobs) + (IF Loading THEN 1 ELSE 0) + Count(results, E)
      BY <1>1 DEF PendingIsRight, E
    <3>2. pending' = pending - (IF HeadResult \in E THEN 1 ELSE 0) /\ jobs' = jobs
      BY <1>2, <2>2
    <3> QED  BY <2>3, <2>4, <2>5, <2>6, <2>7, <3>1, <3>2
  <2>9. \A job : Has(jobs, job)' => job.listing = listing'
    BY <1>1, <1>2 DEF PendingIsRight, Has
  <2>10. \A result : Has(results, result)' => result.listing <= listing'
    BY <1>1, <1>2, <1>5 DEF PendingIsRight
  <2>11. loading' # None => loading'.job.listing <= listing'
    BY <1>1, <1>2 DEF PendingIsRight
  <2> QED  BY <2>8, <2>9, <2>10, <2>11 DEF PendingIsRight
<1>8. StampsArePast'
  BY <1>1, <1>2, <1>5 DEF StampsArePast, Has
<1>9. SavedIsNew'
  BY <1>2 DEF SavedIsNew
<1> QED  BY <1>6, <1>7, <1>8, <1>9

LEMMA ReceiveAgrees ==
    ASSUME MarksInv, ResultsMoveUp, NEW photo \in Photos, Took(photo),
           RowIsRead(photo)', ByHandIsLast(photo)'
    PROVE  MarksAgree(photo)'
<1> DEFINE head == HeadResult
           E == ResultsOf(photo)
<1>1. /\ results # <<>> /\ results' = Tail(results)
      /\ UNCHANGED <<sidecar, writes, jobs, loading, listing, ownStamps, saving, unread>>
  BY DEF ResultsMoveUp
<1>2. results \in Seq(MarkResults) /\ Has(results, head)
  BY HeadResultIs
<1>3. head \in E => head.photo = photo
  BY HeadResultIs
<1>4. \A result : Has(results', result) => Has(results, result)
  BY <1>1, <1>2, TailHas
<1>5. /\ Lacks(results, E) <=> head \notin E /\ Lacks(results', E)
      /\ \A result : LastOf(results', E, result) => LastOf(results, E, result)
      /\ head \in E /\ Lacks(results', E) => LastOf(results, E, head)
      /\ \A result, later : Before(results', result, later) => Before(results, result, later)
      /\ \A later : Has(results', later) => Before(results, head, later)
  BY <1>1, <1>2, TailOrder DEF HeadResult
<1>6. MarksAgree(photo)
  BY DEF MarksInv
<1>7. SeenInOrder(photo) /\ ResultsAreRead(photo) /\ RowIsRead(photo) /\ OwnAreTold(photo)
      /\ LastIsFresh(photo)
  BY <1>6 DEF MarksAgree
<1>8. E' = E /\ JobsOf(photo)' = JobsOf(photo)
  BY <1>1 DEF ResultsOf, JobsOf, Reads!Readings, MarkResults, Reads!Versions
<1>9. /\ row'[photo] # None => row[photo] # None
      /\ photo \in untold' => photo \in untold
      /\ row[photo] # None =>
          /\ row'[photo] # None
          /\ row[photo].loaded => row'[photo].loaded
          /\ row'[photo].stamp = row[photo].stamp
                \/ (head \in E /\ row'[photo].stamp = head.stamp)
  BY DEF Took
<1>10. row[photo] # None =>
          /\ head \notin E => row'[photo] = row[photo] /\ (photo \in ignored' <=> photo \in ignored)
          /\ head \in E => \/ row'[photo] = row[photo] /\ head.marks = None
                           \/ row'[photo].stamp = head.stamp /\ row'[photo].loaded
  BY DEF Took
<1> HIDE DEF head, E
<1>11. \A stamp : IsLatest(photo, stamp)' <=> IsLatest(photo, stamp)
  BY <1>1 DEF IsLatest
<1>12. \A result : Has(results, result)' => Has(results, result)
  BY <1>4 DEF Has
<1>13. SeenByLoader(photo)' <=> SeenByLoader(photo)
  BY <1>1 DEF SeenByLoader
(* Once a row has the latest, what is still to come is the latest too. *)
<1>14. ASSUME row'[photo] # None, IsLatest(photo, row'[photo].stamp)
       PROVE  /\ \A result : Has(results', result) /\ result.photo = photo =>
                     result.stamp = sidecar[photo].stamp
              /\ SeenByLoader(photo)
  BY <1>2, <1>3, <1>4, <1>5, <1>7, <1>9, <1>14 DEF SeenInOrder
<1>15. SeenInOrder(photo)'
  <2>1. row'[photo] # None /\ IsLatest(photo, row[photo].stamp)' =>
            /\ \A result : Has(results, result)' /\ result.photo = photo =>
                   result.stamp = sidecar'[photo].stamp
            /\ SeenByLoader(photo)'
    BY <1>1, <1>13, <1>14 DEF IsLatest, Has
  <2>2. ASSUME NEW result, Has(results, result)', result.photo = photo,
               IsLatest(photo, result.stamp)'
        PROVE  /\ SeenByLoader(photo)'
               /\ \A later : Before(results, result, later)' /\ later.photo = photo =>
                      later.stamp = sidecar'[photo].stamp
    <3>1. Has(results, result) /\ IsLatest(photo, result.stamp)
      BY <1>11, <1>12, <2>2
    <3>2. \A later : Before(results, result, later)' => Before(results, result, later)
      BY <1>5 DEF Before
    <3> QED  BY <1>1, <1>7, <1>13, <2>2, <3>1, <3>2 DEF SeenInOrder
  <2> QED  BY <2>1, <2>2 DEF SeenInOrder
<1>16. ResultsAreRead(photo)'
  BY <1>1, <1>7, <1>11, <1>12 DEF ResultsAreRead
<1>17. OwnAreTold(photo)'
  BY <1>1, <1>7, <1>9, <1>11 DEF Has, OwnAreTold
<1>18. LastIsFresh(photo)'
  <2> SUFFICES ASSUME row'[photo] # None, photo \notin unread
               PROVE  ToBeRead(photo)' /\ BeingRead(photo)' /\ Read(photo)' /\ Shown(photo)'
    BY <1>1 DEF LastIsFresh
  <2>1. ToBeRead(photo) /\ BeingRead(photo) /\ Read(photo) /\ Shown(photo) /\ row[photo] # None
    BY <1>7, <1>9 DEF LastIsFresh
  <2>2. Reading(photo)' <=> Reading(photo)
    BY <1>1 DEF Reading, Loading
  <2>3. /\ Lacks(jobs, JobsOf(photo))' <=> Lacks(jobs, JobsOf(photo))
        /\ \A job : LastOf(jobs, JobsOf(photo), job)' <=> LastOf(jobs, JobsOf(photo), job)
    BY <1>1, <1>8 DEF Lacks, LastOf
  <2>4. /\ Lacks(results, ResultsOf(photo))' <=> Lacks(results', E)
        /\ \A result : LastOf(results, ResultsOf(photo), result)' <=> LastOf(results', E, result)
    BY <1>8 DEF Lacks, LastOf, E
  (* What a row has seen of the latest it has still seen. *)
  <2>5. ASSUME NEW stamp, IsLatest(photo, stamp), row[photo].stamp = stamp
        PROVE  row'[photo].stamp = stamp
    BY <1>2, <1>3, <1>7, <1>9, <2>1, <2>5 DEF SeenInOrder, IsLatest
  <2>6. \A kind, stamp : Finds(photo, kind, stamp) => Finds(photo, kind, stamp)'
    BY <1>1, <1>9, <2>1, <2>5 DEF Finds, IsLatest
  <2>7. ToBeRead(photo)'
    BY <2>1, <2>3, <2>6 DEF ToBeRead
  <2>8. BeingRead(photo)'
    BY <1>1, <2>1, <2>2, <2>3, <2>6 DEF BeingRead
  <2>9. Read(photo)'
    BY <1>1, <1>5, <1>9, <2>1, <2>2, <2>3, <2>4, <2>5 DEF Read, E, IsLatest
  <2>10. Shown(photo)'
    <3> SUFFICES ASSUME Lacks(jobs, JobsOf(photo)), ~Reading(photo), Lacks(results', E),
                        photo \notin ignored'
                 PROVE  /\ row'[photo].loaded
                        /\ sidecar[photo].stamp # 0 =>
                               row'[photo].marks = sidecar[photo].marks /\ photo \notin untold'
      BY <1>1, <2>2, <2>3, <2>4 DEF Shown
    <3>1. CASE head \notin E
      BY <1>5, <1>9, <1>10, <2>1, <3>1 DEF E, Shown
    <3>2. CASE head \in E
      BY <1>1, <1>2, <1>3, <1>5, <1>7, <1>9, <1>10, <2>1, <3>2, HeadResultIs
         DEF E, Read, ResultsAreRead, head, RowIsRead, IsLatest
    <3> QED  BY <3>1, <3>2
  <2> QED  BY <2>7, <2>8, <2>9, <2>10
<1> QED  BY <1>15, <1>16, <1>17, <1>18 DEF MarksAgree

LEMMA UselessKeeps ==
    ASSUME MarksInv, Reads!ReceiveStale \/ Reads!ReceiveUseless
    PROVE  MarksInv'
<1>1. ResultsMoveUp /\ UNCHANGED <<row, ignored, untold>>
  BY DEF Reads!ReceiveStale, Reads!ReceiveUseless, Reads!ReceiveCurrent, Reads!Receive,
         ResultsMoveUp
<1>2. HeadResult = Reads!Result
  BY DEF HeadResult, Reads!Result
<1>3. pending' = pending - (IF HeadResult.listing = listing THEN 1 ELSE 0)
  BY <1>2, LenProperties, CountIs
     DEF Reads!ReceiveStale, MarksInv, MarkTypes, PendingIsRight, Reads!ReceiveUseless,
         Reads!ReceiveCurrent
<1>4. MarkTypes /\ StampsArePast
  BY DEF MarksInv
<1>5. row' \in [Photos -> Reads!Rows \cup {None}]
  BY <1>1, <1>4 DEF MarkTypes
<1>6. \A photo \in Photos :
            row'[photo] # None =>
                /\ row'[photo].stamp <= writes
                /\ (row'[photo].byHand => row'[photo].marks <= writes)
  BY <1>1, <1>4 DEF StampsArePast
<1>7. MarkTypes' /\ PendingIsRight' /\ StampsArePast' /\ SavedIsNew'
  BY <1>1, <1>3, <1>5, <1>6, ReceiveTypes
<1>8. ASSUME NEW photo \in Photos
      PROVE  MarksAgree(photo)'
  <2>1. RowIsRead(photo) /\ ByHandIsLast(photo)
    BY DEF MarksInv, MarksAgree
  <2>2. sidecar' = sidecar
    BY <1>1 DEF ResultsMoveUp
  <2>3. RowIsRead(photo)' /\ ByHandIsLast(photo)'
    BY <1>1, <2>1, <2>2 DEF RowIsRead, ByHandIsLast, NotBefore, IsLatest
  <2>4. row[photo] # None /\ HeadResult \in ResultsOf(photo) => HeadResult.marks = None
    BY <1>1, <1>2, HeadResultIs DEF Reads!ReceiveStale, Reads!ReceiveUseless, Reads!Listed
  <2>5. Took(photo)
    BY <1>1, <2>4 DEF Took
  <2> QED  BY <1>1, <2>3, <2>5, ReceiveAgrees
<1> QED  BY <1>7, <1>8 DEF MarksInv

(* What a result that is shown makes of the row of its photograph. *)
LEMMA ShownKeeps ==
    ASSUME MarksInv, ResultsMoveUp,
           HeadResult.listing = listing, row[HeadResult.photo] # None,
           pending' = pending - 1,
           NEW new \in Reads!Rows, row' = [row EXCEPT ![HeadResult.photo] = new],
           new.stamp = HeadResult.stamp, new.loaded, new.byHand => new.marks <= writes,
           \A photo \in Photos : photo # HeadResult.photo =>
               /\ photo \in ignored' <=> photo \in ignored
               /\ photo \in untold' <=> photo \in untold,
           HeadResult.photo \in untold' => HeadResult.photo \in untold,
           new.byHand => NotBefore(HeadResult.photo, new.marks),
           IsLatest(HeadResult.photo, HeadResult.stamp) =>
               /\ new.marks = sidecar[HeadResult.photo].marks \/ HeadResult.photo \in ignored'
               /\ HeadResult.photo \notin untold'
    PROVE  MarksInv'
<1>1. MarkTypes /\ StampsArePast
  BY DEF MarksInv
<1>2. /\ HeadResult.photo \in Photos /\ HeadResult.stamp <= writes
      /\ \A photo \in Photos : HeadResult \in ResultsOf(photo) <=> HeadResult.photo = photo
  BY HeadResultIs
<1>3. new # None
  BY NothingAssumption
<1>4. row \in [Photos -> Reads!Rows \cup {None}]
  BY <1>1 DEF MarkTypes
<1>5. /\ row' \in [Photos -> Reads!Rows \cup {None}]
      /\ row'[HeadResult.photo] = new
      /\ \A photo \in Photos : photo # HeadResult.photo => row'[photo] = row[photo]
  BY <1>2, <1>4
<1>6. \A photo \in Photos :
            row'[photo] # None =>
                /\ row'[photo].stamp <= writes
                /\ (row'[photo].byHand => row'[photo].marks <= writes)
  BY <1>1, <1>2, <1>5 DEF StampsArePast
<1>7. MarkTypes' /\ PendingIsRight' /\ StampsArePast' /\ SavedIsNew'
  BY <1>5, <1>6, ReceiveTypes
<1>8. sidecar' = sidecar
  BY DEF ResultsMoveUp
<1>9. ASSUME NEW photo \in Photos
      PROVE  MarksAgree(photo)'
  BY <1>2, <1>3, <1>5, <1>8, ReceiveAgrees
     DEF MarksInv, MarksAgree, RowIsRead, IsLatest, ByHandIsLast, NotBefore, Took
<1> QED  BY <1>7, <1>9 DEF MarksInv

LEMMA ReceiveMarksKeeps ==
    ASSUME MarksInv, Reads!ReceiveMarks
    PROVE  MarksInv'
<1> DEFINE old == row[HeadResult.photo]
           new == IF old.byHand
                  THEN [old EXCEPT !.stamp = HeadResult.stamp]
                  ELSE [old EXCEPT !.stamp = HeadResult.stamp, !.marks = HeadResult.marks,
                                   !.loaded = TRUE]
<1>1. HeadResult = Reads!Result
  BY DEF HeadResult, Reads!Result
<1>2. /\ ResultsMoveUp /\ pending' = pending - 1
      /\ HeadResult.listing = listing /\ HeadResult.kind = "marks"
      /\ HeadResult.photo \in Reads!Listed
      /\ row' = [row EXCEPT ![HeadResult.photo] = new]
      /\ ignored' = IF /\ old.byHand /\ HeadResult.marks # old.marks
                       /\ HeadResult.stamp > old.marks
                    THEN ignored \cup {HeadResult.photo} ELSE ignored
      /\ untold' = untold \ {HeadResult.photo}
  BY <1>1 DEF Reads!ReceiveMarks, Reads!ReceiveCurrent, Reads!Receive, ResultsMoveUp
<1>3. MarkTypes /\ StampsArePast
  BY DEF MarksInv
<1>4. /\ HeadResult.photo \in Photos /\ HeadResult.stamp \in Reads!Versions
      /\ HeadResult.marks \in Reads!Versions \cup {None}
      /\ HeadResult.stamp <= writes /\ Has(results, HeadResult)
  BY <1>2, HeadResultIs
<1>5. old # None
  BY <1>2 DEF Reads!Listed
<1>6. old \in Reads!Rows
  BY <1>3, <1>4, <1>5 DEF MarkTypes
<1>7. RowIsRead(HeadResult.photo) /\ ByHandIsLast(HeadResult.photo)
      /\ ResultsAreRead(HeadResult.photo)
  BY <1>4 DEF MarksInv, MarksAgree
<1>8. HeadResult.marks # None
      /\ (IsLatest(HeadResult.photo, HeadResult.stamp)
              => HeadResult.marks = sidecar[HeadResult.photo].marks)
  BY <1>2, <1>4, <1>7 DEF ResultsAreRead
<1>9. HeadResult.marks \in Reads!Versions
  BY <1>4, <1>8
<1>10. old.byHand \in BOOLEAN /\ old.marks \in Reads!Versions /\ old.loaded \in BOOLEAN
  BY <1>6 DEF Reads!Rows
<1>11. old.byHand => old.loaded /\ NotBefore(HeadResult.photo, old.marks) /\ old.marks <= writes
  BY <1>3, <1>4, <1>5, <1>7 DEF RowIsRead, ByHandIsLast, StampsArePast
<1>12. /\ new \in Reads!Rows
       /\ new.stamp = HeadResult.stamp /\ new.byHand = old.byHand /\ new.loaded
       /\ new.marks = IF old.byHand THEN old.marks ELSE HeadResult.marks
  <2>1. CASE old.byHand
    <3>1. new = [old EXCEPT !.stamp = HeadResult.stamp]
      BY <2>1
    <3> HIDE DEF old, new
    <3> QED  BY <1>4, <1>6, <1>11, <2>1, <3>1 DEF Reads!Rows
  <2>2. CASE ~old.byHand
    <3>1. new = [old EXCEPT !.stamp = HeadResult.stamp, !.marks = HeadResult.marks,
                            !.loaded = TRUE]
      BY <2>2
    <3> HIDE DEF old, new
    <3> QED  BY <1>4, <1>6, <1>9, <2>2, <3>1 DEF Reads!Rows
  <2> QED  BY <2>1, <2>2
<1> HIDE DEF new
<1>13. IsLatest(HeadResult.photo, HeadResult.stamp) =>
           new.marks = sidecar[HeadResult.photo].marks \/ HeadResult.photo \in ignored'
  <2> SUFFICES ASSUME IsLatest(HeadResult.photo, HeadResult.stamp), old.byHand,
                      HeadResult.photo \notin ignored'
               PROVE  old.marks = sidecar[HeadResult.photo].marks
    BY <1>8, <1>12
  <2>1. HeadResult.marks = old.marks \/ ~(HeadResult.stamp > old.marks)
    BY <1>2
  <2>2. /\ old.marks <= HeadResult.stamp
        /\ old.marks = HeadResult.stamp => old.marks = sidecar[HeadResult.photo].marks
    BY <1>11 DEF NotBefore, IsLatest
  <2>3. old.marks \in Nat /\ HeadResult.stamp \in Nat
    BY <1>4, <1>10, VersionsAreNumbers
  <2>4. HeadResult.stamp > old.marks \/ old.marks = HeadResult.stamp
    BY <2>2, <2>3
  <2> HIDE DEF old
  <2> QED  BY <1>8, <2>1, <2>2, <2>4
<1>14. /\ \A photo \in Photos : photo # HeadResult.photo =>
              /\ photo \in ignored' <=> photo \in ignored
              /\ photo \in untold' <=> photo \in untold
       /\ HeadResult.photo \notin untold'
  BY <1>2
<1> QED  BY <1>2, <1>5, <1>11, <1>12, <1>13, <1>14, ShownKeeps

(* A second look that found a change: of the program's own stamps no change was untold. *)
LEMMA ReceiveChangeKeeps ==
    ASSUME MarksInv, Reads!ReceiveChange
    PROVE  MarksInv'
<1> DEFINE new == [marks |-> HeadResult.marks, loaded |-> TRUE, byHand |-> FALSE,
                   stamp |-> HeadResult.stamp]
<1>1. HeadResult = Reads!Result
  BY DEF HeadResult, Reads!Result
<1>2. /\ ResultsMoveUp /\ pending' = pending - 1
      /\ HeadResult.listing = listing
      /\ HeadResult.photo \in Reads!Listed /\ HeadResult.marks # None
      /\ row' = [row EXCEPT ![HeadResult.photo] = new]
      /\ ignored' = ignored \ {HeadResult.photo}
      /\ untold' = IF Reads!Contains(ownStamps[HeadResult.photo], HeadResult.stamp)
                   THEN untold ELSE untold \ {HeadResult.photo}
  BY <1>1 DEF Reads!ReceiveChange, Reads!ReceiveCurrent, Reads!Receive, ResultsMoveUp
<1>3. MarkTypes
  BY DEF MarksInv
<1>4. /\ HeadResult.photo \in Photos /\ HeadResult.stamp \in Reads!Versions
      /\ HeadResult.marks \in Reads!Versions \cup {None} /\ Has(results, HeadResult)
  BY <1>2, HeadResultIs
<1>5. row[HeadResult.photo] # None
  BY <1>2 DEF Reads!Listed
<1>6. ResultsAreRead(HeadResult.photo) /\ OwnAreTold(HeadResult.photo)
  BY <1>4 DEF MarksInv, MarksAgree
<1>7. /\ new \in Reads!Rows
      /\ new.stamp = HeadResult.stamp /\ ~new.byHand /\ new.loaded /\ new.marks = HeadResult.marks
  BY <1>2, <1>4 DEF Reads!Rows
<1> HIDE DEF new
<1>8. IsLatest(HeadResult.photo, HeadResult.stamp) =>
          new.marks = sidecar[HeadResult.photo].marks
  BY <1>2, <1>4, <1>6, <1>7 DEF ResultsAreRead
<1>9. IsLatest(HeadResult.photo, HeadResult.stamp) => HeadResult.photo \notin untold'
  BY <1>2, <1>3, <1>4, <1>6, PhotoTypes DEF Reads!Contains, Has, OwnAreTold
<1>10. /\ \A photo \in Photos : photo # HeadResult.photo =>
              /\ photo \in ignored' <=> photo \in ignored
              /\ photo \in untold' <=> photo \in untold
       /\ HeadResult.photo \in untold' => HeadResult.photo \in untold
  BY <1>2
<1> QED  BY <1>2, <1>5, <1>7, <1>8, <1>9, <1>10, ShownKeeps

LEMMA MarksUnchanged ==
    ASSUME MarksInv,
           UNCHANGED <<sidecar, writes, row, listing, jobs, loading, results, pending, ownStamps,
                       saving, unread, ignored, untold>>
    PROVE  MarksInv'
<1>1. MarkTypes /\ PendingIsRight /\ StampsArePast /\ SavedIsNew
  BY DEF MarksInv
<1>2. MarkTypes'
  BY <1>1 DEF MarkTypes
<1>3. PendingIsRight'
  BY <1>1 DEF OfThisListing, MarkResults, Reads!Versions, Loading, Has, Count, PendingIsRight
<1>4. StampsArePast'
  BY <1>1 DEF Has, StampsArePast
<1>5. SavedIsNew'
  BY <1>1 DEF SavedIsNew, IsLatest, NotBefore
<1>6. ASSUME NEW photo \in Photos
      PROVE  MarksAgree(photo)'
  BY StillAgrees DEF MarksInv
<1> QED  BY <1>2, <1>3, <1>4, <1>5, <1>6 DEF MarksInv

LEMMA MarksInvHolds == MarksInv /\ Reads!Next => MarksInv'
<1> SUFFICES ASSUME MarksInv, Reads!Next
             PROVE  MarksInv'
  OBVIOUS
<1>1. ASSUME NEW photo \in Photos, Reads!ForeignWrite(photo)
      PROVE  MarksInv'
  BY <1>1, ForeignWriteKeeps
<1>2. ASSUME NEW photo \in Photos, Reads!WriteMarks(photo) \/ Reads!WriteSettings(photo)
      PROVE  MarksInv'
  BY <1>2, OwnWriteKeeps
<1>3. ASSUME NEW coming \in SUBSET Photos, NEW going \in SUBSET Photos,
             Reads!Merge(coming, going)
      PROVE  MarksInv'
  BY <1>3, MergeKeeps
<1>4. ASSUME NEW going \in SUBSET Photos, Reads!DropSubfolders(going)
      PROVE  MarksInv'
  BY <1>4, DropSubfoldersKeeps
<1>5. ASSUME Reads!Written \/ Reads!ListFolder \/ Reads!Take \/ Reads!Execute
      PROVE  MarksInv'
  BY <1>5, WrittenKeeps, ListFolderKeeps, TakeKeeps, ExecuteKeeps
<1>6. ASSUME \/ Reads!ReceiveStale \/ Reads!ReceiveUseless
             \/ Reads!ReceiveMarks \/ Reads!ReceiveChange
      PROVE  MarksInv'
  BY <1>6, UselessKeeps, ReceiveMarksKeeps, ReceiveChangeKeeps
<1> QED  BY <1>1, <1>2, <1>3, <1>4, <1>5, <1>6 DEF Reads!Next

(* In the parts of the run that are not about marks nothing is listed and nothing awaited. *)
NoMarks == row = [photo \in Photos |-> None] /\ pending = 0

LEMMA MarksStep ==
    ASSUME part = "marks" => MarksInv, part # "marks" => NoMarks, [MCNext]_MCvars
    PROVE  /\ (part = "marks" => MarksInv)'
           /\ (part # "marks" => NoMarks)'
<1>1. CASE InMarks
  BY <1>1, MarksInvHolds DEF InMarks
<1>2. CASE InChanges \/ InWalks \/ InPictures
  BY <1>2 DEF InChanges, InWalks, InPictures, InFolder, readVars, NoMarks
<1>3. CASE UNCHANGED MCvars
  BY <1>3, MarksUnchanged DEF MCvars, readVars, NoMarks
<1> QED  BY <1>1, <1>2, <1>3 DEF MCNext

(* When the loader has nothing left to do and its results have come, none is owed, and every row
   shows the marks of its sidecar, whoever wrote them and in whatever order that was seen, but for
   what no reading was asked for yet (ShotModel, FolderWatcher::noteOwnWrite). *)
THEOREM MarksOfTheSidecar == MCSpec => []ChangesAreSeen
<1> DEFINE Good == /\ part = "marks" => MarksInv
                   /\ part # "marks" => NoMarks
<1>1. MCInit => Good
  BY MarksInitHolds DEF MCInit, Reads!Init, NoMarks
<1>2. Good /\ [MCNext]_MCvars => Good'
  BY MarksStep
<1>3. Good => ChangesAreSeen
  <2> SUFFICES ASSUME Good, jobs = <<>>, loading = None, results = <<>>, saving = None
               PROVE  /\ pending = 0
                      /\ \A photo \in Reads!Listed \ (unread \cup ignored) :
                            /\ row[photo].loaded
                            /\ sidecar[photo].stamp # 0 =>
                                   row[photo].marks = sidecar[photo].marks /\ photo \notin untold
    BY DEF ChangesAreSeen, Reads!ChangesAreSeen
  <2>1. CASE part = "marks"
    <3>1. MarksInv
      BY <2>1
    <3>2. pending = 0
      <4>1. Len(jobs) = 0 /\ ~Loading
        BY DEF Loading
      <4>2. Count(results, OfThisListing) = 0
        BY <3>1, CountIs DEF MarksInv, MarkTypes
      <4> QED  BY <3>1, <4>1, <4>2 DEF MarksInv, PendingIsRight
    <3>3. ASSUME NEW photo \in Reads!Listed, photo \notin unread, photo \notin ignored
          PROVE  /\ row[photo].loaded
                 /\ sidecar[photo].stamp # 0 =>
                        row[photo].marks = sidecar[photo].marks /\ photo \notin untold
      BY <3>1, <3>3
         DEF Reads!Listed, MarksInv, MarksAgree, LastIsFresh, Lacks, Reading, Loading, Shown
    <3> QED  BY <3>2, <3>3
  <2>2. CASE part # "marks"
    BY <2>2 DEF NoMarks, Reads!Listed
  <2> QED  BY <2>1, <2>2
<1> QED  BY <1>1, <1>2, <1>3, PTL DEF MCSpec

-----------------------------------------------------------------------------
(* The order of the directories. *)

LEMMA FolderFacts ==
    /\ Folders \subseteq Nat
    /\ IsFiniteSet(Folders)
    /\ Parent \in [Folders -> Folders]
    /\ \A each \in Folders : Parent[each] <= each
BY FoldersAssumption

LEMMA ParentIs ==
    ASSUME NEW each \in Folders
    PROVE  /\ each \in Nat /\ Parent[each] \in Folders /\ Parent[each] \in Nat
           /\ Parent[each] <= each
           /\ Parent[each] # each => Parent[each] < each
<1>1. each \in Nat /\ Parent[each] \in Folders /\ Parent[each] <= each
  BY FolderFacts
<1>2. Parent[each] \in Nat
  BY <1>1, FolderFacts
<1> QED  BY <1>1, <1>2

(* Every set of numbers that has 0 and the next of each has all. *)
LEMMA EveryNumber ==
    ASSUME NEW P, P \subseteq Nat, 0 \in P, \A n \in P : n + 1 \in P
    PROVE  P = Nat
<1> DEFINE T == Nat \ P
           R == {p \in Nat \X Nat : p[1] < p[2]}
<1>1. SUFFICES ASSUME T # {} PROVE FALSE
  OBVIOUS
<1>2. IsWellFoundedOn(R, Nat)
  BY NatLessThanWellFounded DEF OpToRel
<1>3. PICK x \in T : \A y \in T : <<y, x>> \notin R
  <2> HIDE DEF R, T
  <2>1. T \subseteq Nat
    BY DEF T
  <2> QED  BY <1>1, <1>2, <2>1, WFMin
<1>4. x - 1 \in P
  <2>1. x - 1 \in Nat
    OBVIOUS
  <2>2. <<x - 1, x>> \in R
    BY <2>1
  <2> QED  BY <2>1, <2>2, <1>3
<1> QED  BY <1>4

(* The directories up to one, and their depths. *)
NotAfter(n) == {each \in Folders : each <= n}

Deep(F, each) == IF Parent[each] = each THEN 0 ELSE 1 + F[Parent[each]]

LEMMA DepthIs ==
    /\ Depth \in [Folders -> Nat]
    /\ \A each \in Folders : Depth[each] = Deep(Depth, each)
<1> DEFINE IsDepth(n, F) == /\ F \in [NotAfter(n) -> Nat]
                            /\ \A each \in NotAfter(n) : F[each] = Deep(F, each)
           P == {n \in Nat : \E F : IsDepth(n, F)}
<1>parents. \A n \in Nat : \A each \in NotAfter(n) :
               /\ each \in Folders /\ each \in Nat /\ Parent[each] \in NotAfter(n)
               /\ Parent[each] # each => Parent[each] < each
  BY ParentIs DEF NotAfter
<1>1. 0 \in P
  <2> DEFINE F == [each \in NotAfter(0) |-> 0]
  <2>1. \A each \in NotAfter(0) : Parent[each] = each
    BY ParentIs DEF NotAfter
  <2>2. IsDepth(0, F)
    BY <2>1 DEF Deep
  <2> QED  BY <2>2
<1>2. ASSUME NEW n \in P
      PROVE  n + 1 \in P
  <2>1. PICK F : IsDepth(n, F)
    OBVIOUS
  <2> DEFINE G == [each \in NotAfter(n + 1) |->
                     IF each <= n THEN F[each] ELSE Deep(F, each)]
  <2>2. n \in Nat /\ n + 1 \in Nat
    OBVIOUS
  <2>3. \A each \in NotAfter(n + 1) :
           /\ each <= n => each \in NotAfter(n) /\ Parent[each] \in NotAfter(n)
           /\ Parent[each] # each => Parent[each] \in NotAfter(n) /\ Parent[each] <= n
    <3> SUFFICES ASSUME NEW each \in NotAfter(n + 1)
                 PROVE  /\ each <= n => each \in NotAfter(n) /\ Parent[each] \in NotAfter(n)
                        /\ Parent[each] # each => Parent[each] \in NotAfter(n) /\ Parent[each] <= n
      OBVIOUS
    <3>1. each \in Nat /\ each \in Folders /\ each <= n + 1 /\ Parent[each] \in Folders
          /\ Parent[each] \in Nat /\ Parent[each] <= each
      BY FolderFacts DEF NotAfter
    <3> QED  BY <2>2, <3>1 DEF NotAfter
  <2>4. ASSUME NEW each \in NotAfter(n + 1)
        PROVE  G[each] \in Nat /\ G[each] = Deep(G, each)
    BY <1>parents, <2>1, <2>2, <2>3 DEF Deep
  <2>5. IsDepth(n + 1, G)
    BY <2>4
  <2> HIDE DEF G
  <2> QED  BY <2>2, <2>5
<1>3. P = Nat
  <2> HIDE DEF P
  <2>1. P \subseteq Nat
    BY DEF P
  <2> QED  BY <1>1, <1>2, <2>1, EveryNumber
<1>4. PICK n \in Nat : NotAfter(n) = Folders
  <2>1. CASE Folders = {}
    BY <2>1 DEF NotAfter
  <2>2. CASE Folders # {}
    <3>1. \E n \in Nat : \A each \in Folders : each <= n
      <4> DEFINE Q == {m \in Nat : \A S \in SUBSET Folders :
                                      Cardinality(S) = m => \E n \in Nat : \A each \in S : each <= n}
      <4>1. 0 \in Q
        BY FolderFacts, FS_Subset, FS_EmptySet
      <4>2. ASSUME NEW m \in Q
            PROVE  m + 1 \in Q
        <5> SUFFICES ASSUME NEW S \in SUBSET Folders, Cardinality(S) = m + 1
                     PROVE  \E n \in Nat : \A each \in S : each <= n
          OBVIOUS
        <5>1. IsFiniteSet(S)
          BY FolderFacts, FS_Subset
        <5>2. S # {}
          BY FS_EmptySet
        <5>3. PICK x \in S : TRUE
          BY <5>2
        <5>4. Cardinality(S \ {x}) = m
          BY <5>1, FS_RemoveElement
        <5>5. PICK k \in Nat : \A each \in S \ {x} : each <= k
          BY <5>4
        <5>6. x \in Nat /\ \A each \in S : each \in Nat
          BY FolderFacts
        <5>7. CASE x <= k
          BY <5>5, <5>7
        <5>8. CASE k <= x
          BY <5>5, <5>6, <5>8
        <5> QED  BY <5>6, <5>7, <5>8
      <4>3. Q = Nat
        <5> HIDE DEF Q
        <5>1. Q \subseteq Nat
          BY DEF Q
        <5> QED  BY <4>1, <4>2, <5>1, EveryNumber
      <4>4. Cardinality(Folders) \in Nat
        BY FolderFacts, FS_CardinalityType
      <4> QED  BY <4>3, <4>4
    <3> QED  BY <3>1 DEF NotAfter
  <2> QED  BY <2>1, <2>2
<1>5. PICK F : IsDepth(n, F)
  BY <1>3
<1> DEFINE IsDeep(G) == G = [each \in Folders |-> Deep(G, each)]
<1>6. F \in [Folders -> Nat] /\ \A each \in Folders : F[each] = Deep(F, each)
  BY <1>4, <1>5
<1>6a. IsDeep(F)
  BY <1>6
<1>7. Depth = CHOOSE G : IsDeep(G)
  BY DEF Depth, Deep
<1>8. IsDeep(Depth)
  <2> HIDE DEF IsDeep
  <2> QED  BY <1>6a, <1>7
<1>9. \A each \in Folders : Depth[each] = Deep(Depth, each)
  BY <1>8
<1>10. \A m \in Nat : \A each \in Folders : each <= m => Depth[each] \in Nat
  <2> DEFINE Q == {m \in Nat : \A each \in Folders : each <= m => Depth[each] \in Nat}
  <2>1. 0 \in Q
    <3>1. \A each \in Folders : each <= 0 => Parent[each] = each
      BY ParentIs
    <3> QED  BY <1>9, <3>1 DEF Deep
  <2>2. ASSUME NEW m \in Q
        PROVE  m + 1 \in Q
    BY <1>9, ParentIs DEF Deep
  <2>3. Q = Nat
    <3> HIDE DEF Q
    <3>1. Q \subseteq Nat
      BY DEF Q
    <3> QED  BY <2>1, <2>2, <3>1, EveryNumber
  <2> QED  BY <2>3
<1>11. \A each \in Folders : Depth[each] \in Nat
  BY <1>10, FolderFacts
<1>12. Depth \in [Folders -> Nat]
  BY <1>8, <1>11
<1> QED  BY <1>9, <1>12

(* It is a strict order of the directories, in which any two can be told apart. *)
LEMMA PrecedesOrders ==
    /\ \A each \in Folders : ~Precedes(each, each)
    /\ \A x, y, z \in Folders : Precedes(x, y) /\ Precedes(y, z) => Precedes(x, z)
    /\ \A x, y \in Folders : x = y \/ Precedes(x, y) \/ Precedes(y, x)
<1>1. \A each \in Folders : each \in Nat /\ Depth[each] \in Nat
  BY FolderFacts, DepthIs
<1> QED  BY <1>1 DEF Precedes

(* The place of each in a set of directories is its own, and every place is taken. *)
LEMMA RankIs ==
    ASSUME NEW S \in SUBSET Folders
    PROVE  /\ IsFiniteSet(S) /\ Cardinality(S) \in Nat
           /\ \A each \in S : Rank(S, each) \in 0 .. Cardinality(S) - 1
           /\ \A x, y \in S : Precedes(x, y) <=> Rank(S, x) < Rank(S, y)
           /\ \A x, y \in S : Rank(S, x) = Rank(S, y) => x = y
           /\ \A k \in 0 .. Cardinality(S) - 1 : \E each \in S : Rank(S, each) = k
<1> DEFINE n == Cardinality(S)
           rank == [each \in S |-> Rank(S, each)]
<1>1. IsFiniteSet(S) /\ n \in Nat
  BY FolderFacts, FS_Subset, FS_CardinalityType
<1>2. \A each \in S : Rank(S, each) \in 0 .. n - 1
  <2> SUFFICES ASSUME NEW each \in S
               PROVE  Rank(S, each) \in 0 .. n - 1
    OBVIOUS
  <2> DEFINE U == {other \in S : Precedes(other, each)}
  <2>1. U \in SUBSET S /\ each \notin U
    BY PrecedesOrders
  <2>2. Rank(S, each) = Cardinality(U)
    BY DEF Rank
  <2> HIDE DEF U
  <2>3. Cardinality(U) \in Nat /\ Cardinality(U) <= n /\ (n = Cardinality(U) => S = U)
    BY <1>1, <2>1, FS_Subset, FS_CardinalityType
  <2> QED  BY <1>1, <2>1, <2>2, <2>3
<1>3. \A x, y \in S : Precedes(x, y) => Rank(S, x) < Rank(S, y)
  <2> SUFFICES ASSUME NEW x \in S, NEW y \in S, Precedes(x, y)
               PROVE  Rank(S, x) < Rank(S, y)
    OBVIOUS
  <2> DEFINE U == {other \in S : Precedes(other, x)}
             V == {other \in S : Precedes(other, y)}
  <2>1. U \in SUBSET V /\ x \in V /\ x \notin U /\ V \in SUBSET S
    BY PrecedesOrders
  <2>2. Rank(S, x) = Cardinality(U) /\ Rank(S, y) = Cardinality(V)
    BY DEF Rank
  <2> HIDE DEF U, V
  <2>3. IsFiniteSet(V)
    BY <1>1, <2>1, FS_Subset
  <2>4. Cardinality(U) <= Cardinality(V) /\ (Cardinality(V) = Cardinality(U) => V = U)
    BY <2>1, <2>3, FS_Subset
  <2>5. Rank(S, x) \in Nat /\ Rank(S, y) \in Nat
    BY <1>1, <1>2
  <2> QED  BY <2>1, <2>2, <2>4, <2>5
<1>4. \A x, y \in S : Rank(S, x) = Rank(S, y) => x = y
  BY <1>1, <1>2, <1>3, PrecedesOrders
<1>5. \A x, y \in S : Rank(S, x) < Rank(S, y) => Precedes(x, y)
  BY <1>1, <1>2, <1>3, PrecedesOrders
<1>6. \A k \in 0 .. n - 1 : \E each \in S : Rank(S, each) = k
  <2> DEFINE T == 0 .. n - 1
  <2>1. IsFiniteSet(T) /\ Cardinality(T) = n
    BY <1>1, FS_Interval
  <2>2. rank \in Injection(S, T)
    BY <1>2, <1>4 DEF Injection, IsInjective
  <2> HIDE DEF T, rank
  <2>3. rank \in Surjection(S, T)
    BY <2>1, <2>2, FS_Injection
  <2>4. \A k \in T : \E each \in S : rank[each] = k
    BY <2>3 DEF Surjection
  <2> QED  BY <2>4 DEF T, rank
<1> QED  BY <1>1, <1>2, <1>3, <1>4, <1>5, <1>6

(* A set in order has each of its directories once. *)
LEMMA RankedIs ==
    ASSUME NEW S \in SUBSET Folders
    PROVE  /\ Ranked(S) \in Seq(S)
           /\ Len(Ranked(S)) = Cardinality(S)
           /\ DOMAIN Ranked(S) = 1 .. Cardinality(S)
           /\ Cardinality(S) \in Nat
           /\ \A k, l \in 1 .. Cardinality(S) : Ranked(S)[k] = Ranked(S)[l] => k = l
           /\ \A each \in S : \E k \in 1 .. Cardinality(S) : Ranked(S)[k] = each
<1> DEFINE n == Cardinality(S)
<1>1. n \in Nat
  BY RankIs
<1>2. \A k \in 1 .. n : Ranked(S)[k] \in S /\ Rank(S, Ranked(S)[k]) = k - 1
  BY <1>1, RankIs DEF Ranked
<1>3. Ranked(S) \in [1 .. n -> S]
  BY <1>2 DEF Ranked
<1>4. DOMAIN Ranked(S) = 1 .. n /\ Ranked(S) \in Seq(S) /\ Len(Ranked(S)) = n
  BY <1>1, <1>3
<1>5. \A each \in S : \E k \in 1 .. n : Ranked(S)[k] = each
  <2> SUFFICES ASSUME NEW each \in S
               PROVE  \E k \in 1 .. n : Ranked(S)[k] = each
    OBVIOUS
  <2>1. Rank(S, each) \in 0 .. n - 1
    BY RankIs
  <2>2. Rank(S, each) + 1 \in 1 .. n /\ Rank(S, each) + 1 - 1 = Rank(S, each)
    BY <1>1, <2>1
  <2>3. Ranked(S)[Rank(S, each) + 1] = each
    BY <1>2, <2>2, RankIs
  <2> QED  BY <2>2, <2>3
<1>6. \A k, l \in 1 .. n : Ranked(S)[k] = Ranked(S)[l] => k = l
  BY <1>1, <1>2
<1> QED  BY <1>1, <1>4, <1>5, <1>6

(* The first so many of a set are as many, or all, and come before the others. *)
LEMMA FirstOfIs ==
    ASSUME NEW S \in SUBSET Folders, NEW number \in Nat
    PROVE  /\ FirstOf(S, number) \subseteq S
           /\ Cardinality(FirstOf(S, number)) \in Nat
           /\ Cardinality(FirstOf(S, number)) <= number
           /\ Cardinality(S) <= number => FirstOf(S, number) = S
           /\ FirstOf(S, number) # S => Cardinality(FirstOf(S, number)) = number
           /\ \A x \in FirstOf(S, number), y \in S \ FirstOf(S, number) : Precedes(x, y)
<1> DEFINE n == Cardinality(S)
           F == FirstOf(S, number)
           rank == [each \in F |-> Rank(S, each)]
<1>1. n \in Nat /\ IsFiniteSet(S) /\ F \in SUBSET S
  BY RankIs DEF FirstOf
<1>2. \A each \in S : Rank(S, each) \in 0 .. n - 1
  BY RankIs
<1>3. \A each \in S : each \in F <=> Rank(S, each) < number
  BY DEF FirstOf
<1>4. n <= number => F = S
  BY <1>1, <1>2, <1>3
<1>5. \A x \in F, y \in S \ F : Precedes(x, y)
  BY <1>1, <1>2, <1>3, RankIs
<1>6. number <= n => Cardinality(F) = number
  <2> SUFFICES ASSUME number <= n
               PROVE  Cardinality(F) = number
    OBVIOUS
  <2> DEFINE T == 0 .. number - 1
  <2>1. IsFiniteSet(T) /\ Cardinality(T) = number
    BY FS_Interval
  <2>2. rank \in [F -> T] /\ \A x, y \in F : rank[x] = rank[y] => x = y
    BY <1>1, <1>2, <1>3, RankIs
  <2>3. \A k \in T : \E each \in F : rank[each] = k
    <3> SUFFICES ASSUME NEW k \in T
                 PROVE  \E each \in F : rank[each] = k
      OBVIOUS
    <3>1. k \in 0 .. n - 1 /\ k < number
      BY <1>1
    <3>2. PICK each \in S : Rank(S, each) = k
      BY <3>1, RankIs
    <3>3. each \in F
      BY <1>3, <3>1, <3>2
    <3> QED  BY <3>2, <3>3
  <2>4. rank \in Injection(F, T) /\ rank \in Surjection(F, T)
    BY <2>2, <2>3 DEF Injection, IsInjective, Surjection
  <2> HIDE DEF T, rank, F
  <2>5. Cardinality(F) = Cardinality(T)
    BY <2>1, <2>4, FS_Injection
  <2> QED  BY <2>1, <2>5
<1>7. Cardinality(F) \in Nat /\ Cardinality(F) <= n
  <2> HIDE DEF F
  <2> QED  BY <1>1, FS_Subset, FS_CardinalityType
<1>8. Cardinality(F) <= number
  <2> HIDE DEF F
  <2>1. number <= n \/ n <= number
    BY <1>1
  <2> QED  BY <1>1, <1>6, <1>7, <2>1
<1>9. F # S => Cardinality(F) = number
  BY <1>1, <1>4, <1>6
<1> QED  BY <1>1, <1>4, <1>5, <1>7, <1>8, <1>9

-----------------------------------------------------------------------------
(* The budget keeps its books in order: no directory has two places, and those refused left theirs
   to none. *)
BudgetFits(budget) ==
    /\ budget \in Budgets
    /\ InOrder(budget)
    /\ budget.watched \cap budget.refused = {}
    /\ budget.waiting \cap budget.refused = {}
    /\ budget.cap + Cardinality(budget.refused) <= MaxWatched

Known(budget) == budget.watched \cup budget.waiting \cup budget.refused

LEMMA BudgetIs ==
    ASSUME NEW budget \in Budgets
    PROVE  /\ budget.cap \in Nat
           /\ budget.watched \subseteq Folders /\ budget.waiting \subseteq Folders
           /\ budget.refused \subseteq Folders
           /\ budget = [cap |-> budget.cap, watched |-> budget.watched,
                        waiting |-> budget.waiting, refused |-> budget.refused]
           /\ IsFiniteSet(budget.watched) /\ Cardinality(budget.watched) \in Nat
           /\ IsFiniteSet(budget.waiting) /\ Cardinality(budget.waiting) \in Nat
           /\ IsFiniteSet(budget.refused) /\ Cardinality(budget.refused) \in Nat
<1>1. /\ budget.cap \in Nat
      /\ budget.watched \in SUBSET Folders /\ budget.waiting \in SUBSET Folders
      /\ budget.refused \in SUBSET Folders
      /\ budget = [cap |-> budget.cap, watched |-> budget.watched,
                   waiting |-> budget.waiting, refused |-> budget.refused]
  BY DEF Budgets
<1> QED  BY <1>1, RankIs

LEMMA MaxIsNumber == MaxWatched \in Nat
BY ListerAssumption

LEMMA EmptyFits == BudgetFits(EmptyBudget(MaxWatched)) /\ Known(EmptyBudget(MaxWatched)) = {}
<1>1. Cardinality({}) = 0
  BY FS_EmptySet
<1>2. EmptyBudget(MaxWatched) \in Budgets
  BY MaxIsNumber DEF EmptyBudget, Budgets
<1>3. /\ EmptyBudget(MaxWatched).watched = {} /\ EmptyBudget(MaxWatched).waiting = {}
      /\ EmptyBudget(MaxWatched).refused = {} /\ EmptyBudget(MaxWatched).cap = MaxWatched
  BY DEF EmptyBudget
<1> QED  BY <1>1, <1>2, <1>3, MaxIsNumber DEF BudgetFits, Known, InOrder

(* Those promoted are the first of those that wait.  Those who came to wait out of order are no
   more than there is room for. *)
LEMMA PromoteFits ==
    ASSUME NEW budget \in Budgets, NEW late \in SUBSET Folders,
           Cardinality(budget.watched) + Cardinality(late) <= budget.cap,
           budget.watched \cap budget.waiting = {},
           \A x \in budget.watched, y \in budget.waiting : y \in late \/ Precedes(x, y)
    PROVE  /\ Promote(budget) \in Budgets
           /\ InOrder(Promote(budget))
           /\ budget.watched \subseteq Promote(budget).watched
           /\ Promote(budget).watched \subseteq budget.watched \cup budget.waiting
           /\ Promote(budget).cap = budget.cap
           /\ Promote(budget).refused = budget.refused
           /\ Promote(budget).watched \cup Promote(budget).waiting
                  = budget.watched \cup budget.waiting
           /\ Promote(budget).waiting \subseteq budget.waiting
<1>1. /\ budget.cap \in Nat
      /\ budget.watched \in SUBSET Folders /\ budget.waiting \in SUBSET Folders
      /\ budget.refused \in SUBSET Folders
      /\ IsFiniteSet(budget.watched) /\ Cardinality(budget.watched) \in Nat
  BY BudgetIs
<1>2. Cardinality(late) \in Nat /\ IsFiniteSet(late)
  BY RankIs
<1> DEFINE room == budget.cap - Cardinality(budget.watched)
           promoted == FirstOf(budget.waiting, room)
<1>3. room \in Nat /\ Cardinality(late) <= room
  BY <1>1, <1>2
<1>4. Promote(budget) = [budget EXCEPT !.watched = @ \cup promoted, !.waiting = @ \ promoted]
  <2>1. CASE Cardinality(budget.watched) < budget.cap
    BY <2>1 DEF Promote
  <2>2. CASE ~(Cardinality(budget.watched) < budget.cap)
    <3>1. room = 0
      BY <1>1, <1>3, <2>2
    <3> QED  BY <2>2, <3>1 DEF Promote
  <2> QED  BY <2>1, <2>2
<1> HIDE DEF room
<1>5. /\ promoted \subseteq budget.waiting
      /\ Cardinality(promoted) \in Nat
      /\ Cardinality(promoted) <= room
      /\ promoted # budget.waiting => Cardinality(promoted) = room
      /\ \A x \in promoted, y \in budget.waiting \ promoted : Precedes(x, y)
  BY <1>1, <1>3, FirstOfIs
<1> HIDE DEF promoted
<1>6. /\ Promote(budget).watched = budget.watched \cup promoted
      /\ Promote(budget).waiting = budget.waiting \ promoted
      /\ Promote(budget).cap = budget.cap
      /\ Promote(budget).refused = budget.refused
      /\ Promote(budget) \in Budgets
  BY <1>1, <1>4, <1>5 DEF Budgets
<1>7. IsFiniteSet(promoted)
  BY <1>1, <1>5, RankIs
<1>8. Cardinality(budget.watched \cup promoted) = Cardinality(budget.watched) + Cardinality(promoted)
  BY <1>1, <1>5, <1>7, FS_Union, FS_EmptySet
<1>9. Cardinality(Promote(budget).watched) <= Promote(budget).cap
  BY <1>1, <1>5, <1>6, <1>8 DEF room
<1>10. Promote(budget).waiting # {} => Cardinality(Promote(budget).watched) = Promote(budget).cap
  BY <1>1, <1>5, <1>6, <1>8 DEF room
<1>11. ASSUME NEW x \in Promote(budget).watched, NEW y \in Promote(budget).waiting
       PROVE  Precedes(x, y)
  <2>1. y \in budget.waiting /\ y \notin promoted /\ y \in Folders
    BY <1>1, <1>6
  <2>2. CASE x \in promoted
    BY <1>5, <2>1, <2>2
  <2>3. CASE x \in budget.watched /\ y \notin late
    BY <2>1, <2>3
  <2>4. CASE x \in budget.watched /\ y \in late
    <3>1. Cardinality(promoted) = room
      BY <1>5, <2>1
    <3>2. PICK z \in promoted : z \notin late
      BY <1>2, <1>3, <1>5, <2>1, <2>4, <3>1, FS_Subset
    <3>3. z \in budget.waiting /\ Precedes(x, z) /\ Precedes(z, y)
      BY <1>5, <2>1, <2>4, <3>2
    <3>4. x \in Folders /\ z \in Folders
      BY <1>1, <2>4, <3>3
    <3> QED  BY <2>1, <3>3, <3>4, PrecedesOrders
  <2> QED  BY <1>6, <2>2, <2>3, <2>4
<1>12. InOrder(Promote(budget))
  BY <1>9, <1>10, <1>11 DEF InOrder
<1> QED  BY <1>5, <1>6, <1>12

LEMMA AddFits ==
    ASSUME NEW budget, BudgetFits(budget), NEW each \in Folders
    PROVE  /\ BudgetFits(AddToBudget(budget, each))
           /\ Known(AddToBudget(budget, each)) = Known(budget) \cup {each}
           /\ AddToBudget(budget, each).watched \subseteq budget.watched \cup {each}
           /\ AddToBudget(budget, each).refused = budget.refused
<1>1. CASE each \in Known(budget)
  BY <1>1 DEF AddToBudget, Known
<1>2. CASE each \notin Known(budget)
  <2> DEFINE all == budget.watched \cup {each}
             first == FirstOf(all, budget.cap)
  <2>1. /\ budget \in Budgets /\ InOrder(budget) /\ budget.cap \in Nat
        /\ budget.watched \in SUBSET Folders /\ budget.waiting \in SUBSET Folders
        /\ budget.refused \in SUBSET Folders
        /\ IsFiniteSet(budget.watched) /\ Cardinality(budget.watched) \in Nat
    BY BudgetIs DEF BudgetFits
  <2>2. AddToBudget(budget, each) =
            [budget EXCEPT !.watched = first, !.waiting = @ \cup (all \ first)]
    BY <1>2 DEF AddToBudget, Known
  <2>3. all \in SUBSET Folders
    BY <2>1
  <2>4. Cardinality(all) = Cardinality(budget.watched) + 1
    BY <1>2, <2>1, FS_AddElement DEF Known
  <2>5. /\ first \subseteq all
        /\ Cardinality(first) \in Nat
        /\ Cardinality(first) <= budget.cap
        /\ Cardinality(all) <= budget.cap => first = all
        /\ first # all => Cardinality(first) = budget.cap
        /\ \A x \in first, y \in all \ first : Precedes(x, y)
    <3> HIDE DEF all
    <3> QED  BY <2>1, <2>3, FirstOfIs
  <2> HIDE DEF first
  <2>6. /\ AddToBudget(budget, each).watched = first
        /\ AddToBudget(budget, each).waiting = budget.waiting \cup (all \ first)
        /\ AddToBudget(budget, each).refused = budget.refused
        /\ AddToBudget(budget, each).cap = budget.cap
        /\ AddToBudget(budget, each) \in Budgets
    BY <2>1, <2>2, <2>3, <2>5 DEF Budgets
  <2>7. /\ Cardinality(budget.watched) <= budget.cap
        /\ budget.waiting # {} => Cardinality(budget.watched) = budget.cap
        /\ \A x \in budget.watched, y \in budget.waiting : Precedes(x, y)
    BY <2>1 DEF InOrder
  <2>8. budget.waiting # {} => first # all
    <3> HIDE DEF all
    <3> SUFFICES ASSUME budget.waiting # {}, first = all
                 PROVE  FALSE
      OBVIOUS
    <3>1. Cardinality(all) <= budget.cap /\ Cardinality(budget.watched) = budget.cap
      BY <2>5, <2>7
    <3> QED  BY <2>1, <2>4, <3>1
  <2>9. AddToBudget(budget, each).waiting # {} => Cardinality(first) = budget.cap
    BY <2>5, <2>6, <2>8
  <2>10. ASSUME NEW x \in first, NEW y \in budget.waiting
         PROVE  Precedes(x, y)
    <3>1. CASE x \in budget.watched
      BY <2>7, <3>1
    <3>2. CASE x = each /\ x \notin budget.watched
      <4>1. PICK z \in all : z \notin first
        BY <2>5, <2>8
      <4>2. z \in budget.watched
        BY <3>2, <4>1
      <4>3. Precedes(x, z) /\ Precedes(z, y)
        BY <2>5, <2>7, <4>1, <4>2
      <4> QED  BY <2>1, <3>2, <4>2, <4>3, PrecedesOrders
    <3> QED  BY <2>5, <3>1, <3>2
  <2>11. InOrder(AddToBudget(budget, each))
    BY <2>5, <2>6, <2>9, <2>10 DEF InOrder
  <2>12. Known(AddToBudget(budget, each)) = Known(budget) \cup {each}
    BY <2>5, <2>6 DEF Known
  <2>13. BudgetFits(AddToBudget(budget, each))
    BY <1>2, <2>5, <2>6, <2>11 DEF BudgetFits, Known
  <2> QED  BY <2>5, <2>6, <2>12, <2>13
<1> QED  BY <1>1, <1>2

LEMMA RemoveFits ==
    ASSUME NEW budget, BudgetFits(budget), NEW folders
    PROVE  /\ BudgetFits(RemoveFromBudget(budget, folders))
           /\ Known(RemoveFromBudget(budget, folders)) = Known(budget) \ folders
           /\ budget.watched \ folders \subseteq RemoveFromBudget(budget, folders).watched
           /\ RemoveFromBudget(budget, folders).refused = budget.refused \ folders
<1> DEFINE left == [budget EXCEPT !.watched = @ \ folders,
                                  !.waiting = @ \ folders,
                                  !.refused = @ \ folders]
<1>1. /\ budget \in Budgets /\ InOrder(budget) /\ budget.cap \in Nat
      /\ budget.watched \in SUBSET Folders /\ budget.waiting \in SUBSET Folders
      /\ budget.refused \in SUBSET Folders
      /\ IsFiniteSet(budget.watched) /\ Cardinality(budget.watched) \in Nat
      /\ IsFiniteSet(budget.refused) /\ Cardinality(budget.refused) \in Nat
  BY BudgetIs DEF BudgetFits
<1>2. /\ left \in Budgets
      /\ left.watched = budget.watched \ folders /\ left.waiting = budget.waiting \ folders
      /\ left.refused = budget.refused \ folders /\ left.cap = budget.cap
  BY <1>1 DEF Budgets
<1>3. RemoveFromBudget(budget, folders) = Promote(left)
  BY DEF RemoveFromBudget
<1>4. /\ Cardinality(budget.watched) <= budget.cap
      /\ \A x \in budget.watched, y \in budget.waiting : Precedes(x, y)
  BY <1>1 DEF InOrder
<1>5. budget.watched \cap budget.waiting = {}
  BY <1>1, <1>4, PrecedesOrders
<1>6. /\ Cardinality(left.watched) \in Nat /\ Cardinality(left.watched) <= Cardinality(budget.watched)
      /\ Cardinality(left.refused) \in Nat /\ Cardinality(left.refused) <= Cardinality(budget.refused)
  <2>1. left.watched \in SUBSET budget.watched /\ left.refused \in SUBSET budget.refused
    BY <1>2
  <2> HIDE DEF left
  <2> QED  BY <1>1, <2>1, FS_Subset, FS_CardinalityType
<1> HIDE DEF left
<1>7. /\ Promote(left) \in Budgets
      /\ InOrder(Promote(left))
      /\ left.watched \subseteq Promote(left).watched
      /\ Promote(left).watched \subseteq left.watched \cup left.waiting
      /\ Promote(left).cap = left.cap
      /\ Promote(left).refused = left.refused
      /\ Promote(left).watched \cup Promote(left).waiting = left.watched \cup left.waiting
      /\ Promote(left).waiting \subseteq left.waiting
  <2>1. {} \in SUBSET Folders /\ Cardinality({}) = 0
    BY FS_EmptySet
  <2>2. Cardinality(left.watched) + Cardinality({}) <= left.cap
    BY <1>1, <1>2, <1>4, <1>6, <2>1
  <2>3. \A x \in left.watched, y \in left.waiting : y \in {} \/ Precedes(x, y)
    BY <1>2, <1>4
  <2>4. left.watched \cap left.waiting = {}
    BY <1>2, <1>5
  <2> QED  BY <1>2, <2>1, <2>2, <2>3, <2>4, PromoteFits
<1>8. Known(Promote(left)) = Known(budget) \ folders
  BY <1>2, <1>7 DEF Known
<1>9. Promote(left).cap + Cardinality(Promote(left).refused) <= MaxWatched
  BY <1>1, <1>2, <1>6, <1>7, MaxIsNumber DEF BudgetFits
<1>10. BudgetFits(Promote(left))
  BY <1>2, <1>7, <1>9 DEF BudgetFits
<1> QED  BY <1>2, <1>3, <1>7, <1>8, <1>10

LEMMA RefuseFits ==
    ASSUME NEW budget, BudgetFits(budget), NEW each \in budget.watched
    PROVE  /\ BudgetFits(RefuseInBudget(budget, each))
           /\ Known(RefuseInBudget(budget, each)) = Known(budget)
           /\ RefuseInBudget(budget, each).watched = budget.watched \ {each}
           /\ RefuseInBudget(budget, each).refused = budget.refused \cup {each}
           /\ RefuseInBudget(budget, each).waiting = budget.waiting
<1> DEFINE after == RefuseInBudget(budget, each)
<1>1. /\ budget \in Budgets /\ InOrder(budget) /\ budget.cap \in Nat
      /\ budget.watched \in SUBSET Folders /\ budget.waiting \in SUBSET Folders
      /\ budget.refused \in SUBSET Folders
      /\ IsFiniteSet(budget.watched) /\ Cardinality(budget.watched) \in Nat
      /\ IsFiniteSet(budget.refused) /\ Cardinality(budget.refused) \in Nat
  BY BudgetIs DEF BudgetFits
<1>2. Cardinality(budget.watched \ {each}) = Cardinality(budget.watched) - 1
      /\ Cardinality(budget.watched \ {each}) \in Nat
  BY <1>1, FS_RemoveElement, FS_CardinalityType
<1>3. Cardinality(budget.refused \cup {each}) = Cardinality(budget.refused) + 1
  BY <1>1, FS_AddElement DEF BudgetFits
<1>4. /\ after.watched = budget.watched \ {each}
      /\ after.refused = budget.refused \cup {each}
      /\ after.waiting = budget.waiting
      /\ after.cap = Cardinality(budget.watched) - 1
      /\ after \in Budgets
  BY <1>1, <1>2 DEF RefuseInBudget, Budgets
<1>5. /\ Cardinality(budget.watched) <= budget.cap
      /\ \A x \in budget.watched, y \in budget.waiting : Precedes(x, y)
  BY <1>1 DEF InOrder
<1>6. each \notin budget.waiting
  BY <1>1, <1>5, PrecedesOrders
<1> HIDE DEF after
<1>7. InOrder(after)
  BY <1>1, <1>2, <1>4, <1>5 DEF InOrder
<1>8. after.cap + Cardinality(after.refused) <= MaxWatched
  BY <1>1, <1>3, <1>4, <1>5, MaxIsNumber DEF BudgetFits
<1>9. BudgetFits(after) /\ Known(after) = Known(budget)
  BY <1>4, <1>6, <1>7, <1>8 DEF BudgetFits, Known
<1> QED  BY <1>4, <1>9 DEF after

LEMMA SetCapFits ==
    ASSUME NEW budget, BudgetFits(budget)
    PROVE  /\ BudgetFits(SetCap(budget, MaxWatched))
           /\ Known(SetCap(budget, MaxWatched)) = Known(budget)
           /\ budget.watched \subseteq SetCap(budget, MaxWatched).watched
           /\ SetCap(budget, MaxWatched).refused = {}
<1>1. /\ budget \in Budgets /\ InOrder(budget) /\ budget.cap \in Nat
      /\ budget.watched \in SUBSET Folders /\ budget.waiting \in SUBSET Folders
      /\ budget.refused \in SUBSET Folders
      /\ IsFiniteSet(budget.watched) /\ Cardinality(budget.watched) \in Nat
      /\ IsFiniteSet(budget.refused) /\ Cardinality(budget.refused) \in Nat
  BY BudgetIs DEF BudgetFits
<1>2. /\ Cardinality(budget.watched) <= budget.cap
      /\ \A x \in budget.watched, y \in budget.waiting : Precedes(x, y)
  BY <1>1 DEF InOrder
<1>3. budget.cap + Cardinality(budget.refused) <= MaxWatched
      /\ budget.watched \cap budget.refused = {}
  BY DEF BudgetFits
<1>4. FirstOf(budget.watched, MaxWatched) = budget.watched
  BY <1>1, <1>2, <1>3, MaxIsNumber, FirstOfIs
<1> DEFINE left == [cap |-> MaxWatched, watched |-> budget.watched,
                    waiting |-> budget.waiting \cup budget.refused
                                    \cup (budget.watched \ budget.watched),
                    refused |-> {}]
<1>5. SetCap(budget, MaxWatched) = Promote(left)
  BY <1>4 DEF SetCap
<1>6. /\ left \in Budgets /\ left.cap = MaxWatched /\ left.watched = budget.watched
      /\ left.waiting = budget.waiting \cup budget.refused /\ left.refused = {}
  BY <1>1, MaxIsNumber DEF Budgets
<1> HIDE DEF left
<1>7. /\ Promote(left) \in Budgets
      /\ InOrder(Promote(left))
      /\ left.watched \subseteq Promote(left).watched
      /\ Promote(left).cap = left.cap
      /\ Promote(left).refused = left.refused
      /\ Promote(left).watched \cup Promote(left).waiting = left.watched \cup left.waiting
  BY <1>1, <1>2, <1>3, <1>6, MaxIsNumber, PrecedesOrders, PromoteFits
<1>8. Promote(left).cap + Cardinality(Promote(left).refused) <= MaxWatched
  BY <1>6, <1>7, FS_EmptySet, MaxIsNumber
<1>9. BudgetFits(Promote(left))
  BY <1>6, <1>7, <1>8 DEF BudgetFits
<1>10. Known(Promote(left)) = Known(budget)
  BY <1>6, <1>7 DEF Known
<1> QED  BY <1>5, <1>6, <1>7, <1>9, <1>10

-----------------------------------------------------------------------------
(* What is done to one directory after another. *)

(* The folds of the community modules go through the sets of places. *)
TrackFold(of, folders, F, S) ==
    IF S = {} THEN of ELSE Track(F[S \ {Max(S)}], Ordered(folders)[Max(S)])

LEMMA MaxOfFirst ==
    ASSUME NEW n \in Nat, NEW S \in SUBSET (1 .. n + 1), n + 1 \in S
    PROVE  Max(S) = n + 1
<1>1. \A x \in S : x \in Nat /\ x <= n + 1
  OBVIOUS
<1>2. \E x \in S : \A y \in S : x >= y
  BY <1>1
<1>3. Max(S) \in S /\ \A y \in S : Max(S) >= y
  BY <1>2 DEF Max
<1>4. Max(S) \in Nat /\ Max(S) <= n + 1 /\ Max(S) >= n + 1
  BY <1>1, <1>3
<1> QED  BY <1>4

TrackChain(of, folders, n, chain) ==
    /\ chain[0] = of
    /\ \A i \in 1 .. n : chain[i] = Track(chain[i - 1], Ordered(folders)[i])
    /\ TrackAll(of, folders) = chain[n]

LEMMA TrackFoldIs ==
    ASSUME NEW of, NEW folders, NEW n \in Nat, DOMAIN Ordered(folders) = 1 .. n
    PROVE  \E chain : TrackChain(of, folders, n, chain)
<1> DEFINE IsFold(k, F) == F = [S \in SUBSET (1 .. k) |-> TrackFold(of, folders, F, S)]
           P == {k \in Nat : \E F : IsFold(k, F)}
<1>1. 0 \in P
  <2> DEFINE F == [S \in SUBSET (1 .. 0) |-> of]
  <2>1. \A S \in SUBSET (1 .. 0) : S = {}
    OBVIOUS
  <2>2. IsFold(0, F)
    BY <2>1 DEF TrackFold
  <2> QED  BY <2>2
<1>2. ASSUME NEW k \in P
      PROVE  k + 1 \in P
  <2>1. PICK F : IsFold(k, F)
    OBVIOUS
  <2>2. k \in Nat /\ k + 1 \in Nat
    OBVIOUS
  <2> DEFINE G == [S \in SUBSET (1 .. k + 1) |->
                     IF k + 1 \in S THEN Track(F[S \ {k + 1}], Ordered(folders)[k + 1]) ELSE F[S]]
  <2>3. ASSUME NEW S \in SUBSET (1 .. k + 1)
        PROVE  G[S] = TrackFold(of, folders, G, S)
    <3>1. CASE k + 1 \in S
      BY <2>2, <3>1, MaxOfFirst DEF TrackFold
    <3>2. CASE k + 1 \notin S
      <4>1. S \in SUBSET (1 .. k)
        BY <2>2, <3>2
      <4>2. G[S] = F[S] /\ F[S] = TrackFold(of, folders, F, S)
        BY <2>1, <3>2, <4>1
      <4>3. S \ {Max(S)} \in SUBSET (1 .. k + 1) /\ k + 1 \notin S \ {Max(S)}
        BY <3>2
      <4>4. G[S \ {Max(S)}] = F[S \ {Max(S)}]
        BY <4>3
      <4> QED  BY <4>2, <4>4 DEF TrackFold
    <3> QED  BY <3>1, <3>2
  <2>4. IsFold(k + 1, G)
    <3>1. G = [S \in SUBSET (1 .. k + 1) |-> G[S]]
      OBVIOUS
    <3> HIDE DEF G
    <3> QED  BY <2>3, <3>1
  <2> HIDE DEF G
  <2> QED  BY <2>2, <2>4
<1>3. P = Nat
  <2> HIDE DEF P
  <2>1. P \subseteq Nat
    BY DEF P
  <2> QED  BY <1>1, <1>2, <2>1, EveryNumber
<1> DEFINE F == CHOOSE G : IsFold(n, G)
<1>4. IsFold(n, F)
  BY <1>3
<1>5. TrackAll(of, folders) = F[1 .. n]
  BY DEF TrackAll, FoldLeft, MapThenFoldSet, TrackFold
<1> HIDE DEF F
<1>6. \A i \in 1 .. n : F[1 .. i] = Track(F[1 .. i - 1], Ordered(folders)[i])
  <2> SUFFICES ASSUME NEW i \in 1 .. n
               PROVE  F[1 .. i] = Track(F[1 .. i - 1], Ordered(folders)[i])
    OBVIOUS
  <2>1. 1 .. i \in SUBSET (1 .. n) /\ 1 .. i # {}
    <3>1. i \in Nat /\ 1 <= i /\ i <= n
      OBVIOUS
    <3>2. \A x \in 1 .. i : x \in 1 .. n
      BY <3>1
    <3>3. 1 \in 1 .. i
      BY <3>1
    <3> QED  BY <3>2, <3>3
  <2>2. Max(1 .. i) = i
    <3>1. i - 1 \in Nat /\ i - 1 + 1 = i /\ i \in 1 .. i
      OBVIOUS
    <3> QED  BY <3>1, MaxOfFirst
  <2>3. (1 .. i) \ {i} = 1 .. i - 1
    OBVIOUS
  <2> QED  BY <1>4, <2>1, <2>2, <2>3 DEF TrackFold
<1> DEFINE chain == [i \in 0 .. n |-> F[1 .. i]]
<1>7. 1 .. 0 = {} /\ F[{}] = of
  BY <1>4 DEF TrackFold
<1>8. /\ chain[0] = of
      /\ \A i \in 1 .. n : chain[i] = Track(chain[i - 1], Ordered(folders)[i])
      /\ TrackAll(of, folders) = chain[n]
  BY <1>5, <1>6, <1>7
<1> HIDE DEF chain
<1> QED  BY <1>8 DEF TrackChain

WatchFold(of, folders, F, S) ==
    IF S = {} THEN of ELSE WatchPromoted(F[S \ {Max(S)}], Ranked(folders)[Max(S)])

WatchChain(of, folders, n, chain) ==
    /\ chain[0] = of
    /\ \A i \in 1 .. n : chain[i] = WatchPromoted(chain[i - 1], Ranked(folders)[i])
    /\ WatchAllPromoted(of, folders) = chain[n]

LEMMA WatchFoldIs ==
    ASSUME NEW of, NEW folders, NEW n \in Nat, DOMAIN Ranked(folders) = 1 .. n
    PROVE  \E chain : WatchChain(of, folders, n, chain)
<1> DEFINE IsFold(k, F) == F = [S \in SUBSET (1 .. k) |-> WatchFold(of, folders, F, S)]
           P == {k \in Nat : \E F : IsFold(k, F)}
<1>1. 0 \in P
  <2> DEFINE F == [S \in SUBSET (1 .. 0) |-> of]
  <2>1. \A S \in SUBSET (1 .. 0) : S = {}
    OBVIOUS
  <2>2. IsFold(0, F)
    BY <2>1 DEF WatchFold
  <2> QED  BY <2>2
<1>2. ASSUME NEW k \in P
      PROVE  k + 1 \in P
  <2>1. PICK F : IsFold(k, F)
    OBVIOUS
  <2>2. k \in Nat /\ k + 1 \in Nat
    OBVIOUS
  <2> DEFINE G == [S \in SUBSET (1 .. k + 1) |->
                     IF k + 1 \in S THEN WatchPromoted(F[S \ {k + 1}], Ranked(folders)[k + 1])
                      ELSE F[S]]
  <2>3. ASSUME NEW S \in SUBSET (1 .. k + 1)
        PROVE  G[S] = WatchFold(of, folders, G, S)
    <3>1. CASE k + 1 \in S
      BY <2>2, <3>1, MaxOfFirst DEF WatchFold
    <3>2. CASE k + 1 \notin S
      <4>1. S \in SUBSET (1 .. k)
        BY <2>2, <3>2
      <4>2. G[S] = F[S] /\ F[S] = WatchFold(of, folders, F, S)
        BY <2>1, <3>2, <4>1
      <4>3. S \ {Max(S)} \in SUBSET (1 .. k + 1) /\ k + 1 \notin S \ {Max(S)}
        BY <3>2
      <4>4. G[S \ {Max(S)}] = F[S \ {Max(S)}]
        BY <4>3
      <4> QED  BY <4>2, <4>4 DEF WatchFold
    <3> QED  BY <3>1, <3>2
  <2>4. IsFold(k + 1, G)
    <3>1. G = [S \in SUBSET (1 .. k + 1) |-> G[S]]
      OBVIOUS
    <3> HIDE DEF G
    <3> QED  BY <2>3, <3>1
  <2> HIDE DEF G
  <2> QED  BY <2>2, <2>4
<1>3. P = Nat
  <2> HIDE DEF P
  <2>1. P \subseteq Nat
    BY DEF P
  <2> QED  BY <1>1, <1>2, <2>1, EveryNumber
<1> DEFINE F == CHOOSE G : IsFold(n, G)
<1>4. IsFold(n, F)
  BY <1>3
<1>5. WatchAllPromoted(of, folders) = F[1 .. n]
  BY DEF WatchAllPromoted, FoldLeft, MapThenFoldSet, WatchFold
<1> HIDE DEF F
<1>6. \A i \in 1 .. n : F[1 .. i] = WatchPromoted(F[1 .. i - 1], Ranked(folders)[i])
  <2> SUFFICES ASSUME NEW i \in 1 .. n
               PROVE  F[1 .. i] = WatchPromoted(F[1 .. i - 1], Ranked(folders)[i])
    OBVIOUS
  <2>1. 1 .. i \in SUBSET (1 .. n) /\ 1 .. i # {}
    <3>1. i \in Nat /\ 1 <= i /\ i <= n
      OBVIOUS
    <3>2. \A x \in 1 .. i : x \in 1 .. n
      BY <3>1
    <3>3. 1 \in 1 .. i
      BY <3>1
    <3> QED  BY <3>2, <3>3
  <2>2. Max(1 .. i) = i
    <3>1. i - 1 \in Nat /\ i - 1 + 1 = i /\ i \in 1 .. i
      OBVIOUS
    <3> QED  BY <3>1, MaxOfFirst
  <2>3. (1 .. i) \ {i} = 1 .. i - 1
    OBVIOUS
  <2> QED  BY <1>4, <2>1, <2>2, <2>3 DEF WatchFold
<1> DEFINE chain == [i \in 0 .. n |-> F[1 .. i]]
<1>7. 1 .. 0 = {} /\ F[{}] = of
  BY <1>4 DEF WatchFold
<1>8. /\ chain[0] = of
      /\ \A i \in 1 .. n : chain[i] = WatchPromoted(chain[i - 1], Ranked(folders)[i])
      /\ WatchAllPromoted(of, folders) = chain[n]
  BY <1>5, <1>6, <1>7
<1> HIDE DEF chain
<1> QED  BY <1>8 DEF WatchChain

DropFold(of, folders, F, S) ==
    IF S = {} THEN of ELSE DropSubtree(F[S \ {Max(S)}], Ordered(folders)[Max(S)])

DropChain(of, folders, n, chain) ==
    /\ chain[0] = of
    /\ \A i \in 1 .. n : chain[i] = DropSubtree(chain[i - 1], Ordered(folders)[i])
    /\ DropAll(of, folders) = chain[n]

LEMMA DropFoldIs ==
    ASSUME NEW of, NEW folders, NEW n \in Nat, DOMAIN Ordered(folders) = 1 .. n
    PROVE  \E chain : DropChain(of, folders, n, chain)
<1> DEFINE IsFold(k, F) == F = [S \in SUBSET (1 .. k) |-> DropFold(of, folders, F, S)]
           P == {k \in Nat : \E F : IsFold(k, F)}
<1>1. 0 \in P
  <2> DEFINE F == [S \in SUBSET (1 .. 0) |-> of]
  <2>1. \A S \in SUBSET (1 .. 0) : S = {}
    OBVIOUS
  <2>2. IsFold(0, F)
    BY <2>1 DEF DropFold
  <2> QED  BY <2>2
<1>2. ASSUME NEW k \in P
      PROVE  k + 1 \in P
  <2>1. PICK F : IsFold(k, F)
    OBVIOUS
  <2>2. k \in Nat /\ k + 1 \in Nat
    OBVIOUS
  <2> DEFINE G == [S \in SUBSET (1 .. k + 1) |->
                     IF k + 1 \in S THEN DropSubtree(F[S \ {k + 1}], Ordered(folders)[k + 1])
                      ELSE F[S]]
  <2>3. ASSUME NEW S \in SUBSET (1 .. k + 1)
        PROVE  G[S] = DropFold(of, folders, G, S)
    <3>1. CASE k + 1 \in S
      BY <2>2, <3>1, MaxOfFirst DEF DropFold
    <3>2. CASE k + 1 \notin S
      <4>1. S \in SUBSET (1 .. k)
        BY <2>2, <3>2
      <4>2. G[S] = F[S] /\ F[S] = DropFold(of, folders, F, S)
        BY <2>1, <3>2, <4>1
      <4>3. S \ {Max(S)} \in SUBSET (1 .. k + 1) /\ k + 1 \notin S \ {Max(S)}
        BY <3>2
      <4>4. G[S \ {Max(S)}] = F[S \ {Max(S)}]
        BY <4>3
      <4> QED  BY <4>2, <4>4 DEF DropFold
    <3> QED  BY <3>1, <3>2
  <2>4. IsFold(k + 1, G)
    <3>1. G = [S \in SUBSET (1 .. k + 1) |-> G[S]]
      OBVIOUS
    <3> HIDE DEF G
    <3> QED  BY <2>3, <3>1
  <2> HIDE DEF G
  <2> QED  BY <2>2, <2>4
<1>3. P = Nat
  <2> HIDE DEF P
  <2>1. P \subseteq Nat
    BY DEF P
  <2> QED  BY <1>1, <1>2, <2>1, EveryNumber
<1> DEFINE F == CHOOSE G : IsFold(n, G)
<1>4. IsFold(n, F)
  BY <1>3
<1>5. DropAll(of, folders) = F[1 .. n]
  BY DEF DropAll, FoldLeft, MapThenFoldSet, DropFold
<1> HIDE DEF F
<1>6. \A i \in 1 .. n : F[1 .. i] = DropSubtree(F[1 .. i - 1], Ordered(folders)[i])
  <2> SUFFICES ASSUME NEW i \in 1 .. n
               PROVE  F[1 .. i] = DropSubtree(F[1 .. i - 1], Ordered(folders)[i])
    OBVIOUS
  <2>1. 1 .. i \in SUBSET (1 .. n) /\ 1 .. i # {}
    <3>1. i \in Nat /\ 1 <= i /\ i <= n
      OBVIOUS
    <3>2. \A x \in 1 .. i : x \in 1 .. n
      BY <3>1
    <3>3. 1 \in 1 .. i
      BY <3>1
    <3> QED  BY <3>2, <3>3
  <2>2. Max(1 .. i) = i
    <3>1. i - 1 \in Nat /\ i - 1 + 1 = i /\ i \in 1 .. i
      OBVIOUS
    <3> QED  BY <3>1, MaxOfFirst
  <2>3. (1 .. i) \ {i} = 1 .. i - 1
    OBVIOUS
  <2> QED  BY <1>4, <2>1, <2>2, <2>3 DEF DropFold
<1> DEFINE chain == [i \in 0 .. n |-> F[1 .. i]]
<1>7. 1 .. 0 = {} /\ F[{}] = of
  BY <1>4 DEF DropFold
<1>8. /\ chain[0] = of
      /\ \A i \in 1 .. n : chain[i] = DropSubtree(chain[i - 1], Ordered(folders)[i])
      /\ DropAll(of, folders) = chain[n]
  BY <1>5, <1>6, <1>7
<1> HIDE DEF chain
<1> QED  BY <1>8 DEF DropChain

LEMMA MinOfLast ==
    ASSUME NEW m \in Int, NEW n \in Int, NEW S \in SUBSET (m .. n), m \in S
    PROVE  Min(S) = m
<1>1. \A x \in S : x \in Int /\ m <= x
  OBVIOUS
<1>2. \E x \in S : \A y \in S : x <= y
  BY <1>1
<1>3. Min(S) \in S /\ \A y \in S : Min(S) <= y
  BY <1>2 DEF Min
<1>4. Min(S) \in Int /\ Min(S) <= m /\ m <= Min(S)
  BY <1>1, <1>3
<1> QED  BY <1>4

EnqueueFold(of, folders, enter, recheck, F, S) ==
    IF S = {} THEN of ELSE Enqueue(F[S \ {Min(S)}], Ordered(folders)[Min(S)], enter, recheck)

EnqueueChain(of, folders, n, enter, recheck, chain) ==
    /\ chain[n] = of
    /\ \A i \in 1 .. n : chain[i - 1] = Enqueue(chain[i], Ordered(folders)[i], enter, recheck)
    /\ EnqueueAll(of, folders, enter, recheck) = chain[0]

LEMMA EnqueueFoldIs ==
    ASSUME NEW of, NEW folders, NEW n \in Nat, DOMAIN Ordered(folders) = 1 .. n,
           NEW enter, NEW recheck
    PROVE  \E chain : EnqueueChain(of, folders, n, enter, recheck, chain)
<1> DEFINE Fold(F, S) == EnqueueFold(of, folders, enter, recheck, F, S)
           Ending(k) == n - k + 1 .. n
           IsFold(k, F) == F = [S \in SUBSET Ending(k) |-> Fold(F, S)]
           P == {k \in Nat : \E F : IsFold(k, F)}
<1>1. 0 \in P
  <2> DEFINE F == [S \in SUBSET Ending(0) |-> of]
  <2>1. \A S \in SUBSET Ending(0) : S = {}
    OBVIOUS
  <2>2. IsFold(0, F)
    BY <2>1 DEF EnqueueFold
  <2> QED  BY <2>2
<1>2. ASSUME NEW k \in P
      PROVE  k + 1 \in P
  <2>1. PICK F : IsFold(k, F)
    OBVIOUS
  <2>2. k \in Nat /\ k + 1 \in Nat
    OBVIOUS
  <2> DEFINE new == n - k
             G == [S \in SUBSET Ending(k + 1) |->
                     IF new \in S THEN Enqueue(F[S \ {new}], Ordered(folders)[new], enter, recheck)
                      ELSE F[S]]
  <2>3. ASSUME NEW S \in SUBSET Ending(k + 1)
        PROVE  G[S] = Fold(G, S)
    <3>1. CASE new \in S
      <4>0. new \in Int /\ n \in Int /\ S \in SUBSET (new .. n)
        BY <2>2
      <4>1. Min(S) = new /\ S # {}
        BY <3>1, <4>0, MinOfLast
      <4>2. S \ {new} \in SUBSET Ending(k + 1) /\ new \notin S \ {new}
        OBVIOUS
      <4>3. G[S \ {new}] = F[S \ {new}]
        BY <4>2
      <4>4. G[S] = Enqueue(F[S \ {new}], Ordered(folders)[new], enter, recheck)
        BY <3>1
      <4> QED  BY <4>1, <4>3, <4>4 DEF EnqueueFold
    <3>2. CASE new \notin S
      <4>1. S \in SUBSET Ending(k)
        BY <2>2, <3>2
      <4>2. G[S] = F[S] /\ F[S] = Fold(F, S)
        BY <2>1, <3>2, <4>1
      <4>3. S \ {Min(S)} \in SUBSET Ending(k + 1) /\ new \notin S \ {Min(S)}
        BY <3>2
      <4>4. G[S \ {Min(S)}] = F[S \ {Min(S)}]
        BY <4>3
      <4> QED  BY <4>2, <4>4 DEF EnqueueFold
    <3> QED  BY <3>1, <3>2
  <2>4. IsFold(k + 1, G)
    <3>1. G = [S \in SUBSET Ending(k + 1) |-> G[S]]
      OBVIOUS
    <3> HIDE DEF G
    <3> QED  BY <2>3, <3>1
  <2> HIDE DEF G
  <2> QED  BY <2>2, <2>4
<1>3. P = Nat
  <2> HIDE DEF P
  <2>1. P \subseteq Nat
    BY DEF P
  <2> QED  BY <1>1, <1>2, <2>1, EveryNumber
<1> DEFINE IsWhole(F) == F = [S \in SUBSET (1 .. n) |-> EnqueueFold(of, folders, enter, recheck, F, S)]
           F == CHOOSE G : IsWhole(G)
<1>4. IsWhole(F)
  <2>1. n - n + 1 .. n = 1 .. n
    OBVIOUS
  <2>2. PICK G : IsFold(n, G)
    BY <1>3
  <2>3. IsWhole(G)
    BY <2>1, <2>2
  <2> HIDE DEF IsWhole
  <2> QED  BY <2>3
<1>5. EnqueueAll(of, folders, enter, recheck) = F[1 .. n]
  BY DEF EnqueueAll, FoldRight, MapThenFoldSet, EnqueueFold
<1> HIDE DEF F
<1>6. \A i \in 1 .. n : F[i .. n] = Enqueue(F[i + 1 .. n], Ordered(folders)[i], enter, recheck)
  <2> SUFFICES ASSUME NEW i \in 1 .. n
               PROVE  F[i .. n] = Enqueue(F[i + 1 .. n], Ordered(folders)[i], enter, recheck)
    OBVIOUS
  <2>1. i .. n \in SUBSET (1 .. n) /\ i .. n # {}
    <3>1. i \in Nat /\ 1 <= i /\ i <= n
      OBVIOUS
    <3>2. \A x \in i .. n : x \in 1 .. n
      BY <3>1
    <3>3. n \in i .. n
      BY <3>1
    <3> QED  BY <3>2, <3>3
  <2>2. Min(i .. n) = i
    <3>1. i \in Int /\ n \in Int /\ i \in i .. n
      OBVIOUS
    <3> QED  BY <3>1, MinOfLast
  <2>3. (i .. n) \ {i} = i + 1 .. n
    OBVIOUS
  <2> QED  BY <1>4, <2>1, <2>2, <2>3 DEF EnqueueFold
<1> DEFINE chain == [i \in 0 .. n |-> F[i + 1 .. n]]
<1>7. n + 1 .. n = {} /\ F[{}] = of
  BY <1>4 DEF EnqueueFold
<1>8. /\ chain[n] = of
      /\ \A i \in 1 .. n : chain[i - 1] = Enqueue(chain[i], Ordered(folders)[i], enter, recheck)
      /\ EnqueueAll(of, folders, enter, recheck) = chain[0]
  <2>1. chain[n] = of
    BY <1>7
  <2>2. \A i \in 1 .. n : chain[i - 1] = F[i .. n] /\ chain[i] = F[i + 1 .. n]
    OBVIOUS
  <2>3. chain[0] = F[1 .. n]
    OBVIOUS
  <2> HIDE DEF chain
  <2> QED  BY <1>5, <1>6, <2>1, <2>2, <2>3
<1> HIDE DEF chain
<1> QED  BY <1>8 DEF EnqueueChain

LEMMA OrderedIs ==
    ASSUME NEW S \in SUBSET Folders
    PROVE  /\ Ordered(S) \in Seq(S)
           /\ DOMAIN Ordered(S) = 1 .. Cardinality(S)
           /\ Cardinality(S) \in Nat
           /\ \A k, l \in 1 .. Cardinality(S) : Ordered(S)[k] = Ordered(S)[l] => k = l
           /\ \A each \in S : \E k \in 1 .. Cardinality(S) : Ordered(S)[k] = each
<1> DEFINE n == Cardinality(S)
<1>1. S \in SUBSET Nat /\ IsFiniteSet(S)
  BY FolderFacts, RankIs
<1>2. /\ n \in Nat
      /\ \A k \in 1 .. n : Nth(S, k) \in S
      /\ \A k, l \in 1 .. n : k < l => Nth(S, k) < Nth(S, l)
      /\ \A each \in S : \E k \in 1 .. n : Nth(S, k) = each
  BY <1>1, NthIs
<1>3. Ordered(S) = [k \in 1 .. n |-> Nth(S, k)]
  BY DEF Ordered
<1>4. \A k, l \in 1 .. n : Ordered(S)[k] = Ordered(S)[l] => k = l
  <2> SUFFICES ASSUME NEW k \in 1 .. n, NEW l \in 1 .. n, Ordered(S)[k] = Ordered(S)[l], k # l
               PROVE  FALSE
    OBVIOUS
  <2>1. k < l \/ l < k
    BY <1>2
  <2>2. Nth(S, k) = Nth(S, l) /\ Nth(S, k) \in Nat
    BY <1>1, <1>2, <1>3
  <2> QED  BY <1>2, <2>1, <2>2
<1> HIDE DEF n
<1>5. Ordered(S) \in [1 .. n -> S]
  BY <1>2, <1>3
<1> QED  BY <1>2, <1>3, <1>4, <1>5 DEF n

-----------------------------------------------------------------------------
(* The books of the lister. *)

Merges == [folder : Folders, shots : 0 .. 2, gone : BOOLEAN, recheck : BOOLEAN, walk : Nat]

Ends == [stale : SUBSET Folders, walk : Nat]

Books ==
    [root : Folders \cup {None}, recursive : BOOLEAN, walk : Nat, walking : BOOLEAN,
     tree : SUBSET Folders, watched : SUBSET Folders, watcher : SUBSET Folders,
     budget : Budgets, work : Seq(Folders), enter : SUBSET Folders, recheck : SUBSET Folders,
     failed : SUBSET Folders, unavailable : BOOLEAN, batch : Seq(Merges), stale : SUBSET Folders]

(* What has a watch has a place, and there is a watch of the system for it. *)
WatchesKept(of) ==
    /\ of \in Books
    /\ Cardinality(of.watcher) <= limit
    /\ of.watched \subseteq of.budget.watched
    /\ of.watcher \subseteq of.watched
    /\ BudgetFits(of.budget)

(* And the budget has the directories that are followed. *)
BooksFit(of) == WatchesKept(of) /\ Known(of.budget) = of.tree

(* What is done about watches and what is to be read changes nothing else. *)
Aside(of, after) ==
    /\ after.root = of.root /\ after.recursive = of.recursive
    /\ after.walk = of.walk /\ after.walking = of.walking
    /\ after.tree = of.tree /\ after.failed = of.failed /\ after.unavailable = of.unavailable
    /\ after.batch = of.batch /\ after.stale = of.stale

SameWatches(of, after) ==
    after.watched = of.watched /\ after.watcher = of.watcher /\ after.budget = of.budget

SameWork(of, after) ==
    after.work = of.work /\ after.enter = of.enter /\ after.recheck = of.recheck

LEMMA BooksAre ==
    ASSUME NEW of \in Books
    PROVE  /\ of.root \in Folders \cup {None} /\ of.recursive \in BOOLEAN /\ of.walk \in Nat
           /\ of.walking \in BOOLEAN /\ of.tree \subseteq Folders /\ of.watched \subseteq Folders
           /\ of.watcher \subseteq Folders /\ of.budget \in Budgets /\ of.work \in Seq(Folders)
           /\ of.enter \subseteq Folders /\ of.recheck \subseteq Folders
           /\ of.failed \subseteq Folders /\ of.unavailable \in BOOLEAN
           /\ of.batch \in Seq(Merges) /\ of.stale \subseteq Folders
BY DEF Books

(* What putting some in the queue changes. *)
Enqueued(of, after, all, enter, recheck) ==
    /\ after \in Books
    /\ Aside(of, after)
    /\ SameWatches(of, after)
    /\ after.enter = IF enter THEN of.enter \cup all ELSE of.enter
    /\ after.recheck = IF recheck THEN of.recheck \cup all ELSE of.recheck
    /\ \A e : Has(after.work, e) <=> Has(of.work, e) \/ e \in all

LEMMA EnqueueIs ==
    ASSUME NEW of \in Books, NEW each \in Folders, NEW enter \in BOOLEAN, NEW recheck \in BOOLEAN
    PROVE  Enqueued(of, Enqueue(of, each, enter, recheck), {each}, enter, recheck)
<1> DEFINE waits == Contains(of.work, each)
           deeper == enter /\ each \notin of.enter
           rest == Without(of.work, {each})
           work == IF waits /\ ~deeper THEN of.work ELSE <<each>> \o rest
           after == Enqueue(of, each, enter, recheck)
<1>1. after = [of EXCEPT !.enter = IF enter THEN @ \cup {each} ELSE @,
                         !.recheck = IF recheck THEN @ \cup {each} ELSE @,
                         !.work = work]
  BY DEF Enqueue
<1>2. of.work \in Seq(Folders)
  BY BooksAre
<1>3. rest \in Seq(Folders) /\ \A e : Has(rest, e) <=> Has(of.work, e) /\ e \notin {each}
  BY <1>2, WithoutIs
<1> HIDE DEF rest
<1>4. <<each>> \o rest \in Seq(Folders)
      /\ \A e : Has(<<each>> \o rest, e) <=> e = each \/ Has(rest, e)
  <2>1. <<each>> \in Seq(Folders) /\ Len(<<each>>) = 1 /\ <<each>>[1] = each
    OBVIOUS
  <2>2. /\ <<each>> \o rest \in Seq(Folders)
        /\ Len(<<each>> \o rest) = 1 + Len(rest)
        /\ \A i \in 1 .. 1 + Len(rest) :
              (<<each>> \o rest)[i] = IF i <= 1 THEN <<each>>[i] ELSE rest[i - 1]
    BY <1>3, <2>1, ConcatProperties
  <2>3. /\ DOMAIN rest = 1 .. Len(rest) /\ Len(rest) \in Nat
        /\ DOMAIN (<<each>> \o rest) = 1 .. 1 + Len(rest)
    BY <1>3, <2>2, LenProperties
  <2>4. ASSUME NEW e
        PROVE  Has(<<each>> \o rest, e) <=> e = each \/ Has(rest, e)
    <3>1. ASSUME NEW i \in DOMAIN (<<each>> \o rest), (<<each>> \o rest)[i] = e, i # 1
          PROVE  Has(rest, e)
      BY <2>2, <2>3, <3>1 DEF Has
    <3>2. ASSUME NEW i \in DOMAIN rest, rest[i] = e
          PROVE  Has(<<each>> \o rest, e)
      <4>1. i + 1 \in DOMAIN (<<each>> \o rest) /\ (<<each>> \o rest)[i + 1] = e
        BY <2>2, <2>3, <3>2
      <4> QED  BY <4>1 DEF Has
    <3>3. 1 \in DOMAIN (<<each>> \o rest) /\ (<<each>> \o rest)[1] = each
      BY <2>1, <2>2, <2>3
    <3> QED  BY <3>1, <3>2, <3>3 DEF Has
  <2> QED  BY <2>2, <2>4
<1>5. waits <=> Has(of.work, each)
  BY <1>2 DEF Contains, Has
<1>6. work \in Seq(Folders) /\ \A e : Has(work, e) <=> Has(of.work, e) \/ e = each
  BY <1>2, <1>3, <1>4, <1>5
<1> HIDE DEF work
<1>7. after \in Books
  <2> DEFINE entered == IF enter THEN of.enter \cup {each} ELSE of.enter
             rechecked == IF recheck THEN of.recheck \cup {each} ELSE of.recheck
  <2>1. entered \in SUBSET Folders /\ rechecked \in SUBSET Folders
    BY BooksAre
  <2>2. after = [of EXCEPT !.enter = entered, !.recheck = rechecked, !.work = work]
    BY <1>1 DEF Books
  <2> HIDE DEF after, entered, rechecked
  <2> QED  BY <1>6, <2>1, <2>2 DEF Books
<1>8. /\ after.work = work
      /\ after.enter = IF enter THEN of.enter \cup {each} ELSE of.enter
      /\ after.recheck = IF recheck THEN of.recheck \cup {each} ELSE of.recheck
      /\ Aside(of, after)
      /\ SameWatches(of, after)
  BY <1>1 DEF Books, Aside, SameWatches
<1> HIDE DEF after
<1>9. Enqueued(of, after, {each}, enter, recheck)
  BY <1>6, <1>7, <1>8 DEF Enqueued
<1> QED  BY <1>9 DEF after

LEMMA EnqueueAllIs ==
    ASSUME NEW of \in Books, NEW all \in SUBSET Folders, NEW enter \in BOOLEAN,
           NEW recheck \in BOOLEAN
    PROVE  Enqueued(of, EnqueueAll(of, all, enter, recheck), all, enter, recheck)
<1> DEFINE n == Cardinality(all)
           s == Ordered(all)
           From(i) == {s[j] : j \in i + 1 .. n}
           Good(after, i) == Enqueued(of, after, From(i), enter, recheck)
<1>1. /\ n \in Nat /\ DOMAIN s = 1 .. n
      /\ \A i \in 1 .. n : s[i] \in all /\ s[i] \in Folders
      /\ \A each \in all : \E i \in 1 .. n : s[i] = each
  BY OrderedIs
<1>chain. PICK chain : EnqueueChain(of, all, n, enter, recheck, chain)
  BY <1>1, EnqueueFoldIs
<1>2. /\ chain[n] = of
      /\ \A i \in 1 .. n : chain[i - 1] = Enqueue(chain[i], s[i], enter, recheck)
      /\ EnqueueAll(of, all, enter, recheck) = chain[0]
  BY <1>chain DEF EnqueueChain
<1>3. From(n) = {}
  BY <1>1
<1>4. Good(of, n)
  BY <1>3 DEF Enqueued, Aside, SameWatches
<1>5. ASSUME NEW i \in 1 .. n, Good(chain[i], i)
      PROVE  Good(chain[i - 1], i - 1)
  <2>1. From(i - 1) = From(i) \cup {s[i]}
    BY <1>1
  <2> PICK each \in Folders : each = s[i]
    BY <1>1
  <2> PICK before, after :
           before \in Books /\ before = chain[i] /\ after = chain[i - 1]
    BY <1>5 DEF Enqueued
  <2>2. after = Enqueue(before, each, enter, recheck)
    BY <1>2
  <2>3. Enqueued(before, after, {each}, enter, recheck)
    BY <2>2, EnqueueIs
  <2>4. Enqueued(of, before, From(i), enter, recheck)
    BY <1>5
  <2> HIDE DEF From
  <2>5. Enqueued(of, after, From(i) \cup {each}, enter, recheck)
    BY <2>3, <2>4 DEF Enqueued, Aside, SameWatches
  <2> QED  BY <2>1, <2>5
<1> DEFINE P == {k \in Nat : k <= n => Good(chain[n - k], n - k)}
<1> HIDE DEF Good, s, From
<1>6. 0 \in P
  BY <1>1, <1>2, <1>4
<1>7. ASSUME NEW k \in P
      PROVE  k + 1 \in P
  BY <1>1, <1>5
<1>8. P = Nat
  <2> HIDE DEF P
  <2>1. P \subseteq Nat
    BY DEF P
  <2> QED  BY <1>6, <1>7, <2>1, EveryNumber
<1>9. Good(chain[0], 0)
  BY <1>1, <1>8
<1>10. From(0) = all
  BY <1>1 DEF From
<1> QED  BY <1>2, <1>9, <1>10 DEF Good

LEMMA LimitIsNumber == limit \in SystemLimits => limit \in Nat
BY ListerAssumption

(* A directory that has a place gets its watch, or is refused it, or does not open. *)
LEMMA WatchIs ==
    ASSUME limit \in Nat, NEW of, WatchesKept(of),
           NEW each \in of.budget.watched, each \notin of.watched
    PROVE  /\ WatchesKept(Watch(of, each))
           /\ Aside(of, Watch(of, each))
           /\ SameWork(of, Watch(of, each))
           /\ Known(Watch(of, each).budget) = Known(of.budget)
           /\ \/ /\ Opens(each)
                 /\ Watch(of, each).watched = of.watched \cup {each}
                 /\ Watch(of, each).watcher = of.watcher \cup {each}
                 /\ Watch(of, each).budget = of.budget
              \/ /\ Opens(each)
                 /\ Watch(of, each).watched = of.watched
                 /\ Watch(of, each).watcher = of.watcher
                 /\ Watch(of, each).budget.watched = of.budget.watched \ {each}
              \/ /\ ~Opens(each)
                 /\ Watch(of, each) = of
<1> DEFINE after == Watch(of, each)
<1>0. /\ of \in Books /\ of.budget \in Budgets /\ of.watched \subseteq Folders
      /\ of.watcher \subseteq Folders /\ BudgetFits(of.budget)
      /\ of.watched \subseteq of.budget.watched /\ of.watcher \subseteq of.watched
      /\ Cardinality(of.watcher) <= limit
      /\ each \in Folders
  BY BooksAre, BudgetIs DEF WatchesKept
<1>1. CASE Opens(each) /\ Cardinality(of.watcher) < limit
  <2>1. after = [of EXCEPT !.watched = @ \cup {each}, !.watcher = @ \cup {each}]
    BY <1>1 DEF Watch
  <2>2. /\ after \in Books /\ after.watched = of.watched \cup {each}
        /\ after.watcher = of.watcher \cup {each} /\ after.budget = of.budget
        /\ Aside(of, after) /\ SameWork(of, after)
    <3> DEFINE watched == of.watched \cup {each}
               watcher == of.watcher \cup {each}
    <3>1. watched \in SUBSET Folders /\ watcher \in SUBSET Folders
      BY <1>0
    <3>2. after = [of EXCEPT !.watched = watched, !.watcher = watcher]
      BY <1>0, <2>1 DEF Books
    <3> HIDE DEF watched, watcher, after
    <3>3. /\ after \in Books /\ after.watched = watched /\ after.watcher = watcher
          /\ after.budget = of.budget /\ Aside(of, after) /\ SameWork(of, after)
      BY <1>0, <3>1, <3>2 DEF Books, Aside, SameWork
    <3> QED  BY <3>3 DEF watched, watcher
  <2>3. IsFiniteSet(of.watcher) /\ Cardinality(of.watcher) \in Nat
    BY <1>0, RankIs
  <2>4. Cardinality(of.watcher \cup {each}) = Cardinality(of.watcher) + 1
    BY <1>0, <2>3, FS_AddElement
  <2>5. Cardinality(after.watcher) <= limit
    BY <1>1, <2>2, <2>3, <2>4
  <2> QED  BY <1>0, <1>1, <2>2, <2>5 DEF WatchesKept
<1>2. CASE Opens(each) /\ ~(Cardinality(of.watcher) < limit)
  <2> DEFINE budget == RefuseInBudget(of.budget, each)
  <2>1. after = [of EXCEPT !.budget = budget]
    BY <1>2 DEF Watch
  <2>2. /\ BudgetFits(budget) /\ Known(budget) = Known(of.budget)
        /\ budget.watched = of.budget.watched \ {each}
    BY <1>0, RefuseFits
  <2> HIDE DEF budget
  <2>3. budget \in Budgets
    BY <2>2 DEF BudgetFits
  <2>4. /\ after \in Books /\ after.watched = of.watched
        /\ after.watcher = of.watcher /\ after.budget = budget
        /\ Aside(of, after) /\ SameWork(of, after)
    BY <1>0, <2>1, <2>3 DEF Books, Aside, SameWork
  <2> QED  BY <1>0, <1>2, <2>2, <2>4 DEF WatchesKept
<1>3. CASE ~Opens(each)
  BY <1>3 DEF Watch, Aside, SameWork
<1> QED  BY <1>1, <1>2, <1>3

(* What watching one, or some, that got their places may have changed. *)
Promoted(of, after, tried) ==
    /\ WatchesKept(after)
    /\ Aside(of, after)
    /\ Known(after.budget) = Known(of.budget)
    /\ after.enter = of.enter
    /\ of.watched \subseteq after.watched
    /\ after.watched \ of.watched \subseteq tried
    /\ after.watcher = of.watcher \cup (after.watched \ of.watched)
    /\ after.recheck = of.recheck \cup (after.watched \ of.watched)
    /\ \A e : Has(after.work, e) <=> Has(of.work, e) \/ e \in after.watched \ of.watched
    /\ after.budget.watched \subseteq of.budget.watched
    /\ of.budget.watched \ after.budget.watched \subseteq tried
    /\ \A each \in tried \cap of.tree \cap after.budget.watched :
           each \in after.watched \/ ~Opens(each)
    /\ \A each \in after.watched \ of.watched : Opens(each) /\ each \in of.tree

LEMMA PromotedNone ==
    ASSUME NEW of, WatchesKept(of)
    PROVE  Promoted(of, of, {})
BY DEF Promoted, Aside

LEMMA WatchPromotedIs ==
    ASSUME limit \in Nat, NEW of, WatchesKept(of),
           NEW each \in of.budget.watched
    PROVE  Promoted(of, WatchPromoted(of, each), {each})
<1> DEFINE after == WatchPromoted(of, each)
           tried == Watch(of, each)
<1>0. of \in Books /\ of.watched \subseteq Folders /\ each \in Folders
      /\ of.watcher \subseteq of.watched
  BY BooksAre, BudgetIs DEF WatchesKept
<1>1. CASE each \notin of.tree \/ each \in of.watched
  BY <1>1 DEF WatchPromoted, Promoted, Aside
<1>2. CASE each \in of.tree /\ each \notin of.watched
  <2>1. /\ WatchesKept(tried)
        /\ Aside(of, tried)
        /\ SameWork(of, tried)
        /\ Known(tried.budget) = Known(of.budget)
        /\ \/ /\ Opens(each)
              /\ tried.watched = of.watched \cup {each}
              /\ tried.watcher = of.watcher \cup {each}
              /\ tried.budget = of.budget
           \/ /\ Opens(each)
              /\ tried.watched = of.watched
              /\ tried.watcher = of.watcher
              /\ tried.budget.watched = of.budget.watched \ {each}
           \/ /\ ~Opens(each)
              /\ tried = of
    BY <1>2, WatchIs
  <2>2. after = IF each \in tried.watched THEN Enqueue(tried, each, FALSE, TRUE) ELSE tried
    BY <1>2 DEF WatchPromoted
  <2> HIDE DEF tried, after
  <2>3. CASE each \in tried.watched
    <3>1. /\ Opens(each)
          /\ tried.watched = of.watched \cup {each}
          /\ tried.watcher = of.watcher \cup {each}
          /\ tried.budget = of.budget
      BY <1>2, <2>1, <2>3
    <3>2. tried \in Books
      BY <2>1 DEF WatchesKept
    <3>3. /\ after \in Books
          /\ Aside(tried, after)
          /\ SameWatches(tried, after)
          /\ after.enter = tried.enter
          /\ after.recheck = tried.recheck \cup {each}
          /\ \A e : Has(after.work, e) <=> Has(tried.work, e) \/ e = each
      BY <1>0, <2>2, <2>3, <3>2, EnqueueIs DEF Enqueued
    <3>4. WatchesKept(after)
      BY <2>1, <3>3 DEF WatchesKept, SameWatches
    <3>5. after.watched \ of.watched = {each} /\ after.watched = of.watched \cup {each}
      BY <1>2, <3>1, <3>3 DEF SameWatches
    <3>6. /\ Aside(of, after)
          /\ after.enter = of.enter /\ after.recheck = of.recheck \cup {each}
          /\ \A e : Has(after.work, e) <=> Has(of.work, e) \/ e = each
          /\ after.watcher = of.watcher \cup {each}
          /\ after.budget = of.budget
      BY <2>1, <3>1, <3>3 DEF Aside, SameWork, SameWatches
    <3> DEFINE new == after.watched \ of.watched
    <3>7. new = {each} /\ Known(after.budget) = Known(of.budget)
      BY <2>1, <3>1, <3>5, <3>6
    <3>8. /\ of.watched \subseteq after.watched /\ new \subseteq {each}
          /\ after.watcher = of.watcher \cup new /\ after.recheck = of.recheck \cup new
          /\ \A e : Has(after.work, e) <=> Has(of.work, e) \/ e \in new
          /\ \A x \in new : Opens(x) /\ x \in of.tree
      BY <1>2, <3>1, <3>5, <3>6, <3>7
    <3>9. \A x \in {each} \cap of.tree \cap after.budget.watched : x \in after.watched \/ ~Opens(x)
      BY <3>5
    <3>10. /\ after.budget.watched \subseteq of.budget.watched
           /\ of.budget.watched \ after.budget.watched \subseteq {each}
      BY <3>6
    <3> HIDE DEF new
    <3>11. /\ WatchesKept(after) /\ Aside(of, after) /\ Known(after.budget) = Known(of.budget)
           /\ after.enter = of.enter
      BY <3>4, <3>6, <3>7
    <3>12. Promoted(of, after, {each})
      BY <3>8, <3>9, <3>10, <3>11 DEF Promoted, new
    <3> QED  BY <3>12 DEF after
  <2>4. CASE each \notin tried.watched
    <3>1. after = tried /\ tried.watched = of.watched /\ tried.watcher = of.watcher
      BY <1>2, <2>1, <2>2, <2>4
    <3>2. tried.watched \ of.watched = {}
      BY <3>1
    <3>3. tried.enter = of.enter /\ tried.recheck = of.recheck /\ tried.work = of.work
      BY <2>1 DEF SameWork
    <3>4. /\ tried.budget.watched \subseteq of.budget.watched
          /\ of.budget.watched \ tried.budget.watched \subseteq {each}
          /\ each \in tried.budget.watched => ~Opens(each)
      BY <2>1, <2>4
    <3> DEFINE new == after.watched \ of.watched
    <3>5. new = {} /\ Known(after.budget) = Known(of.budget) /\ WatchesKept(after) /\ Aside(of, after)
      BY <2>1, <3>1, <3>2
    <3>6. /\ of.watched \subseteq after.watched /\ new \subseteq {each}
          /\ after.watcher = of.watcher \cup new /\ after.recheck = of.recheck \cup new
          /\ \A e : Has(after.work, e) <=> Has(of.work, e) \/ e \in new
          /\ \A x \in new : Opens(x) /\ x \in of.tree
      BY <3>1, <3>3, <3>5
    <3>7. \A x \in {each} \cap of.tree \cap after.budget.watched : x \in after.watched \/ ~Opens(x)
      BY <3>1, <3>4
    <3>8. /\ after.budget.watched \subseteq of.budget.watched
          /\ of.budget.watched \ after.budget.watched \subseteq {each}
          /\ after.enter = of.enter
      BY <3>1, <3>3, <3>4
    <3>9. Promoted(of, after, {each})
      BY <3>5, <3>6, <3>7, <3>8 DEF Promoted
    <3> QED  BY <3>9 DEF after
  <2> QED  BY <2>3, <2>4
<1> QED  BY <1>1, <1>2

LEMMA PromotedThen ==
    ASSUME NEW of, NEW mid, NEW after, NEW T, NEW each,
           WatchesKept(of), Promoted(of, mid, T), Promoted(mid, after, {each})
    PROVE  Promoted(of, after, T \cup {each})
<1>1. /\ Aside(of, after) /\ WatchesKept(after)
      /\ Known(after.budget) = Known(of.budget)
      /\ after.enter = of.enter
      /\ mid.tree = of.tree
  BY DEF Promoted, Aside
<1>2. /\ of.watched \subseteq mid.watched /\ mid.watched \subseteq after.watched
      /\ after.watched \ of.watched = (mid.watched \ of.watched) \cup (after.watched \ mid.watched)
  BY DEF Promoted
<1>3. /\ after.watched \ of.watched \subseteq T \cup {each}
      /\ after.watcher = of.watcher \cup (after.watched \ of.watched)
      /\ after.recheck = of.recheck \cup (after.watched \ of.watched)
  BY <1>2 DEF Promoted
<1>4. \A e : Has(after.work, e) <=> Has(of.work, e) \/ e \in after.watched \ of.watched
  BY <1>2 DEF Promoted
<1>5. /\ after.budget.watched \subseteq of.budget.watched
      /\ of.budget.watched \ after.budget.watched \subseteq T \cup {each}
  BY DEF Promoted
<1>6. \A x \in (T \cup {each}) \cap of.tree \cap after.budget.watched :
         x \in after.watched \/ ~Opens(x)
  BY <1>1, <1>2 DEF Promoted
<1>7. \A x \in after.watched \ of.watched : Opens(x) /\ x \in of.tree
  BY <1>1, <1>2 DEF Promoted
<1> QED  BY <1>1, <1>2, <1>3, <1>4, <1>5, <1>6, <1>7 DEF Promoted

LEMMA WatchAllPromotedIs ==
    ASSUME limit \in Nat, NEW of, WatchesKept(of), NEW all \in SUBSET of.budget.watched
    PROVE  Promoted(of, WatchAllPromoted(of, all), all)
<1> DEFINE n == Cardinality(all)
           s == Ranked(all)
           Upon(i) == {s[j] : j \in 1 .. i}
<1>0. all \in SUBSET Folders
  BY BooksAre, BudgetIs DEF WatchesKept
<1>1. /\ n \in Nat /\ DOMAIN s = 1 .. n
      /\ \A i \in 1 .. n : s[i] \in all
      /\ \A i, j \in 1 .. n : s[i] = s[j] => i = j
      /\ \A each \in all : \E i \in 1 .. n : s[i] = each
  BY <1>0, RankedIs
<1>chain. PICK chain : WatchChain(of, all, n, chain)
  BY <1>1, WatchFoldIs
<1>2. /\ chain[0] = of
      /\ \A i \in 1 .. n : chain[i] = WatchPromoted(chain[i - 1], s[i])
      /\ WatchAllPromoted(of, all) = chain[n]
  BY <1>chain DEF WatchChain
<1> HIDE DEF n, s
<1> DEFINE P == {i \in Nat : i <= n => Promoted(of, chain[i], Upon(i))}
<1>3. 0 \in P
  <2>1. Upon(0) = {}
    OBVIOUS
  <2> HIDE DEF Upon
  <2> QED  BY <1>2, <2>1, PromotedNone
<1>4. ASSUME NEW i \in P
      PROVE  i + 1 \in P
  <2> SUFFICES ASSUME i + 1 <= n
               PROVE  Promoted(of, chain[i + 1], Upon(i + 1))
    OBVIOUS
  <2>1. i \in Nat /\ i <= n /\ i + 1 \in 1 .. n /\ i + 1 - 1 = i /\ Promoted(of, chain[i], Upon(i))
    BY <1>1
  <2>2. Upon(i + 1) = Upon(i) \cup {s[i + 1]}
    BY <2>1
  <2>3. s[i + 1] \notin Upon(i)
    BY <1>1, <2>1
  <2> HIDE DEF Upon
  <2>4. chain[i + 1] = WatchPromoted(chain[i], s[i + 1]) /\ s[i + 1] \in all
    BY <1>1, <1>2, <2>1
  <2>5. WatchesKept(chain[i]) /\ s[i + 1] \in chain[i].budget.watched
    BY <2>1, <2>3, <2>4 DEF Promoted
  <2>6. Promoted(chain[i], chain[i + 1], {s[i + 1]})
    BY <2>4, <2>5, WatchPromotedIs
  <2> QED  BY <2>1, <2>2, <2>6, PromotedThen
<1>5. P = Nat
  <2> HIDE DEF P
  <2>1. P \subseteq Nat
    BY DEF P
  <2> QED  BY <1>3, <1>4, <2>1, EveryNumber
<1>6. Promoted(of, chain[n], Upon(n))
  <2>1. n \in P
    <3> HIDE DEF P
    <3> QED  BY <1>1, <1>5
  <2>2. n <= n
    BY <1>1
  <2> QED  BY <2>1, <2>2
<1>7. Upon(n) = all
  BY <1>1
<1> QED  BY <1>2, <1>6, <1>7

(* The budget that was changed takes the watches from what lost its place, and gives them to what
   got one. *)
LEMMA ApplyMovesIs ==
    ASSUME limit \in Nat, NEW of, WatchesKept(of), NEW budget, BudgetFits(budget)
    PROVE  LET after == ApplyMoves(of, budget)
               new == after.watched \ of.watched
           IN  /\ WatchesKept(after)
               /\ Aside(of, after)
               /\ Known(after.budget) = Known(budget)
               /\ after.enter = of.enter
               /\ after.watched = (of.watched \cap budget.watched) \cup new
               /\ after.watcher = (of.watcher \cap budget.watched) \cup new
               /\ new \subseteq budget.watched \ of.budget.watched
               /\ after.recheck = of.recheck \cup new
               /\ \A e : Has(after.work, e) <=> Has(of.work, e) \/ e \in new
               /\ after.budget.watched \subseteq budget.watched
               /\ of.budget.watched \cap budget.watched \subseteq after.budget.watched
               /\ \A each \in (after.budget.watched \ of.budget.watched) \cap of.tree :
                      each \in new \/ ~Opens(each)
               /\ \A each \in new : Opens(each) /\ each \in of.tree
<1> DEFINE lost == of.budget.watched \ budget.watched
           moved == [Unwatch(of, lost) EXCEPT !.budget = budget]
           got == budget.watched \ of.budget.watched
           after == ApplyMoves(of, budget)
           new == after.watched \ of.watched
<1>1. after = WatchAllPromoted(moved, got)
  BY DEF ApplyMoves
<1>2. /\ of \in Books /\ of.budget \in Budgets /\ budget \in Budgets
      /\ of.watched \subseteq of.budget.watched /\ of.watcher \subseteq of.watched
      /\ Cardinality(of.watcher) <= limit
  BY BooksAre DEF WatchesKept, BudgetFits
<1>3. /\ of.watched \subseteq Folders /\ of.watcher \subseteq Folders
  BY <1>2, BooksAre
<1>4. moved = [of EXCEPT !.watched = @ \ lost, !.watcher = @ \ (of.watched \cap lost),
                         !.budget = budget]
  BY <1>2 DEF Unwatch, Books
<1>5. /\ moved \in Books
      /\ moved.watched = of.watched \cap budget.watched
      /\ moved.watcher = of.watcher \cap budget.watched
      /\ moved.budget = budget
      /\ Aside(of, moved) /\ SameWork(of, moved)
  <2>1. of.watched \ lost = of.watched \cap budget.watched
    BY <1>2
  <2>2. of.watcher \ (of.watched \cap lost) = of.watcher \cap budget.watched
    BY <1>2
  <2> HIDE DEF lost
  <2>3. moved = [of EXCEPT !.watched = of.watched \cap budget.watched,
                           !.watcher = of.watcher \cap budget.watched, !.budget = budget]
    BY <1>4, <2>1, <2>2
  <2> QED  BY <1>2, <1>3, <2>3 DEF Books, Aside, SameWork
<1> HIDE DEF moved
<1>6. Cardinality(moved.watcher) <= limit
  BY <1>2, <1>3, <1>5, RankIs, FS_Subset, FS_CardinalityType
<1>7. WatchesKept(moved)
  BY <1>2, <1>5, <1>6 DEF WatchesKept
<1>8. Promoted(moved, after, got)
  <2>1. got \in SUBSET moved.budget.watched
    BY <1>5
  <2> HIDE DEF got, after
  <2> QED  BY <1>1, <1>7, <2>1, WatchAllPromotedIs DEF after
<1> HIDE DEF after
<1>9. after.watched \ moved.watched = new
  BY <1>2, <1>5, <1>8 DEF Promoted
<1>10. WatchesKept(after) /\ Aside(of, after)
  BY <1>5, <1>8 DEF Promoted, Aside
<1>11. /\ Known(after.budget) = Known(budget)
       /\ after.enter = of.enter
       /\ after.watched = (of.watched \cap budget.watched) \cup new
       /\ after.watcher = (of.watcher \cap budget.watched) \cup new
       /\ new \subseteq budget.watched \ of.budget.watched
       /\ after.recheck = of.recheck \cup new
  BY <1>5, <1>8, <1>9 DEF Promoted, SameWork
<1>12. \A e : Has(after.work, e) <=> Has(of.work, e) \/ e \in new
  BY <1>5, <1>8, <1>9 DEF Promoted, SameWork
<1>13. /\ after.budget.watched \subseteq budget.watched
       /\ of.budget.watched \cap budget.watched \subseteq after.budget.watched
  BY <1>5, <1>8 DEF Promoted
<1>14. \A each \in (after.budget.watched \ of.budget.watched) \cap of.tree :
          each \in new \/ ~Opens(each)
  BY <1>2, <1>5, <1>8, <1>13 DEF Aside, Promoted
<1>15. \A each \in new : Opens(each) /\ each \in of.tree
  BY <1>5, <1>8, <1>9 DEF Promoted, Aside
<1> QED  BY <1>10, <1>11, <1>12, <1>13, <1>14, <1>15 DEF after

(* What reading one directory never changes. *)
SameCourse(of, after) ==
    /\ after.root = of.root /\ after.recursive = of.recursive
    /\ after.walk = of.walk /\ after.walking = of.walking
    /\ after.unavailable = of.unavailable /\ after.stale = of.stale

(* What tracking one directory, or some, may have changed. *)
Tracked(of, after, all) ==
    /\ BooksFit(after)
    /\ SameCourse(of, after) /\ SameWork(of, after)
    /\ after.failed = of.failed /\ after.batch = of.batch
    /\ after.tree = of.tree \cup all
    /\ after.watched \subseteq of.watched
    /\ after.watcher = of.watcher \cap after.watched
    /\ after.budget.watched \subseteq of.budget.watched \cup all
    /\ after.budget.watched \ after.watched \subseteq (of.budget.watched \ of.watched) \cup all

LEMMA FewerAreKept ==
    ASSUME limit \in Nat, NEW of \in Books, Cardinality(of.watcher) <= limit,
           NEW S \in SUBSET of.watcher
    PROVE  Cardinality(S) <= limit
<1>1. IsFiniteSet(of.watcher) /\ Cardinality(of.watcher) \in Nat
  BY BooksAre, RankIs
<1>2. Cardinality(S) <= Cardinality(of.watcher) /\ Cardinality(S) \in Nat
  BY <1>1, FS_Subset, FS_CardinalityType
<1> QED  BY <1>1, <1>2

LEMMA TrackIs ==
    ASSUME limit \in Nat, NEW of, BooksFit(of), NEW each \in Folders
    PROVE  Tracked(of, Track(of, each), {each})
<1> DEFINE budget == AddToBudget(of.budget, each)
           after == Track(of, each)
           lost == of.budget.watched \ budget.watched
<1>1. /\ of \in Books /\ of.watched \subseteq of.budget.watched /\ of.watcher \subseteq of.watched
      /\ Cardinality(of.watcher) <= limit /\ BudgetFits(of.budget) /\ Known(of.budget) = of.tree
  BY DEF BooksFit, WatchesKept
<1>2. /\ of.watched \subseteq Folders /\ of.tree \subseteq Folders /\ of.watcher \subseteq Folders
  BY <1>1, BooksAre
<1>3. /\ BudgetFits(budget) /\ Known(budget) = of.tree \cup {each}
      /\ budget.watched \subseteq of.budget.watched \cup {each}
  BY <1>1, AddFits
<1>4. budget \in Budgets
  BY <1>3 DEF BudgetFits
<1> HIDE DEF budget
<1>5. after = [of EXCEPT !.watched = @ \ lost, !.watcher = @ \ (of.watched \cap lost),
                         !.tree = @ \cup {each}, !.budget = budget]
  BY <1>1 DEF Track, Unwatch, Books, budget
<1>6. of.watched \ lost = of.watched \cap budget.watched
      /\ of.watcher \ (of.watched \cap lost) = of.watcher \cap budget.watched
  BY <1>1
<1> HIDE DEF lost
<1>7. after = [of EXCEPT !.watched = of.watched \cap budget.watched,
                         !.watcher = of.watcher \cap budget.watched,
                         !.tree = of.tree \cup {each}, !.budget = budget]
  BY <1>5, <1>6
<1>8. /\ after \in Books
      /\ after.watched = of.watched \cap budget.watched
      /\ after.watcher = of.watcher \cap budget.watched
      /\ after.tree = of.tree \cup {each} /\ after.budget = budget
      /\ SameCourse(of, after) /\ SameWork(of, after)
      /\ after.failed = of.failed /\ after.batch = of.batch
  <2> DEFINE watched == of.watched \cap budget.watched
             watcher == of.watcher \cap budget.watched
             tree == of.tree \cup {each}
  <2>1. watched \in SUBSET Folders /\ watcher \in SUBSET Folders /\ tree \in SUBSET Folders
    BY <1>2
  <2>2. after = [of EXCEPT !.watched = watched, !.watcher = watcher, !.tree = tree, !.budget = budget]
    BY <1>7
  <2> HIDE DEF watched, watcher, tree, after
  <2>3. /\ after \in Books /\ after.watched = watched /\ after.watcher = watcher
        /\ after.tree = tree /\ after.budget = budget
        /\ SameCourse(of, after) /\ SameWork(of, after)
        /\ after.failed = of.failed /\ after.batch = of.batch
    BY <1>1, <1>4, <2>1, <2>2 DEF Books, SameCourse, SameWork
  <2> QED  BY <2>3 DEF watched, watcher, tree
<1> HIDE DEF after
<1>9. Cardinality(after.watcher) <= limit
  BY <1>1, <1>8, FewerAreKept
<1>10. BooksFit(after)
  BY <1>1, <1>3, <1>8, <1>9 DEF BooksFit, WatchesKept
<1>11. Tracked(of, after, {each})
  BY <1>1, <1>3, <1>8, <1>10 DEF Tracked
<1> QED  BY <1>11 DEF after

LEMMA TrackAllIs ==
    ASSUME limit \in Nat, NEW of, BooksFit(of), NEW all \in SUBSET Folders
    PROVE  Tracked(of, TrackAll(of, all), all)
<1> DEFINE n == Cardinality(all)
           s == Ordered(all)
           Upon(i) == {s[j] : j \in 1 .. i}
<1>1. /\ n \in Nat /\ DOMAIN s = 1 .. n
      /\ \A i \in 1 .. n : s[i] \in all /\ s[i] \in Folders
      /\ \A each \in all : \E i \in 1 .. n : s[i] = each
  BY OrderedIs
<1>chain. PICK chain : TrackChain(of, all, n, chain)
  BY <1>1, TrackFoldIs
<1>2. /\ chain[0] = of
      /\ \A i \in 1 .. n : chain[i] = Track(chain[i - 1], s[i])
      /\ TrackAll(of, all) = chain[n]
  BY <1>chain DEF TrackChain
<1> HIDE DEF n, s
<1> DEFINE P == {i \in Nat : i <= n => Tracked(of, chain[i], Upon(i))}
<1>3. 0 \in P
  <2>1. Upon(0) = {}
    OBVIOUS
  <2> HIDE DEF Upon
  <2>2. Tracked(of, of, {})
    BY DEF Tracked, SameCourse, SameWork, BooksFit, WatchesKept
  <2> QED  BY <1>2, <2>1, <2>2
<1>4. ASSUME NEW i \in P
      PROVE  i + 1 \in P
  <2> SUFFICES ASSUME i + 1 <= n
               PROVE  Tracked(of, chain[i + 1], Upon(i + 1))
    OBVIOUS
  <2>1. i \in Nat /\ i <= n /\ i + 1 \in 1 .. n /\ i + 1 - 1 = i /\ Tracked(of, chain[i], Upon(i))
    <3>1. i \in Nat /\ (i <= n => Tracked(of, chain[i], Upon(i)))
      OBVIOUS
    <3>2. i <= n /\ i + 1 \in 1 .. n /\ i + 1 - 1 = i
      BY <1>1, <3>1
    <3> QED  BY <3>1, <3>2
  <2>2. Upon(i + 1) = Upon(i) \cup {s[i + 1]}
    BY <2>1
  <2> HIDE DEF Upon
  <2>3. chain[i + 1] = Track(chain[i], s[i + 1]) /\ s[i + 1] \in Folders
    BY <1>1, <1>2, <2>1
  <2>4. BooksFit(chain[i])
    BY <2>1 DEF Tracked
  <2>5. Tracked(chain[i], chain[i + 1], {s[i + 1]})
    BY <2>3, <2>4, TrackIs
  <2>6. chain[i + 1].watched \subseteq chain[i].watched /\ chain[i].watched \subseteq of.watched
    BY <2>1, <2>5 DEF Tracked
  <2> QED  BY <2>1, <2>2, <2>5, <2>6 DEF Tracked, SameCourse, SameWork
<1>5. P = Nat
  <2> HIDE DEF P
  <2>1. P \subseteq Nat
    BY DEF P
  <2> QED  BY <1>3, <1>4, <2>1, EveryNumber
<1>6. Tracked(of, chain[n], Upon(n))
  <2>1. n \in P
    <3> HIDE DEF P
    <3> QED  BY <1>1, <1>5
  <2>2. n <= n
    BY <1>1
  <2> QED  BY <2>1, <2>2
<1>7. Upon(n) = all
  BY <1>1
<1> QED  BY <1>2, <1>6, <1>7

(* What is in any of the subtrees. *)
Beneath(all) == UNION {Within(each) : each \in all}

(* The batch says of each of some that they are gone. *)
GoneSince(of, after, all) ==
    /\ Len(of.batch) <= Len(after.batch)
    /\ \A i \in 1 .. Len(of.batch) : after.batch[i] = of.batch[i]
    /\ \A i \in Len(of.batch) + 1 .. Len(after.batch) :
          after.batch[i].gone /\ after.batch[i].folder \in all /\ after.batch[i].walk = of.walk
    /\ \A each \in all : \E i \in Len(of.batch) + 1 .. Len(after.batch) :
          after.batch[i].folder = each

(* What dropping a subtree, or some, may have changed. *)
Dropped(of, after, all) ==
    LET gone == of.tree \cap Beneath(all)
        new == after.watched \ of.watched
    IN  /\ BooksFit(after)
        /\ SameCourse(of, after)
        /\ GoneSince(of, after, all)
        /\ after.tree = of.tree \ gone
        /\ after.failed = of.failed \ Beneath(all)
        /\ after.watched = (of.watched \ gone) \cup new
        /\ after.watcher = (of.watcher \ gone) \cup new
        /\ new \subseteq after.tree
        /\ \A each \in new : Opens(each)
        /\ after.enter = of.enter \ gone
        /\ after.recheck = (of.recheck \ gone) \cup new
        /\ \A e : Has(after.work, e) <=> (Has(of.work, e) /\ e \notin gone) \/ e \in new
        /\ \A each \in after.budget.watched \ of.budget.watched : each \in new \/ ~Opens(each)

LEMMA DropSubtreeIs ==
    ASSUME limit \in Nat, NEW of, BooksFit(of), NEW each \in Folders
    PROVE  Dropped(of, DropSubtree(of, each), {each})
<1> DEFINE gone == of.tree \cap Within(each)
           left == [ForgetFailures(Unwatch(of, gone), each) EXCEPT
                       !.tree = @ \ gone,
                       !.work = Without(@, gone),
                       !.enter = @ \ gone,
                       !.recheck = @ \ gone]
           budget == RemoveFromBudget(of.budget, gone)
           moved == ApplyMoves(left, budget)
           message == [folder |-> each, shots |-> 0, gone |-> TRUE, recheck |-> FALSE,
                       walk |-> of.walk]
           after == DropSubtree(of, each)
           new == moved.watched \ left.watched
<1>1. after = [moved EXCEPT !.batch = Append(@, message)]
  BY DEF DropSubtree
<1>2. /\ of \in Books /\ of.watched \subseteq of.budget.watched /\ of.watcher \subseteq of.watched
      /\ Cardinality(of.watcher) <= limit /\ BudgetFits(of.budget) /\ Known(of.budget) = of.tree
  BY DEF BooksFit, WatchesKept
<1>3. /\ of.watched \subseteq Folders /\ of.tree \subseteq Folders /\ of.watcher \subseteq Folders
      /\ of.work \in Seq(Folders) /\ of.walk \in Nat
      /\ of.enter \subseteq Folders /\ of.recheck \subseteq Folders /\ of.failed \subseteq Folders
  BY <1>2, BooksAre
<1>4. /\ Without(of.work, gone) \in Seq(Folders)
      /\ \A e : Has(Without(of.work, gone), e) <=> Has(of.work, e) /\ e \notin gone
  BY <1>3, WithoutIs
<1> DEFINE work == Without(of.work, gone)
           within == Within(each)
<1>5. left = [of EXCEPT !.watched = @ \ gone, !.watcher = @ \ (of.watched \cap gone),
                        !.failed = @ \ within, !.tree = @ \ gone, !.work = work,
                        !.enter = @ \ gone, !.recheck = @ \ gone]
  BY <1>2 DEF ForgetFailures, Unwatch, Books
<1> HIDE DEF work, left, gone, within
<1>6. /\ left \in Books
      /\ left.watched = of.watched \ gone /\ left.watcher = of.watcher \ gone
      /\ left.failed = of.failed \ within /\ left.tree = of.tree \ gone /\ left.work = work
      /\ left.enter = of.enter \ gone /\ left.recheck = of.recheck \ gone
      /\ left.budget = of.budget /\ left.batch = of.batch
      /\ SameCourse(of, left)
  BY <1>2, <1>3, <1>4, <1>5 DEF work, Books, SameCourse
<1>7. Cardinality(left.watcher) <= limit
  BY <1>2, <1>6, FewerAreKept
<1>8. WatchesKept(left)
  BY <1>2, <1>6, <1>7 DEF WatchesKept
<1>9. /\ BudgetFits(budget) /\ Known(budget) = of.tree \ gone
      /\ of.budget.watched \ gone \subseteq budget.watched
  BY <1>2, RemoveFits
<1> HIDE DEF budget
<1>10. /\ WatchesKept(moved)
       /\ Aside(left, moved)
       /\ Known(moved.budget) = Known(budget)
       /\ moved.enter = left.enter
       /\ moved.watched = (left.watched \cap budget.watched) \cup new
       /\ moved.watcher = (left.watcher \cap budget.watched) \cup new
       /\ moved.recheck = left.recheck \cup new
       /\ \A e : Has(moved.work, e) <=> Has(left.work, e) \/ e \in new
       /\ \A x \in (moved.budget.watched \ left.budget.watched) \cap left.tree :
              x \in new \/ ~Opens(x)
       /\ \A x \in new : Opens(x) /\ x \in left.tree
  BY <1>8, <1>9, ApplyMovesIs
<1> HIDE DEF moved
<1>11. /\ left.watched \cap budget.watched = left.watched
       /\ left.watcher \cap budget.watched = left.watcher
  BY <1>2, <1>6, <1>9
<1>12. moved \in Books /\ message \in Merges
  BY <1>3, <1>10 DEF WatchesKept, Merges
<1> HIDE DEF message
<1>13. /\ Append(moved.batch, message) \in Seq(Merges)
       /\ Len(moved.batch) \in Nat
       /\ Len(Append(moved.batch, message)) = Len(moved.batch) + 1
       /\ \A i \in 1 .. Len(moved.batch) : Append(moved.batch, message)[i] = moved.batch[i]
       /\ Append(moved.batch, message)[Len(moved.batch) + 1] = message
  BY <1>12, BooksAre
<1> DEFINE batch == Append(moved.batch, message)
<1>14. after = [moved EXCEPT !.batch = batch]
  BY <1>1
<1> HIDE DEF batch, after
<1>15. /\ after \in Books /\ after.batch = batch
       /\ SameCourse(moved, after) /\ SameWork(moved, after) /\ SameWatches(moved, after)
       /\ after.tree = moved.tree /\ after.failed = moved.failed
  BY <1>12, <1>13, <1>14 DEF Books, SameCourse, SameWork, SameWatches, batch
<1>16. after.tree = of.tree \ gone
  BY <1>6, <1>10, <1>15 DEF Aside
<1>17. BooksFit(after)
  BY <1>9, <1>10, <1>15, <1>16 DEF BooksFit, WatchesKept, SameWatches
<1>18. SameCourse(of, after) /\ after.failed = of.failed \ within
  BY <1>6, <1>10, <1>15 DEF Aside, SameCourse
<1>19. new = after.watched \ of.watched
  BY <1>6, <1>10, <1>11, <1>15 DEF SameWatches
<1>20. Beneath({each}) = within
  BY DEF Beneath, within
<1>21. gone = of.tree \cap within
  BY DEF gone, within
<1>22. GoneSince(of, after, {each})
  BY <1>6, <1>10, <1>13, <1>15 DEF Aside, message, batch, GoneSince
<1>23. /\ after.watched = (of.watched \ gone) \cup new
       /\ after.watcher = (of.watcher \ gone) \cup new
       /\ after.enter = of.enter \ gone
       /\ after.recheck = (of.recheck \ gone) \cup new
  BY <1>6, <1>10, <1>11, <1>15 DEF SameWatches, SameWork
<1>24. \A e : Has(after.work, e) <=> (Has(of.work, e) /\ e \notin gone) \/ e \in new
  BY <1>4, <1>6, <1>10, <1>15 DEF SameWork, work
<1>25. \A x \in after.budget.watched \ of.budget.watched : x \in new \/ ~Opens(x)
  BY <1>6, <1>10, <1>15, <1>16, <1>17 DEF BooksFit, Known, SameWatches
<1>26. new \subseteq after.tree /\ \A x \in new : Opens(x)
  BY <1>6, <1>10, <1>16
<1> HIDE DEF new
<1>27. Dropped(of, after, {each})
  BY <1>16, <1>17, <1>18, <1>19, <1>20, <1>21, <1>22, <1>23, <1>24, <1>25, <1>26 DEF Dropped
<1> QED  BY <1>27 DEF after

LEMMA DroppedThen ==
    ASSUME NEW of, NEW mid, NEW after, NEW S, NEW T,
           of \in Books, Dropped(of, mid, S), Dropped(mid, after, T)
    PROVE  Dropped(of, after, S \cup T)
<1> DEFINE first == of.tree \cap Beneath(S)
           second == mid.tree \cap Beneath(T)
           gone == of.tree \cap Beneath(S \cup T)
           newer == mid.watched \ of.watched
           newest == after.watched \ mid.watched
           new == after.watched \ of.watched
<1>1. Beneath(S \cup T) = Beneath(S) \cup Beneath(T)
  BY DEF Beneath
<1> DEFINE under == Beneath(S)
           below == Beneath(T)
<1>2. /\ mid.tree = of.tree \ first
      /\ mid.failed = of.failed \ under
      /\ mid.watched = (of.watched \ first) \cup newer
      /\ mid.watcher = (of.watcher \ first) \cup newer
      /\ newer \subseteq mid.tree
      /\ \A each \in newer : Opens(each)
      /\ mid.enter = of.enter \ first
      /\ mid.recheck = (of.recheck \ first) \cup newer
      /\ \A e : Has(mid.work, e) <=> (Has(of.work, e) /\ e \notin first) \/ e \in newer
      /\ \A each \in mid.budget.watched \ of.budget.watched : each \in newer \/ ~Opens(each)
  BY DEF Dropped
<1>3. /\ after.tree = mid.tree \ second
      /\ after.failed = mid.failed \ below
      /\ after.watched = (mid.watched \ second) \cup newest
      /\ after.watcher = (mid.watcher \ second) \cup newest
      /\ newest \subseteq after.tree
      /\ \A each \in newest : Opens(each)
      /\ after.enter = mid.enter \ second
      /\ after.recheck = (mid.recheck \ second) \cup newest
      /\ \A e : Has(after.work, e) <=> (Has(mid.work, e) /\ e \notin second) \/ e \in newest
      /\ \A each \in after.budget.watched \ mid.budget.watched : each \in newest \/ ~Opens(each)
  BY DEF Dropped
<1>4. BooksFit(after) /\ SameCourse(of, after)
  BY DEF Dropped, SameCourse
<1>5. first = of.tree \cap under /\ second = mid.tree \cap below
      /\ gone = of.tree \cap (under \cup below)
  BY <1>1
<1>6. gone = first \cup second
  BY <1>2, <1>5
<1> HIDE DEF first, second, gone, newer, newest, under, below
<1>7. after.tree = of.tree \ gone /\ after.failed = of.failed \ (under \cup below)
  BY <1>2, <1>3, <1>6
<1>8. \A x \in newest : x \notin of.watched
  BY <1>2, <1>3, <1>6, <1>7 DEF newest
<1>9. \A x \in newer : x \notin of.watched
  BY DEF newer
<1>10. new = (newer \ second) \cup newest
  <2>1. after.watched = (((of.watched \ first) \cup newer) \ second) \cup newest
    BY <1>2, <1>3
  <2>2. \A x : x \in new <=> x \in after.watched /\ x \notin of.watched
    OBVIOUS
  <2> HIDE DEF new
  <2> QED  BY <1>8, <1>9, <2>1, <2>2
<1> HIDE DEF new
<1>12. /\ after.watched = (of.watched \ gone) \cup new
       /\ after.watcher = (of.watcher \ gone) \cup new
       /\ after.enter = of.enter \ gone
       /\ after.recheck = (of.recheck \ gone) \cup new
  BY <1>2, <1>3, <1>6, <1>10
<1>13. \A e : Has(after.work, e) <=> (Has(of.work, e) /\ e \notin gone) \/ e \in new
  BY <1>2, <1>3, <1>6, <1>10
<1>14. new \subseteq after.tree /\ \A each \in new : Opens(each)
  BY <1>2, <1>3, <1>10
<1>15. \A each \in after.budget.watched \ of.budget.watched : each \in new \/ ~Opens(each)
  BY <1>2, <1>3, <1>4, <1>10 DEF BooksFit, Known
<1>16. GoneSince(of, after, S \cup T)
  <2> DEFINE a == Len(of.batch)
             b == Len(mid.batch)
             c == Len(after.batch)
  <2>1. /\ a <= b
        /\ \A i \in 1 .. a : mid.batch[i] = of.batch[i]
        /\ \A i \in a + 1 .. b :
              mid.batch[i].gone /\ mid.batch[i].folder \in S /\ mid.batch[i].walk = of.walk
        /\ \A each \in S : \E i \in a + 1 .. b : mid.batch[i].folder = each
    BY DEF Dropped, GoneSince
  <2>2. /\ b <= c
        /\ \A i \in 1 .. b : after.batch[i] = mid.batch[i]
        /\ \A i \in b + 1 .. c :
              after.batch[i].gone /\ after.batch[i].folder \in T /\ after.batch[i].walk = of.walk
        /\ \A each \in T : \E i \in b + 1 .. c : after.batch[i].folder = each
    BY DEF Dropped, SameCourse, GoneSince
  <2>3. a \in Nat /\ b \in Nat /\ c \in Nat
    BY BooksAre, LenProperties DEF Dropped, BooksFit, WatchesKept
  <2> HIDE DEF a, b, c
  <2>4. /\ a <= c
        /\ \A i \in 1 .. a : i \in 1 .. b
        /\ \A i \in a + 1 .. c : i \in a + 1 .. b \/ i \in b + 1 .. c
        /\ \A i \in a + 1 .. b : i \in 1 .. b /\ i \in a + 1 .. c
        /\ \A i \in b + 1 .. c : i \in a + 1 .. c
    BY <2>1, <2>2, <2>3
  <2>5. \A i \in 1 .. a : after.batch[i] = of.batch[i]
    BY <2>1, <2>2, <2>4
  <2>6. \A i \in a + 1 .. c :
           after.batch[i].gone /\ after.batch[i].folder \in S \cup T /\ after.batch[i].walk = of.walk
    BY <2>1, <2>2, <2>4
  <2>7. ASSUME NEW each \in S \cup T
        PROVE  \E i \in a + 1 .. c : after.batch[i].folder = each
    <3>1. CASE each \in S
      <4>1. PICK i \in a + 1 .. b : mid.batch[i].folder = each
        BY <2>1, <3>1
      <4>2. after.batch[i].folder = each /\ i \in a + 1 .. c
        BY <2>2, <2>4, <4>1
      <4> QED  BY <4>2
    <3>2. CASE each \in T
      BY <2>2, <2>4, <3>2
    <3> QED  BY <3>1, <3>2
  <2> QED  BY <2>4, <2>5, <2>6, <2>7 DEF GoneSince, a, c
<1>17. Beneath(S \cup T) = under \cup below
  BY <1>1 DEF under, below
<1>18. /\ after.tree = of.tree \ (of.tree \cap Beneath(S \cup T))
       /\ gone = of.tree \cap Beneath(S \cup T)
  BY <1>5, <1>7, <1>17
<1> QED  BY <1>4, <1>7, <1>12, <1>13, <1>14, <1>15, <1>16, <1>17, <1>18 DEF Dropped, new

LEMMA DropAllIs ==
    ASSUME limit \in Nat, NEW of, BooksFit(of), NEW all \in SUBSET Folders
    PROVE  Dropped(of, DropAll(of, all), all)
<1> DEFINE n == Cardinality(all)
           s == Ordered(all)
           Upon(i) == {s[j] : j \in 1 .. i}
<1>0. of \in Books
  BY DEF BooksFit, WatchesKept
<1>1. /\ n \in Nat /\ DOMAIN s = 1 .. n
      /\ \A i \in 1 .. n : s[i] \in all /\ s[i] \in Folders
      /\ \A each \in all : \E i \in 1 .. n : s[i] = each
  BY OrderedIs
<1>chain. PICK chain : DropChain(of, all, n, chain)
  BY <1>1, DropFoldIs
<1>2. /\ chain[0] = of
      /\ \A i \in 1 .. n : chain[i] = DropSubtree(chain[i - 1], s[i])
      /\ DropAll(of, all) = chain[n]
  BY <1>chain DEF DropChain
<1> HIDE DEF n, s
<1> DEFINE P == {i \in Nat : i <= n => Dropped(of, chain[i], Upon(i))}
<1>3. 0 \in P
  <2>1. Upon(0) = {}
    OBVIOUS
  <2> HIDE DEF Upon
  <2>2. Beneath({}) = {}
    BY DEF Beneath
  <2>3. GoneSince(of, of, {})
    BY <1>0, BooksAre, LenProperties DEF GoneSince
  <2>4. Dropped(of, of, {})
    BY <2>2, <2>3 DEF Dropped, SameCourse
  <2> QED  BY <1>2, <2>1, <2>4
<1>4. ASSUME NEW i \in P
      PROVE  i + 1 \in P
  <2> SUFFICES ASSUME i + 1 <= n
               PROVE  Dropped(of, chain[i + 1], Upon(i + 1))
    OBVIOUS
  <2>1. i \in Nat /\ i <= n /\ i + 1 \in 1 .. n /\ i + 1 - 1 = i /\ Dropped(of, chain[i], Upon(i))
    <3>1. i \in Nat /\ (i <= n => Dropped(of, chain[i], Upon(i)))
      OBVIOUS
    <3>2. i <= n /\ i + 1 \in 1 .. n /\ i + 1 - 1 = i
      BY <1>1, <3>1
    <3> QED  BY <3>1, <3>2
  <2>2. Upon(i + 1) = Upon(i) \cup {s[i + 1]}
    BY <2>1
  <2> HIDE DEF Upon
  <2>3. chain[i + 1] = DropSubtree(chain[i], s[i + 1]) /\ s[i + 1] \in Folders
    BY <1>1, <1>2, <2>1
  <2>4. BooksFit(chain[i])
    BY <2>1 DEF Dropped
  <2>5. Dropped(chain[i], chain[i + 1], {s[i + 1]})
    BY <2>3, <2>4, DropSubtreeIs
  <2> QED  BY <1>0, <2>1, <2>2, <2>5, DroppedThen
<1>5. P = Nat
  <2> HIDE DEF P
  <2>1. P \subseteq Nat
    BY DEF P
  <2> QED  BY <1>3, <1>4, <2>1, EveryNumber
<1>6. Dropped(of, chain[n], Upon(n))
  <2>1. n \in P
    <3> HIDE DEF P
    <3> QED  BY <1>1, <1>5
  <2>2. n <= n
    BY <1>1
  <2> QED  BY <2>1, <2>2
<1>7. Upon(n) = all
  BY <1>1
<1> QED  BY <1>2, <1>6, <1>7

(* What following the subfolders of a directory, as listed, may have changed: those kept their
   watches, and others got them. *)
KnownBelow(of, each) == {child \in of.tree : Parent[child] = each /\ child # each}

ToRead(of, each, folders, enter) == IF enter THEN folders ELSE folders \ KnownBelow(of, each)

Followed(of, after, each, folders, enter, recheck, kept, new) ==
    LET heard == KnownBelow(of, each)
        dead == Beneath(heard \ folders)
        gone == (of.tree \cup folders) \cap dead
        toRead == ToRead(of, each, folders, enter)
    IN  /\ BooksFit(after)
        /\ SameCourse(of, after)
        /\ GoneSince(of, after, heard \ folders)
        /\ after.tree = (of.tree \cup folders) \ dead
        /\ after.failed = of.failed \ dead
        /\ kept \subseteq of.watched
        /\ after.watched = kept \cup new
        /\ after.watcher = (of.watcher \cap kept) \cup new
        /\ new \subseteq after.tree
        /\ \A x \in new : Opens(x)
        /\ after.enter = (of.enter \ gone) \cup toRead
        /\ after.recheck = (of.recheck \ gone) \cup new \cup IF recheck THEN toRead ELSE {}
        /\ \A e : Has(after.work, e) <=> (Has(of.work, e) /\ e \notin gone) \/ e \in new \/ e \in toRead
        /\ \A x \in after.budget.watched \ after.watched :
              \/ x \in of.budget.watched \ of.watched
              \/ x \in folders \ heard
              \/ ~Opens(x)

LEMMA FollowSubfoldersIs ==
    ASSUME limit \in Nat, NEW of, BooksFit(of), NEW each \in Folders, NEW folders \in SUBSET Folders,
           NEW enter \in BOOLEAN, NEW recheck \in BOOLEAN
    PROVE  \E kept, new :
              Followed(of, FollowSubfolders(of, each, folders, enter, recheck), each, folders, enter,
                       recheck, kept, new)
<1> DEFINE heard == KnownBelow(of, each)
           toRead == ToRead(of, each, folders, enter)
           fresh == folders \ heard
           dying == heard \ folders
           mid == TrackAll(of, fresh)
           cut == DropAll(mid, dying)
           after == FollowSubfolders(of, each, folders, enter, recheck)
           dead == Beneath(dying)
           gone == (of.tree \cup folders) \cap dead
           new == cut.watched \ mid.watched
           kept == mid.watched \ gone
<1>1. after = EnqueueAll(cut, toRead, TRUE, recheck)
  BY DEF FollowSubfolders, KnownBelow, ToRead
<1>2. of \in Books /\ heard \subseteq of.tree /\ of.tree \subseteq Folders
      /\ of.watched \subseteq of.budget.watched
  BY BooksAre DEF BooksFit, WatchesKept, KnownBelow
<1>3. fresh \in SUBSET Folders /\ dying \in SUBSET Folders /\ toRead \in SUBSET Folders
  BY <1>2 DEF ToRead
<1>4. Tracked(of, mid, fresh)
  <2> HIDE DEF fresh
  <2> QED  BY <1>3, TrackAllIs
<1>5. BooksFit(mid)
  BY <1>4 DEF Tracked
<1>6. Dropped(mid, cut, dying)
  <2> HIDE DEF mid, dying
  <2> QED  BY <1>3, <1>5, DropAllIs
<1> HIDE DEF mid, cut
<1>7. BooksFit(cut) /\ cut \in Books
  BY <1>6 DEF Dropped, BooksFit, WatchesKept
<1>8. /\ after \in Books
      /\ Aside(cut, after)
      /\ SameWatches(cut, after)
      /\ after.enter = cut.enter \cup toRead
      /\ after.recheck = IF recheck THEN cut.recheck \cup toRead ELSE cut.recheck
      /\ \A e : Has(after.work, e) <=> Has(cut.work, e) \/ e \in toRead
  <2> HIDE DEF toRead, after
  <2>1. Enqueued(cut, after, toRead, TRUE, recheck)
    BY <1>1, <1>3, <1>7, EnqueueAllIs
  <2> QED  BY <2>1 DEF Enqueued
<1> HIDE DEF after
<1>9. of.tree \cup fresh = of.tree \cup folders
  BY <1>2
<1>10. /\ mid.tree = of.tree \cup folders
       /\ SameCourse(of, mid) /\ SameWork(of, mid)
       /\ mid.failed = of.failed /\ mid.batch = of.batch
       /\ mid.watched \subseteq of.watched
       /\ mid.watcher = of.watcher \cap mid.watched
       /\ mid.budget.watched \ mid.watched \subseteq (of.budget.watched \ of.watched) \cup fresh
  BY <1>4, <1>9 DEF Tracked
<1>11. mid.tree \cap Beneath(dying) = gone
  BY <1>10
<1> HIDE DEF gone, dead, dying, fresh, heard, toRead
<1>12. /\ SameCourse(mid, cut)
       /\ GoneSince(mid, cut, dying)
       /\ cut.tree = mid.tree \ gone
       /\ cut.failed = mid.failed \ Beneath(dying)
       /\ cut.watched = (mid.watched \ gone) \cup new
       /\ cut.watcher = (mid.watcher \ gone) \cup new
       /\ new \subseteq cut.tree
       /\ \A x \in new : Opens(x)
       /\ cut.enter = mid.enter \ gone
       /\ cut.recheck = (mid.recheck \ gone) \cup new
       /\ \A e : Has(cut.work, e) <=> (Has(mid.work, e) /\ e \notin gone) \/ e \in new
       /\ \A x \in cut.budget.watched \ mid.budget.watched : x \in new \/ ~Opens(x)
  BY <1>6, <1>11 DEF Dropped
<1>13. BooksFit(after)
  BY <1>7, <1>8 DEF BooksFit, WatchesKept, SameWatches, Aside
<1>14. SameCourse(of, after)
  BY <1>8, <1>10, <1>12 DEF SameCourse, Aside
<1>15. GoneSince(of, after, dying)
  BY <1>8, <1>10, <1>12 DEF GoneSince, Aside, SameCourse
<1>16. after.tree = (of.tree \cup folders) \ dead /\ after.failed = of.failed \ dead
  BY <1>8, <1>10, <1>12 DEF gone, dead, Aside
<1> HIDE DEF new
<1>17. /\ kept \subseteq of.watched
       /\ after.watched = kept \cup new
       /\ after.watcher = (of.watcher \cap kept) \cup new
       /\ new \subseteq after.tree
       /\ \A x \in new : Opens(x)
  BY <1>8, <1>10, <1>12 DEF SameWatches, Aside
<1>18. /\ after.enter = (of.enter \ gone) \cup toRead
       /\ after.recheck = (of.recheck \ gone) \cup new \cup IF recheck THEN toRead ELSE {}
       /\ \A e : Has(after.work, e) <=> (Has(of.work, e) /\ e \notin gone) \/ e \in new \/ e \in toRead
  BY <1>8, <1>10, <1>12 DEF SameWork
<1>19. ASSUME NEW x \in after.budget.watched \ after.watched
       PROVE  \/ x \in of.budget.watched \ of.watched
              \/ x \in fresh
              \/ ~Opens(x)
  BY <1>7, <1>8, <1>10, <1>12, <1>19 DEF SameWatches, BooksFit, Known
<1> HIDE DEF kept
<1>20. Followed(of, after, each, folders, enter, recheck, kept, new)
  BY <1>13, <1>14, <1>15, <1>16, <1>17, <1>18, <1>19
     DEF Followed, heard, dead, gone, toRead, fresh, dying
<1> QED  BY <1>20 DEF after

LEMMA EnqueueFits ==
    ASSUME NEW of, BooksFit(of), NEW each \in Folders, NEW enter \in BOOLEAN, NEW recheck \in BOOLEAN
    PROVE  BooksFit(Enqueue(of, each, enter, recheck))
<1> DEFINE after == Enqueue(of, each, enter, recheck)
<1>1. of \in Books
  BY DEF BooksFit, WatchesKept
<1>2. after \in Books /\ Aside(of, after) /\ SameWatches(of, after)
  BY <1>1, EnqueueIs DEF Enqueued
<1> HIDE DEF after
<1>3. BooksFit(after)
  BY <1>2 DEF BooksFit, WatchesKept, Aside, SameWatches
<1> QED  BY <1>3 DEF after

LEMMA KeepStaleFits ==
    ASSUME NEW of, BooksFit(of), NEW each \in Folders
    PROVE  BooksFit(KeepStale(of, each)) /\ KeepStale(of, each).walk = of.walk
           /\ KeepStale(of, each).root = of.root
           /\ KeepStale(of, each).batch = of.batch
<1>1. of \in Books /\ of.stale \subseteq Folders
  BY BooksAre DEF BooksFit, WatchesKept
<1> DEFINE stale == IF of.walking THEN of.stale \cup {each} ELSE of.stale
           after == KeepStale(of, each)
<1>2. after = [of EXCEPT !.stale = stale] /\ stale \subseteq Folders
  BY <1>1 DEF KeepStale
<1> HIDE DEF stale, after
<1>3. /\ after \in Books /\ after.tree = of.tree /\ after.walk = of.walk /\ after.root = of.root
      /\ after.batch = of.batch
      /\ SameWatches(of, after)
  BY <1>1, <1>2 DEF Books, SameWatches
<1>4. BooksFit(after)
  BY <1>3 DEF BooksFit, WatchesKept, SameWatches
<1> QED  BY <1>3, <1>4 DEF after

LEMMA FailFits ==
    ASSUME limit \in Nat, NEW of, BooksFit(of), NEW each \in Folders, NEW error
    PROVE  /\ BooksFit(Fail(of, each, error))
           /\ Fail(of, each, error).walk = of.walk
           /\ Fail(of, each, error).root = of.root
<1>1. of \in Books /\ of.failed \subseteq Folders
  BY BooksAre DEF BooksFit, WatchesKept
<1>2. ASSUME NEW after, NEW failed \in SUBSET Folders, BooksFit(after)
      PROVE  LET then == [after EXCEPT !.failed = failed]
             IN  BooksFit(then) /\ then.walk = after.walk /\ then.root = after.root
  <2> DEFINE then == [after EXCEPT !.failed = failed]
  <2>1. after \in Books
    BY <1>2 DEF BooksFit, WatchesKept
  <2>2. /\ then \in Books /\ then.tree = after.tree /\ then.walk = after.walk
        /\ then.root = after.root /\ SameWatches(after, then)
    BY <2>1 DEF Books, SameWatches
  <2> HIDE DEF then
  <2>3. BooksFit(then)
    BY <1>2, <2>2 DEF BooksFit, WatchesKept, SameWatches
  <2> QED  BY <2>2, <2>3 DEF then
<1>3. CASE each = of.root \/ (error # "other" /\ ~Opens(of.root))
  <2> DEFINE then == [of EXCEPT !.unavailable = TRUE]
  <2>1. /\ then \in Books /\ then.tree = of.tree /\ then.walk = of.walk /\ then.root = of.root
        /\ SameWatches(of, then)
    BY <1>1 DEF Books, SameWatches
  <2>2. Fail(of, each, error) = KeepStale(then, each)
    BY <1>3 DEF Fail
  <2> HIDE DEF then
  <2>3. BooksFit(then)
    BY <2>1 DEF BooksFit, WatchesKept, SameWatches
  <2> QED  BY <2>1, <2>2, <2>3, KeepStaleFits
<1>4. CASE ~(each = of.root \/ (error # "other" /\ ~Opens(of.root))) /\ error = "other"
  <2> DEFINE failed == of.failed \cup {each}
             then == [of EXCEPT !.failed = failed]
  <2>1. Fail(of, each, error) = KeepStale(then, each)
    BY <1>4 DEF Fail
  <2>2. failed \in SUBSET Folders
    BY <1>1
  <2> HIDE DEF failed
  <2>3. BooksFit(then) /\ then.walk = of.walk /\ then.root = of.root
    BY <1>2, <2>2
  <2> HIDE DEF then
  <2> QED  BY <2>1, <2>3, KeepStaleFits
<1>5. CASE ~(each = of.root \/ (error # "other" /\ ~Opens(of.root))) /\ error # "other"
  <2> DEFINE cut == DropSubtree(of, each)
             failed == cut.failed \cup {each}
  <2>1. Dropped(of, cut, {each})
    BY DropSubtreeIs
  <2> HIDE DEF cut
  <2>2. BooksFit(cut) /\ cut.walk = of.walk /\ cut.root = of.root
    BY <2>1 DEF Dropped, SameCourse
  <2>3. failed \in SUBSET Folders
    BY <2>2, BooksAre DEF BooksFit, WatchesKept
  <2>4. Fail(of, each, error) = [cut EXCEPT !.failed = failed] \/ Fail(of, each, error) = cut
    BY <1>5 DEF Fail, cut
  <2> HIDE DEF failed
  <2> QED  BY <1>2, <2>2, <2>3, <2>4
<1> QED  BY <1>3, <1>4, <1>5

(* A directory that lists, and one that the books are begun with. *)
LEMMA EnqueueSame ==
    ASSUME NEW of, BooksFit(of), NEW each \in Folders, NEW enter \in BOOLEAN, NEW recheck \in BOOLEAN
    PROVE  LET after == Enqueue(of, each, enter, recheck)
           IN  BooksFit(after) /\ Aside(of, after) /\ SameWatches(of, after)
<1>1. of \in Books
  BY DEF BooksFit, WatchesKept
<1> QED  BY <1>1, EnqueueFits, EnqueueIs DEF Enqueued

(* The directories above one: itself, and those above its parent; all have smaller numbers. *)
Over(F, each) == {each} \cup IF Parent[each] = each THEN {} ELSE F[Parent[each]]

LEMMA AboveIs ==
    /\ \A each \in Folders : Above[each] = Over(Above, each)
    /\ \A each \in Folders : \A e \in Above[each] : e \in Folders /\ e <= each
<1> DEFINE Closed(S) == \A e \in S : Parent[e] \in S
           F == [each \in Folders |->
                   {x \in Folders : \A S \in SUBSET Folders : each \in S /\ Closed(S) => x \in S}]
           IsOver(G) == G = [each \in Folders |-> Over(G, each)]
<1>1. ASSUME NEW each \in Folders
      PROVE  F[each] = Over(F, each)
  <2> DEFINE up == Parent[each]
  <2>0. up \in Folders
    BY ParentIs
  <2>1. each \in F[each]
    OBVIOUS
  <2>2. F[up] \subseteq F[each]
    BY <2>0
  <2>3. Over(F, each) \in SUBSET Folders /\ each \in Over(F, each)
    BY <2>0 DEF Over
  <2>4. Closed(Over(F, each))
    <3>1. CASE up = each
      BY <3>1 DEF Over
    <3>2. CASE up # each
      BY <2>0, <3>2, ParentIs DEF Over
    <3> QED  BY <3>1, <3>2
  <2>5. F[each] \subseteq Over(F, each)
    <3> DEFINE S == Over(F, each)
    <3>1. S \in SUBSET Folders /\ each \in S /\ Closed(S)
      BY <2>3, <2>4
    <3> HIDE DEF S
    <3>2. F[each] \subseteq S
      BY <3>1
    <3> QED  BY <3>2 DEF S
  <2>6. Over(F, each) \subseteq F[each]
    <3> HIDE DEF F
    <3> QED  BY <2>1, <2>2 DEF Over
  <2> QED  BY <2>5, <2>6
<1>2. IsOver(F)
  <2>1. F = [each \in Folders |-> F[each]]
    OBVIOUS
  <2> HIDE DEF F
  <2> QED  BY <1>1, <2>1
<1>3. Above = CHOOSE G : IsOver(G)
  BY DEF Above, Over
<1>4. IsOver(Above)
  <2> HIDE DEF IsOver, F
  <2> QED  BY <1>2, <1>3
<1>5. \A each \in Folders : Above[each] = Over(Above, each)
  BY <1>4
<1> DEFINE Q == {m \in Nat : \A each \in Folders : each <= m =>
                                \A e \in Above[each] : e \in Folders /\ e <= each}
<1>6. ASSUME NEW m \in Nat, \A x \in Folders : x < m => \A e \in Above[x] : e \in Folders /\ e <= x,
             NEW each \in Folders, each <= m, NEW e \in Above[each]
      PROVE  e \in Folders /\ e <= each
  <2>1. each \in Nat /\ Parent[each] \in Folders /\ Parent[each] \in Nat
        /\ (Parent[each] # each => Parent[each] < each)
    BY ParentIs
  <2>2. CASE e = each
    BY <2>1, <2>2
  <2>3. CASE e # each
    <3>1. Parent[each] # each /\ e \in Above[Parent[each]]
      BY <1>5, <2>3 DEF Over
    <3>2. Parent[each] < m
      BY <1>6, <2>1, <3>1
    <3>3. e \in Folders /\ e <= Parent[each]
      BY <1>6, <2>1, <3>1, <3>2
    <3>4. e \in Nat
      BY <3>3, FolderFacts
    <3> QED  BY <2>1, <3>1, <3>3, <3>4
  <2> QED  BY <2>2, <2>3
<1>7. 0 \in Q
  BY <1>6, ParentIs
<1>8. ASSUME NEW m \in Q
      PROVE  m + 1 \in Q
  BY <1>6, ParentIs
<1>9. Q = Nat
  <2> HIDE DEF Q
  <2>1. Q \subseteq Nat
    BY DEF Q
  <2> QED  BY <1>7, <1>8, <2>1, EveryNumber
<1>10. \A each \in Folders : each \in Nat /\ each <= each
  BY ParentIs
<1> QED  BY <1>5, <1>9, <1>10

(* A root is within nothing else; and what has the same parent is not within one another. *)
LEMMA RootsAreApart ==
    \A each, root \in Folders : Parent[root] = root /\ root \in Within(each) => each = root
BY AboveIs DEF Within, Over

LEMMA SiblingsAreApart ==
    ASSUME NEW each \in Folders, NEW one \in Folders, NEW other \in Folders,
           Parent[one] = each, Parent[other] = each, one # each, other # each, one # other
    PROVE  one \notin Within(other)
<1> SUFFICES ASSUME other \in Above[one]
             PROVE  FALSE
  BY DEF Within
<1>1. other \in Above[each]
  BY AboveIs DEF Over
<1>2. other <= each /\ each < other
  BY <1>1, AboveIs, ParentIs
<1>3. other \in Nat /\ each \in Nat
  BY ParentIs
<1> QED  BY <1>2, <1>3

(* What is above one of those above a directory is above it; and on the way down from one above it
   there is a next one. *)
LEMMA AboveJoins ==
    /\ \A each \in Folders : \A e \in Above[each] : Above[e] \subseteq Above[each]
    /\ \A each \in Folders : \A e \in Above[each] \ {each} :
          \E next \in Above[each] : Parent[next] = e /\ next # e
    /\ \A each \in Folders : each \in Above[each] /\ Above[each] \subseteq Folders
<1> DEFINE Joins(each) ==
             \A e \in Above[each] :
                /\ Above[e] \subseteq Above[each]
                /\ e # each => \E next \in Above[each] : Parent[next] = e /\ next # e
           Q == {m \in Nat : \A each \in Folders : each <= m => Joins(each)}
<1>1. ASSUME NEW m \in Nat, \A x \in Folders : x < m => Joins(x), NEW each \in Folders, each <= m
      PROVE  Joins(each)
  <2> DEFINE up == Parent[each]
  <2>1. each \in Nat /\ up \in Folders /\ up \in Nat /\ (up # each => up < each)
    BY ParentIs
  <2>2. CASE up = each
    BY <2>2, AboveIs DEF Over
  <2>3. CASE up # each
    <3>1. Above[each] = {each} \cup Above[up] /\ up \in Above[up]
      BY <2>1, <2>3, AboveIs DEF Over
    <3>2. Joins(up)
      BY <1>1, <2>1, <2>3
    <3> HIDE DEF up
    <3>3. Parent[each] = up
      BY DEF up
    <3> SUFFICES ASSUME NEW e \in Above[each]
                 PROVE  /\ Above[e] \subseteq Above[each]
                        /\ e # each => \E next \in Above[each] : Parent[next] = e /\ next # e
      OBVIOUS
    <3>4. CASE e = each
      BY <3>4
    <3>5. CASE e # each
      BY <2>3, <3>1, <3>2, <3>3, <3>5
    <3> QED  BY <3>4, <3>5
  <2> QED  BY <2>2, <2>3
<1> HIDE DEF Joins
<1>2. 0 \in Q
  BY <1>1, ParentIs
<1>3. ASSUME NEW m \in Q
      PROVE  m + 1 \in Q
  BY <1>1, ParentIs
<1>4. Q = Nat
  <2> HIDE DEF Q
  <2>1. Q \subseteq Nat
    BY DEF Q
  <2> QED  BY <1>2, <1>3, <2>1, EveryNumber
<1>5. \A each \in Folders : Joins(each)
  BY <1>4, ParentIs
<1> QED  BY <1>5, AboveIs DEF Joins, Over

(* The messages on their way: those that say a directory is gone, and what they tell of. *)
Tells(message) == "gone" \in DOMAIN message

GoesBy(message, each) == Tells(message) /\ message.gone /\ each \in Within(message.folder)

GoesAfter(s, i, each) == \E j \in DOMAIN s : j > i /\ GoesBy(s[j], each)

LEMMA MessagesAre ==
    /\ \A message \in Merges : Tells(message) /\ "stale" \notin DOMAIN message
    /\ \A message \in Ends : ~Tells(message) /\ "stale" \in DOMAIN message
<1>1. \A message \in Merges : DOMAIN message = {"folder", "shots", "gone", "recheck", "walk"}
  BY DEF Merges
<1>2. \A message \in Ends : DOMAIN message = {"stale", "walk"}
  BY DEF Ends
<1> QED  BY <1>1, <1>2 DEF Tells

LEMMA GoesInTail ==
    ASSUME NEW T, NEW s \in Seq(T), s # <<>>, NEW i \in Nat, NEW each, GoesAfter(s, i, each),
           i > 0 \/ ~GoesBy(Head(s), each)
    PROVE  GoesAfter(Tail(s), IF i = 0 THEN 0 ELSE i - 1, each)
<1>1. PICK j \in DOMAIN s : j > i /\ GoesBy(s[j], each)
  BY DEF GoesAfter
<1>2. /\ Head(s) = s[1] /\ Len(s) \in Nat /\ DOMAIN s = 1 .. Len(s)
      /\ DOMAIN Tail(s) = 1 .. Len(s) - 1
      /\ \A k \in 1 .. Len(s) - 1 : Tail(s)[k] = s[k + 1]
  BY TailHas
<1>3. j # 1
  BY <1>1, <1>2
<1>4. j - 1 \in DOMAIN Tail(s) /\ Tail(s)[j - 1] = s[j]
  BY <1>2, <1>3
<1>5. j - 1 > (IF i = 0 THEN 0 ELSE i - 1)
  BY <1>1, <1>2, <1>3
<1> QED  BY <1>1, <1>4, <1>5 DEF GoesAfter

LEMMA JoinedHas ==
    ASSUME NEW T, NEW s \in Seq(T), NEW t \in Seq(T)
    PROVE  /\ DOMAIN s = 1 .. Len(s) /\ DOMAIN t = 1 .. Len(t)
           /\ Len(s) \in Nat /\ Len(t) \in Nat
           /\ DOMAIN (s \o t) = 1 .. Len(s) + Len(t)
           /\ \A i \in DOMAIN s : i \in DOMAIN (s \o t) /\ (s \o t)[i] = s[i]
           /\ \A i \in DOMAIN t : Len(s) + i \in DOMAIN (s \o t) /\ (s \o t)[Len(s) + i] = t[i]
           /\ \A i \in DOMAIN (s \o t) :
                 i \in DOMAIN s \/ (i > Len(s) /\ i - Len(s) \in DOMAIN t /\ (s \o t)[i] = t[i - Len(s)])
<1>1. /\ DOMAIN s = 1 .. Len(s) /\ DOMAIN t = 1 .. Len(t)
      /\ Len(s) \in Nat /\ Len(t) \in Nat
  OBVIOUS
<1>2. /\ DOMAIN (s \o t) = 1 .. Len(s) + Len(t)
      /\ \A i \in 1 .. Len(s) + Len(t) :
            (s \o t)[i] = IF i <= Len(s) THEN s[i] ELSE t[i - Len(s)]
  BY <1>1, ConcatProperties
<1> DEFINE m == Len(s)
           n == Len(t)
           u == s \o t
<1> HIDE DEF m, n, u
<1>3. m \in Nat /\ n \in Nat /\ DOMAIN s = 1 .. m /\ DOMAIN t = 1 .. n /\ DOMAIN u = 1 .. m + n
      /\ \A i \in 1 .. m + n : u[i] = IF i <= m THEN s[i] ELSE t[i - m]
  BY <1>1, <1>2 DEF m, n, u
<1>4. \A i \in 1 .. m : i \in 1 .. m + n /\ i <= m
  BY <1>3
<1>5. \A i \in 1 .. n : m + i \in 1 .. m + n /\ ~(m + i <= m) /\ (m + i) - m = i
  BY <1>3
<1>6. \A i \in 1 .. m + n : i \in 1 .. m \/ (i > m /\ ~(i <= m) /\ i - m \in 1 .. n)
  BY <1>3
<1>7. /\ \A i \in DOMAIN s : i \in DOMAIN u /\ u[i] = s[i]
      /\ \A i \in DOMAIN t : m + i \in DOMAIN u /\ u[m + i] = t[i]
      /\ \A i \in DOMAIN u : i \in DOMAIN s \/ (i > m /\ i - m \in DOMAIN t /\ u[i] = t[i - m])
  BY <1>3, <1>4, <1>5, <1>6
<1> QED  BY <1>1, <1>2, <1>7 DEF m, n, u

LEMMA GoesInJoined ==
    ASSUME NEW T, NEW s \in Seq(T), NEW t \in Seq(T), NEW i \in Nat, NEW each
    PROVE  /\ GoesAfter(s, i, each) => GoesAfter(s \o t, i, each)
           /\ i <= Len(s) /\ GoesAfter(t, 0, each) => GoesAfter(s \o t, i, each)
           /\ GoesAfter(t, i, each) => GoesAfter(s \o t, Len(s) + i, each)
<1>1. ASSUME GoesAfter(s, i, each)
      PROVE  GoesAfter(s \o t, i, each)
  BY <1>1, JoinedHas DEF GoesAfter
<1>2. ASSUME i <= Len(s), GoesAfter(t, 0, each)
      PROVE  GoesAfter(s \o t, i, each)
  <2>1. PICK j \in DOMAIN t : j > 0 /\ GoesBy(t[j], each)
    BY <1>2 DEF GoesAfter
  <2>2. Len(s) + j \in DOMAIN (s \o t) /\ (s \o t)[Len(s) + j] = t[j] /\ Len(s) \in Nat /\ j \in Nat
    BY JoinedHas
  <2>3. Len(s) + j > i
    BY <1>2, <2>1, <2>2
  <2> QED  BY <2>1, <2>2, <2>3 DEF GoesAfter
<1>3. ASSUME GoesAfter(t, i, each)
      PROVE  GoesAfter(s \o t, Len(s) + i, each)
  <2>1. PICK j \in DOMAIN t : j > i /\ GoesBy(t[j], each)
    BY <1>3 DEF GoesAfter
  <2>2. Len(s) + j \in DOMAIN (s \o t) /\ (s \o t)[Len(s) + j] = t[j] /\ Len(s) \in Nat /\ j \in Nat
    BY JoinedHas
  <2>3. Len(s) + j > Len(s) + i
    BY <2>1, <2>2
  <2> QED  BY <2>1, <2>2, <2>3 DEF GoesAfter
<1> QED  BY <1>1, <1>2, <1>3

(* What is to be read is followed, and so is the root. *)
Roots == {each \in Folders : Parent[each] = each}

BooksSettle(of) ==
    /\ \A e : Has(of.work, e) => e \in of.tree
    /\ of.root \in Folders => of.root \in Roots \cap of.tree

(* Reading one directory tells of every one that is no longer followed, after all else it tells. *)
Settled(of, after) ==
    /\ after.root = of.root /\ after.walk = of.walk /\ after.walking = of.walking
    /\ BooksSettle(after)
    /\ \A i \in DOMAIN after.batch :
          /\ after.batch[i].walk = of.walk
          /\ after.batch[i].gone \/ after.batch[i].folder \in after.tree
                                 \/ GoesAfter(after.batch, i, after.batch[i].folder)
    /\ \A each \in of.tree \ after.tree : GoesAfter(after.batch, 0, each)

LEMMA FailSettles ==
    ASSUME limit \in Nat, NEW of, BooksFit(of), of.batch = <<>>, of.root \in Folders,
           BooksSettle(of), NEW each \in Folders, NEW error
    PROVE  Settled(of, Fail(of, each, error))
<1>1. of \in Books /\ of.failed \subseteq Folders
  BY BooksAre DEF BooksFit, WatchesKept
<1> DEFINE away == each = of.root \/ (error # "other" /\ ~Opens(of.root))
<1>2. ASSUME NEW after, after \in Books, after.root = of.root, after.walk = of.walk,
             after.walking = of.walking, after.tree = of.tree, after.batch = of.batch,
             after.work = of.work
      PROVE  Settled(of, after)
  BY <1>2 DEF Settled, BooksSettle
<1>3. ASSUME NEW then, then \in Books, then.root = of.root, then.walk = of.walk,
             then.walking = of.walking, then.tree = of.tree, then.batch = of.batch,
             then.work = of.work
      PROVE  Settled(of, KeepStale(then, each))
  <2> DEFINE after == KeepStale(then, each)
             stale == IF then.walking THEN then.stale \cup {each} ELSE then.stale
  <2>1. after = [then EXCEPT !.stale = stale] /\ stale \subseteq Folders
    BY <1>3, BooksAre DEF KeepStale
  <2> HIDE DEF stale, after
  <2>2. /\ after \in Books /\ after.root = of.root /\ after.walk = of.walk
        /\ after.walking = of.walking /\ after.tree = of.tree /\ after.batch = of.batch
        /\ after.work = of.work
    BY <1>3, <2>1 DEF Books
  <2>3. Settled(of, after)
    BY <1>2, <2>2
  <2> QED  BY <2>3 DEF after
<1>4. CASE away
  <2> DEFINE then == [of EXCEPT !.unavailable = TRUE]
  <2>1. Fail(of, each, error) = KeepStale(then, each)
    BY <1>4 DEF Fail
  <2>2. /\ then \in Books /\ then.root = of.root /\ then.walk = of.walk
        /\ then.walking = of.walking /\ then.tree = of.tree /\ then.batch = of.batch
        /\ then.work = of.work
    BY <1>1 DEF Books
  <2> HIDE DEF then
  <2> QED  BY <1>3, <2>1, <2>2
<1>5. CASE ~away /\ error = "other"
  <2> DEFINE failed == of.failed \cup {each}
             then == [of EXCEPT !.failed = failed]
  <2>1. Fail(of, each, error) = KeepStale(then, each)
    BY <1>5 DEF Fail
  <2>2. failed \in SUBSET Folders
    BY <1>1
  <2> HIDE DEF failed
  <2>3. /\ then \in Books /\ then.root = of.root /\ then.walk = of.walk
        /\ then.walking = of.walking /\ then.tree = of.tree /\ then.batch = of.batch
        /\ then.work = of.work
    BY <1>1, <2>2 DEF Books
  <2> HIDE DEF then
  <2> QED  BY <1>3, <2>1, <2>3
<1>6. CASE ~away /\ error # "other"
  <2> DEFINE cut == DropSubtree(of, each)
             failed == cut.failed \cup {each}
             after == Fail(of, each, error)
  <2>1. Dropped(of, cut, {each})
    BY DropSubtreeIs
  <2>2. after = [cut EXCEPT !.failed = failed] \/ after = cut
    BY <1>6 DEF Fail
  <2> HIDE DEF cut
  <2>3. cut \in Books
    BY <2>1 DEF Dropped, BooksFit, WatchesKept
  <2>4. failed \in SUBSET Folders
    BY <2>3, BooksAre
  <2> HIDE DEF failed, after
  <2>5. /\ after.root = cut.root /\ after.walk = cut.walk /\ after.walking = cut.walking
        /\ after.tree = cut.tree /\ after.batch = cut.batch /\ after.work = cut.work
        /\ after \in Books
    BY <2>2, <2>3, <2>4 DEF Books
  <2>6. /\ SameCourse(of, cut)
        /\ GoneSince(of, cut, {each})
        /\ cut.tree = of.tree \ (of.tree \cap Within(each))
        /\ cut.watched \ of.watched \subseteq cut.tree
        /\ \A e : Has(cut.work, e) <=>
              (Has(of.work, e) /\ e \notin of.tree \cap Within(each)) \/ e \in cut.watched \ of.watched
    BY <2>1 DEF Beneath, Dropped
  <2>7. after.batch \in Seq(Merges)
    BY <2>5, BooksAre
  <2>8. /\ DOMAIN after.batch = 1 .. Len(after.batch) /\ Len(of.batch) = 0
        /\ \A i \in 1 .. Len(after.batch) : after.batch[i] \in Merges
    BY <2>7
  <2>9. /\ \A i \in DOMAIN after.batch : after.batch[i].gone /\ after.batch[i].walk = of.walk
        /\ \E i \in DOMAIN after.batch : i > 0 /\ after.batch[i].folder = each
    BY <2>5, <2>6, <2>8 DEF GoneSince
  <2>10. \A e \in Within(each) : GoesAfter(after.batch, 0, e)
    BY <2>8, <2>9, MessagesAre DEF GoesAfter, GoesBy
  <2>11. BooksSettle(after)
    BY <1>6, <2>5, <2>6, RootsAreApart DEF BooksSettle, Roots, SameCourse
  <2>12. Settled(of, after)
    BY <2>5, <2>6, <2>9, <2>10, <2>11 DEF Settled, SameCourse
  <2> QED  BY <2>12 DEF after
<1> QED  BY <1>4, <1>5, <1>6

(* What is done before the subfolders are followed adds some to what is to be read, at most. *)
More(of, mid) ==
    /\ mid.tree = of.tree
    /\ \A e : Has(of.work, e) => Has(mid.work, e)
    /\ of.enter \subseteq mid.enter

Going(of, mid, all) ==
    /\ mid.root = of.root /\ mid.walk = of.walk /\ mid.walking = of.walking
    /\ mid.batch = of.batch /\ More(of, mid)
    /\ \A e : Has(mid.work, e) => Has(of.work, e) \/ e \in all

(* And it watches no more of them than before, but for the one that is read. *)
Readied(of, mid, each) ==
    /\ mid.unavailable = (of.unavailable /\ each # of.root)
    /\ of.watcher \subseteq mid.watcher /\ mid.watcher \subseteq mid.watched
    /\ mid.watched \subseteq mid.watcher \cup of.watched
    /\ \A e \in mid.watcher \ of.watcher : Opens(e)
    /\ mid.budget.watched \subseteq of.budget.watched

(* What was not read, and is not within what has vanished, is still known not to be. *)
Forgives(of, mid, each, folders) ==
    \A e \in of.failed \ mid.failed :
        \/ e = each
        \/ \E child \in Folders \ folders : Parent[child] = each /\ child # each /\ e \in Within(child)

(* Then the subfolders are followed, all of them if what is below was to be read, or could not be. *)
ReadsBelow(of, after, each, folders, enter, retry) ==
    \E mid, kept, new : \E entered, recheckAll \in BOOLEAN :
        /\ More(of, mid) /\ Readied(of, mid, each)
        /\ retry /\ Opens(each) => each \notin mid.budget.watched \ mid.watched
        /\ Forgives(of, mid, each, folders)
        /\ enter \/ each \in of.failed \/ (each = of.root /\ of.unavailable) => entered
        /\ Followed(mid, after, each, folders, entered, recheckAll, kept, new)

LEMMA SucceedIs ==
    ASSUME limit \in Nat, shots \in [Folders -> 0 .. 2], present \subseteq Folders,
           NEW of, BooksFit(of), of.root \in Folders,
           NEW each \in Folders,
           NEW enter \in BOOLEAN, NEW recheck \in BOOLEAN, NEW retry \in BOOLEAN,
           retry => each \in of.budget.watched /\ each \notin of.watched
    PROVE  LET after == Succeed(of, each, enter, recheck, retry)
               subfolders == IF of.recursive THEN Children(each) ELSE {}
           IN  /\ BooksFit(after) /\ after.walk = of.walk /\ after.root = of.root
               /\ BooksSettle(of) /\ each \in of.tree /\ of.batch = <<>> => Settled(of, after)
               /\ ReadsBelow(of, after, each, subfolders, enter, retry)
<1> DEFINE recovered == (each = of.root /\ of.unavailable) \/ each \in of.failed
           rooted == IF each = of.root THEN [of EXCEPT !.unavailable = FALSE]
                     ELSE IF of.unavailable THEN Enqueue(of, of.root, TRUE, TRUE)
                     ELSE of
           forgiven == [rooted EXCEPT !.failed = @ \ {each},
                                      !.watched = IF recovered THEN @ \cap of.watcher ELSE @]
           tried == IF retry THEN Watch(forgiven, each) ELSE forgiven
           again == IF retry /\ each \in tried.watched THEN Enqueue(tried, each, FALSE, TRUE)
                                                       ELSE tried
           folders == IF of.recursive THEN Children(each) ELSE {}
           vanished == {child \in again.failed : Parent[child] = each /\ child \notin folders}
           message == [folder |-> each, shots |-> shots[each], gone |-> FALSE,
                       recheck |-> recheck \/ recovered, walk |-> of.walk]
           lost == UNION {Within(child) : child \in vanished}
           read == [again EXCEPT !.batch = Append(@, message), !.failed = @ \ lost]
           after == Succeed(of, each, enter, recheck, retry)
<1>1. /\ of \in Books /\ of.watched \subseteq of.budget.watched /\ of.watcher \subseteq of.watched
      /\ Cardinality(of.watcher) <= limit /\ BudgetFits(of.budget) /\ Known(of.budget) = of.tree
  BY DEF BooksFit, WatchesKept
<1>2. recovered \in BOOLEAN
  OBVIOUS
<1>3. after = FollowSubfolders(read, each, folders, enter \/ recovered, recovered)
  BY ZenonT(60) DEF Succeed
<1>4. /\ BooksFit(rooted) /\ SameWatches(of, rooted)
      /\ Going(of, rooted, {of.root})
      /\ rooted.failed = of.failed /\ rooted.unavailable = (of.unavailable /\ each # of.root)
  <2>1. CASE each = of.root
    <3> DEFINE found == [of EXCEPT !.unavailable = FALSE]
    <3>1. /\ found \in Books /\ found.tree = of.tree /\ SameWatches(of, found)
          /\ Going(of, found, {of.root})
          /\ found.failed = of.failed /\ found.unavailable = FALSE
      BY <1>1 DEF Books, SameWatches, Going, More
    <3>2. rooted = found
      BY <2>1
    <3> HIDE DEF found, rooted
    <3> QED  BY <1>1, <2>1, <3>1, <3>2 DEF BooksFit, WatchesKept, SameWatches
  <2>2. CASE each # of.root /\ of.unavailable
    <3>1. rooted = Enqueue(of, of.root, TRUE, TRUE)
      BY <2>2
    <3> HIDE DEF rooted
    <3>2. Enqueued(of, rooted, {of.root}, TRUE, TRUE)
      BY <1>1, <3>1, EnqueueIs
    <3>3. rooted.unavailable = (of.unavailable /\ each # of.root)
      BY <2>2, <3>2 DEF Enqueued, Aside
    <3> QED  BY <3>1, <3>2, <3>3, EnqueueSame DEF Enqueued, Aside, Going, More
  <2>3. CASE each # of.root /\ ~of.unavailable
    <3>1. rooted = of
      BY <2>3
    <3> HIDE DEF rooted
    <3>2. rooted.unavailable = (of.unavailable /\ each # of.root)
      BY <1>1, <2>3, <3>1, BooksAre
    <3> QED  BY <3>1, <3>2 DEF SameWatches, Going, More
  <2> QED  BY <2>1, <2>2, <2>3
<1> HIDE DEF rooted
<1>5. /\ rooted \in Books /\ rooted.failed \subseteq Folders /\ rooted.watched \subseteq Folders
  BY <1>4, BooksAre DEF BooksFit, WatchesKept
<1>6. PICK forgotten \in SUBSET Folders :
         /\ forgiven = [rooted EXCEPT !.failed = rooted.failed \ {each}, !.watched = forgotten]
         /\ forgotten \subseteq of.watched /\ of.watcher \subseteq forgotten
  <2>1. CASE recovered
    <3>1. forgiven = [rooted EXCEPT !.failed = rooted.failed \ {each},
                                    !.watched = rooted.watched \cap of.watcher]
      BY <1>5, <2>1 DEF Books
    <3> HIDE DEF forgiven, recovered
    <3> QED  BY <1>1, <1>4, <1>5, <3>1 DEF SameWatches
  <2>2. CASE ~recovered
    <3>1. forgiven = [rooted EXCEPT !.failed = rooted.failed \ {each}, !.watched = rooted.watched]
      BY <1>5, <2>2 DEF Books
    <3> HIDE DEF forgiven, recovered
    <3> QED  BY <1>1, <1>4, <1>5, <3>1 DEF SameWatches
  <2> QED  BY <2>1, <2>2
<1> HIDE DEF forgiven
<1>7. /\ forgiven \in Books /\ forgiven.watched = forgotten /\ forgiven.watcher = of.watcher
      /\ forgiven.budget = of.budget /\ forgiven.tree = rooted.tree
      /\ Going(of, forgiven, {of.root}) /\ Readied(of, forgiven, each)
      /\ forgiven.failed = of.failed \ {each}
  BY <1>4, <1>5, <1>6 DEF Books, SameWatches, Going, More, Readied
<1>8. BooksFit(forgiven)
  BY <1>1, <1>4, <1>6, <1>7 DEF BooksFit, WatchesKept, SameWatches
<1>9. /\ BooksFit(tried) /\ Going(of, tried, {of.root}) /\ Readied(of, tried, each)
      /\ tried.failed = of.failed \ {each}
      /\ retry /\ Opens(each) => each \notin tried.budget.watched \ tried.watched
  <2>1. CASE retry
    <3>1. tried = Watch(forgiven, each)
      BY <2>1
    <3>2. each \in forgiven.budget.watched /\ each \notin forgiven.watched
      BY <1>6, <1>7, <2>1
    <3>3. WatchesKept(forgiven)
      BY <1>8 DEF BooksFit
    <3> HIDE DEF tried
    <3>4. WatchesKept(tried) /\ Aside(forgiven, tried) /\ Known(tried.budget) = Known(forgiven.budget)
          /\ SameWork(forgiven, tried)
      BY <3>1, <3>2, <3>3, WatchIs
    <3>5. /\ forgiven.watcher \subseteq tried.watcher
          /\ tried.watched \subseteq tried.watcher \cup forgiven.watched
          /\ \A e \in tried.watcher \ forgiven.watcher : Opens(e)
          /\ tried.budget.watched \subseteq forgiven.budget.watched
          /\ Opens(each) => each \notin tried.budget.watched \ tried.watched
      BY <3>1, <3>2, <3>3, WatchIs
    <3>6. Readied(of, tried, each)
      BY <1>7, <3>4, <3>5 DEF Readied, Aside, WatchesKept
    <3> QED  BY <1>7, <1>8, <3>4, <3>5, <3>6 DEF BooksFit, Aside, SameWork, Going, More
  <2>2. CASE ~retry
    <3>1. tried = forgiven
      BY <2>2
    <3> HIDE DEF tried
    <3> QED  BY <1>7, <1>8, <2>2, <3>1
  <2> QED  BY <2>1, <2>2
<1> HIDE DEF tried
<1>10. /\ BooksFit(again) /\ Going(of, again, {of.root, each})
       /\ SameWatches(tried, again) /\ again.failed = tried.failed
       /\ again.unavailable = tried.unavailable
  <2>1. CASE retry /\ each \in tried.watched
    <3>1. again = Enqueue(tried, each, FALSE, TRUE)
      BY <2>1
    <3> HIDE DEF again
    <3>2. tried \in Books
      BY <1>9 DEF BooksFit, WatchesKept
    <3>3. Enqueued(tried, again, {each}, FALSE, TRUE)
      BY <3>1, <3>2, EnqueueIs
    <3> QED  BY <1>9, <3>1, <3>3, EnqueueSame DEF Enqueued, Aside, Going, More
  <2>2. CASE ~(retry /\ each \in tried.watched)
    <3>1. again = tried
      BY <2>2
    <3> HIDE DEF again
    <3> QED  BY <1>9, <3>1 DEF Going, More, SameWatches
  <2> QED  BY <2>1, <2>2
<1> HIDE DEF again
<1>11. again \in Books /\ again.failed \subseteq Folders /\ again.batch \in Seq(Merges)
  BY <1>10, BooksAre DEF BooksFit, WatchesKept
<1>12. message \in Merges
  BY <1>1, <1>2, BooksAre DEF Merges
<1>m. message.folder = each /\ message.gone = FALSE /\ message.walk = of.walk
  OBVIOUS
<1> HIDE DEF message, lost
<1>13. Append(again.batch, message) \in Seq(Merges)
  BY <1>11, <1>12
<1>14. /\ read \in Books /\ read.tree = again.tree /\ read.walk = again.walk
       /\ read.root = again.root /\ SameWatches(again, read)
       /\ read.walking = again.walking /\ read.batch = Append(again.batch, message)
       /\ read.work = again.work /\ read.enter = again.enter
       /\ read.unavailable = again.unavailable /\ read.failed = again.failed \ lost
  BY <1>11, <1>13 DEF Books, SameWatches
<1> HIDE DEF read
<1>15. BooksFit(read)
  BY <1>10, <1>14 DEF BooksFit, WatchesKept, SameWatches
<1>m1. More(of, read) /\ Readied(of, read, each)
  BY <1>9, <1>10, <1>14 DEF Going, More, Readied, SameWatches
<1>m2. retry /\ Opens(each) => each \notin read.budget.watched \ read.watched
  BY <1>9, <1>10, <1>14 DEF SameWatches
<1>m3. Forgives(of, read, each, folders)
  <2>1. \A e \in of.failed \ read.failed : e = each \/ e \in lost
    BY <1>9, <1>10, <1>14
  <2>2. \A e \in lost : \E child \in again.failed :
           Parent[child] = each /\ child \notin folders /\ e \in Within(child)
    BY DEF lost
  <2> HIDE DEF folders
  <2>3. \A child \in again.failed : child \in Folders /\ child # each
    BY <1>9, <1>10, <1>11
  <2> QED  BY <2>1, <2>2, <2>3 DEF Forgives
<1>m4. each \in of.failed \/ (each = of.root /\ of.unavailable) => enter \/ recovered
  OBVIOUS
<1>f. folders = IF of.recursive THEN Children(each) ELSE {}
  OBVIOUS
<1>16. folders \in SUBSET Folders
  BY DEF Children
<1> HIDE DEF folders, recovered
<1>17. PICK kept, new :
          Followed(read, FollowSubfolders(read, each, folders, enter \/ recovered, recovered), each,
                   folders, enter \/ recovered, recovered, kept, new)
  BY <1>2, <1>15, <1>16, FollowSubfoldersIs
<1> DEFINE entered == enter \/ recovered
<1>18. /\ BooksFit(after) /\ SameCourse(read, after)
       /\ Followed(read, after, each, folders, entered, recovered, kept, new)
  BY <1>3, <1>17 DEF Followed
<1>19. \A e \in folders : Parent[e] = each /\ e # each
  BY DEF folders, Children
<1> HIDE DEF after, folders, recovered, entered
<1>20. BooksFit(after) /\ after.walk = of.walk /\ after.root = of.root /\ after.walking = of.walking
       /\ read.tree = of.tree /\ read.batch = Append(of.batch, message)
       /\ \A e : Has(read.work, e) => Has(of.work, e) \/ e \in {of.root, each}
  BY <1>10, <1>14, <1>18 DEF SameCourse, Going, More
<1>21. ASSUME BooksSettle(of), each \in of.tree, of.batch = <<>>
       PROVE  Settled(of, after)
  <2> DEFINE dying == KnownBelow(read, each) \ folders
  <2>1. /\ GoneSince(read, after, dying)
        /\ after.tree = (read.tree \cup folders) \ Beneath(dying)
        /\ new \subseteq after.tree
        /\ \A e : Has(after.work, e) =>
              \/ Has(read.work, e) /\ e \notin (read.tree \cup folders) \cap Beneath(dying)
              \/ e \in new \cup folders
    BY <1>18 DEF Followed, ToRead
  <2>2. \A e \in dying : e \in of.tree /\ e \in Folders /\ Parent[e] = each /\ e # each /\ e \notin folders
    BY <1>1, <1>20, BooksAre DEF KnownBelow
  <2> HIDE DEF dying
  <2>3. \A e \in folders : e \notin Beneath(dying)
    BY <1>16, <1>19, <2>2, SiblingsAreApart DEF Beneath
  <2>4. of.root \in Roots /\ of.root \in of.tree /\ of.root \notin Beneath(dying)
    BY <1>21, <2>2, RootsAreApart DEF BooksSettle, Roots, Beneath
  <2>5. BooksSettle(after)
    BY <1>20, <1>21, <2>1, <2>3, <2>4 DEF BooksSettle
  <2>6. read.batch = <<message>>
    BY <1>20, <1>21
  <2>7. after.batch \in Seq(Merges) /\ after \in Books
    BY <1>20, BooksAre DEF BooksFit, WatchesKept
  <2>8. /\ DOMAIN after.batch = 1 .. Len(after.batch) /\ Len(after.batch) \in Nat
        /\ \A i \in 1 .. Len(after.batch) : after.batch[i] \in Merges
    BY <2>7
  <2>9. Len(read.batch) = 1 /\ read.batch[1] = message /\ read.walk = of.walk
    BY <1>10, <1>14, <2>6 DEF Going, More
  <2>10. /\ 1 <= Len(after.batch) /\ after.batch[1] = message
         /\ \A i \in 2 .. Len(after.batch) :
               after.batch[i].gone /\ after.batch[i].walk = of.walk
         /\ \A e \in dying : \E i \in 2 .. Len(after.batch) : after.batch[i].folder = e
    BY <2>1, <2>9 DEF GoneSince
  <2>11. \A e \in Beneath(dying) : GoesAfter(after.batch, 1, e) /\ GoesAfter(after.batch, 0, e)
    <3> SUFFICES ASSUME NEW x \in dying, NEW e \in Within(x)
                 PROVE  GoesAfter(after.batch, 1, e) /\ GoesAfter(after.batch, 0, e)
      BY DEF Beneath
    <3>1. PICK i \in 2 .. Len(after.batch) : after.batch[i].folder = x
      BY <2>10
    <3>2. GoesBy(after.batch[i], e) /\ i \in DOMAIN after.batch /\ i > 1 /\ i > 0
      BY <2>8, <2>10, <3>1, MessagesAre DEF GoesBy
    <3> QED  BY <3>2 DEF GoesAfter
  <2>12. \A i \in DOMAIN after.batch :
            /\ after.batch[i].walk = of.walk
            /\ after.batch[i].gone \/ after.batch[i].folder \in after.tree
                                   \/ GoesAfter(after.batch, i, after.batch[i].folder)
    BY <1>m, <1>20, <1>21, <2>1, <2>8, <2>10, <2>11
  <2>13. \A e \in of.tree \ after.tree : GoesAfter(after.batch, 0, e)
    BY <1>20, <2>1, <2>11
  <2> QED  BY <1>20, <2>5, <2>12, <2>13 DEF Settled
<1>22. recovered \in BOOLEAN /\ entered \in BOOLEAN /\ (enter => entered)
       /\ (each \in of.failed \/ (each = of.root /\ of.unavailable) => entered)
  BY <1>2, <1>m4 DEF entered
<1>23. ReadsBelow(of, after, each, folders, enter, retry)
  BY <1>18, <1>m1, <1>m2, <1>m3, <1>22 DEF ReadsBelow
<1> QED  BY <1>20, <1>21, <1>23, <1>f DEF after

-----------------------------------------------------------------------------
(* The rows and the folder: what everything is, and that the books fit. *)
Begins == [root : Folders, recursive : BOOLEAN, walk : Nat]

DiskTypes ==
    /\ present \subseteq Folders
    /\ shots \in [Folders -> 0 .. 2]
    /\ mounted \in BOOLEAN
    /\ limit \in Nat
    /\ reports \subseteq Folders

ModelTypes ==
    /\ wanted \in Nat
    /\ begins \in Seq(Begins)
    /\ incoming \in Seq(Merges \cup Ends)
    /\ folder \in Folders \cup {None}
    /\ recursive \in BOOLEAN
    /\ walk \in Nat
    /\ walking \in {"none", "listing", "refresh", "toggle"}
    /\ rows \in [Folders -> 0 .. 2]
    /\ seen \cup unchecked \cup dropped \subseteq Folders

(* What is to be read has a root, and a watch that is tried again after the read is still owed. *)
ListerTypes ==
    /\ BooksFit(books)
    /\ books.root \in Folders \/ (books.tree = {} /\ books.work = <<>>)
    /\ dirty \subseteq Folders
    /\ {timer, scheduled} \subseteq BOOLEAN
    /\ reading \in Readings \cup {None}
    /\ reading # None =>
        /\ books.root \in Folders
        /\ reading.retry => reading.folder \in books.budget.watched \ books.watched

PipelineFits == DiskTypes /\ ModelTypes /\ ListerTypes

LEMMA EmptyHas ==
    ASSUME NEW T, NEW s \in Seq(T), \A e : ~Has(s, e)
    PROVE  s = <<>>
<1> SUFFICES ASSUME s # <<>>
             PROVE  FALSE
  OBVIOUS
<1> QED  BY TailHas

LEMMA TreesAreFolders == \A all \in Trees : all \subseteq Folders
BY PipelineAssumption

LEMMA StillFits ==
    ASSUME limit' = limit, BooksFit(books')
    PROVE  BooksFit(books)'
BY DEF BooksFit, WatchesKept

LEMMA PipelineInitHolds == Init => PipelineFits
<1> SUFFICES ASSUME Init
             PROVE  PipelineFits
  OBVIOUS
<1>0. Initially
  BY DEF Init
<1>1. DiskTypes
  BY <1>0, LimitIsNumber, TreesAreFolders DEF Init, Initially, DiskTypes
<1>2. ModelTypes
  <2>1. <<>> \in Seq(Begins) /\ <<>> \in Seq(Merges \cup Ends)
    OBVIOUS
  <2>2. [each \in Folders |-> 0] \in [Folders -> 0 .. 2]
    OBVIOUS
  <2>3. /\ wanted = 0 /\ begins = <<>> /\ incoming = <<>> /\ folder = None /\ recursive = FALSE
        /\ walk = 0 /\ walking = "none" /\ seen = {} /\ unchecked = {} /\ dropped = {}
        /\ rows = [each \in Folders |-> 0]
    BY <1>0 DEF Init, Initially
  <2>4. rows \in [Folders -> 0 .. 2]
    BY <2>2, <2>3
  <2> QED  BY <2>1, <2>3, <2>4 DEF ModelTypes
<1>3. ListerTypes
  <2>1. books = [root |-> None, recursive |-> FALSE, walk |-> 0, walking |-> FALSE, tree |-> {},
                 watched |-> {}, watcher |-> {}, budget |-> EmptyBudget(MaxWatched),
                 work |-> <<>>, enter |-> {}, recheck |-> {}, failed |-> {},
                 unavailable |-> FALSE, batch |-> <<>>, stale |-> {}]
    BY <1>0 DEF Initially
  <2>2. EmptyBudget(MaxWatched) \in Budgets
    BY EmptyFits DEF BudgetFits
  <2>3. books \in Books
    BY <2>1, <2>2 DEF Books
  <2>4. Cardinality(books.watcher) = 0 /\ 0 <= limit
    BY <1>1, <2>1, FS_EmptySet DEF DiskTypes
  <2>5. BooksFit(books)
    BY <2>1, <2>3, <2>4, EmptyFits DEF BooksFit, WatchesKept
  <2>6. books.tree = {} /\ books.work = <<>>
    BY <2>1
  <2>7. dirty = {} /\ timer = FALSE /\ scheduled = FALSE /\ reading = None
    BY <1>0 DEF Initially
  <2> QED  BY <2>5, <2>6, <2>7 DEF ListerTypes
<1> QED  BY <1>1, <1>2, <1>3 DEF PipelineFits

LEMMA DiskFits == PipelineFits /\ Disk => PipelineFits'
<1> SUFFICES ASSUME PipelineFits, Disk
             PROVE  PipelineFits'
  OBVIOUS
<1>1. /\ books \in Books /\ books.watcher \subseteq Folders /\ books.watched \subseteq Folders
      /\ limit \in Nat
  BY BooksAre DEF PipelineFits, DiskTypes, ListerTypes, BooksFit, WatchesKept
<1>2. /\ limit' = limit
      /\ UNCHANGED <<wanted, begins, incoming, folder, recursive, walk, walking, rows, seen, dropped,
                     dirty, timer, scheduled, reading>>
  BY DEF Disk, ChangeShots, ReplaceSidecar, AddFolder, RemoveFolder, Unmount, Mount, Change, requests,
         model, lister, disk
<1>3. \E gone : books' = [books EXCEPT !.watcher = @ \ gone]
  <2>1. CASE books' = books
    <3>1. books.watcher \ {} = books.watcher
      OBVIOUS
    <3>2. books = [books EXCEPT !.watcher = @ \ {}]
      BY <1>1, <3>1 DEF Books
    <3> QED  BY <2>1, <3>2
  <2>2. CASE \E each : books' = [books EXCEPT !.watcher = @ \ Within(each)]
    BY <2>2
  <2>3. CASE books' = [books EXCEPT !.watcher = {}]
    BY <1>1, <2>3 DEF Books
  <2> QED  BY <2>1, <2>2, <2>3
           DEF Disk, ChangeShots, ReplaceSidecar, AddFolder, RemoveFolder, Unmount, Mount, Change,
               lister
<1>4. ListerTypes'
  <2>1. PICK gone : books' = [books EXCEPT !.watcher = @ \ gone]
    BY <1>3
  <2>2. /\ books' \in Books /\ books'.watcher = books.watcher \ gone
        /\ books'.watched = books.watched /\ books'.budget = books.budget
        /\ books'.tree = books.tree /\ books'.root = books.root /\ books'.work = books.work
    BY <1>1, <2>1 DEF Books
  <2>3. BooksFit(books)
    BY DEF PipelineFits, ListerTypes
  <2>4. Cardinality(books'.watcher) <= limit
    BY <1>1, <2>2, <2>3, FewerAreKept DEF BooksFit, WatchesKept
  <2>5. BooksFit(books')
    BY <2>2, <2>3, <2>4 DEF BooksFit, WatchesKept
  <2>6. BooksFit(books)'
    BY <1>2, <2>5, StillFits
  <2> QED  BY <1>2, <2>2, <2>6 DEF PipelineFits, ListerTypes
<1>5. DiskTypes'
  <2>1. DiskTypes /\ reports \subseteq Folders /\ unchecked \subseteq Folders
    BY DEF PipelineFits, DiskTypes, ModelTypes
  <2>2. present' \subseteq Folders /\ mounted' \in BOOLEAN
    BY <2>1 DEF DiskTypes, Disk, ChangeShots, ReplaceSidecar, AddFolder, RemoveFolder, Unmount, Mount
  <2>3. shots' \in [Folders -> 0 .. 2]
    <3>1. CASE UNCHANGED shots
      BY <2>1, <3>1 DEF DiskTypes
    <3>2. CASE \E each \in present : shots' = [shots EXCEPT ![each] = (@ + 1) % 3]
      BY <2>1, <3>2 DEF DiskTypes
    <3>3. CASE \E each \in Folders, some \in 0 .. 1 : shots' = [shots EXCEPT ![each] = some]
      BY <2>1, <3>3 DEF DiskTypes
    <3>4. CASE \E each \in present : shots' = [other \in Folders |->
                                                  IF other \in Within(each) THEN 0 ELSE shots[other]]
      BY <2>1, <3>4 DEF DiskTypes
    <3> QED  BY <3>1, <3>2, <3>3, <3>4
             DEF Disk, ChangeShots, ReplaceSidecar, AddFolder, RemoveFolder, Unmount, Mount
  <2>4. reports' \subseteq Folders
    BY <1>1, <2>1
       DEF Disk, ChangeShots, ReplaceSidecar, AddFolder, RemoveFolder, Unmount, Mount, Report
  <2> QED  BY <1>1, <1>2, <2>2, <2>3, <2>4 DEF DiskTypes
<1>6. ModelTypes'
  <2>1. DiskTypes /\ ModelTypes
    BY DEF PipelineFits
  <2>2. unchecked' \subseteq Folders
    <3>1. unchecked \subseteq Folders /\ present \subseteq Folders
      BY <2>1 DEF DiskTypes, ModelTypes
    <3>2. CASE ReplaceSidecar
      BY <3>1, <3>2 DEF ReplaceSidecar
    <3>3. CASE RemoveFolder
      BY <3>1, <3>3 DEF RemoveFolder
    <3>4. CASE ChangeShots \/ AddFolder \/ Unmount \/ Mount
      BY <3>1, <3>4 DEF ChangeShots, AddFolder, Unmount, Mount, model
    <3> QED  BY <3>2, <3>3, <3>4 DEF Disk
  <2> QED  BY <1>2, <2>1, <2>2 DEF ModelTypes
<1> QED  BY <1>4, <1>5, <1>6 DEF PipelineFits

LEMMA WithinAreFolders == \A each : Within(each) \subseteq Folders
BY DEF Within

(* A message of the lister, taken by the model. *)
LEMMA MessageIs ==
    ASSUME ModelTypes, incoming # <<>>
    PROVE  /\ Message \in Merges \cup Ends
           /\ Tail(incoming) \in Seq(Merges \cup Ends)
           /\ "gone" \in DOMAIN Message => Message \in Merges
           /\ "stale" \in DOMAIN Message => Message \in Ends
<1>1. Message \in Merges \cup Ends /\ Tail(incoming) \in Seq(Merges \cup Ends)
  BY TailHas DEF ModelTypes, Message
<1>2. \A message \in Merges : DOMAIN message = {"folder", "shots", "gone", "recheck", "walk"}
  BY DEF Merges
<1>3. \A message \in Ends : DOMAIN message = {"stale", "walk"}
  BY DEF Ends
<1> HIDE DEF Message
<1> QED  BY <1>1, <1>2, <1>3

LEMMA StartWalkFits ==
    ASSUME PipelineFits, StartWalk, folder' \in Folders, recursive' \in BOOLEAN,
           rows' \in [Folders -> 0 .. 2], unchecked' \cup dropped' \subseteq Folders,
           incoming' = <<>> \/ incoming' = incoming,
           walking' \in {"none", "listing", "refresh", "toggle"}
    PROVE  PipelineFits'
<1>1. /\ UNCHANGED <<present, shots, mounted, limit, reports, books, dirty, timer, scheduled, reading>>
      /\ walk' = walk + 1 /\ wanted' = walk + 1 /\ seen' = {}
      /\ begins' = Append(begins, [root |-> folder', recursive |-> recursive', walk |-> walk + 1])
  BY DEF StartWalk, disk, lister
<1>2. DiskTypes'
  BY <1>1 DEF PipelineFits, DiskTypes
<1>3. ListerTypes'
  BY <1>1 DEF PipelineFits, ListerTypes, BooksFit, WatchesKept
<1>4. ModelTypes'
  <2>1. ModelTypes /\ walk + 1 \in Nat
    BY DEF PipelineFits, ModelTypes
  <2>2. [root |-> folder', recursive |-> recursive', walk |-> walk + 1] \in Begins
    BY <2>1 DEF Begins
  <2>3. begins' \in Seq(Begins)
    BY <1>1, <2>1, <2>2 DEF ModelTypes
  <2>4. incoming' \in Seq(Merges \cup Ends)
    <3>1. <<>> \in Seq(Merges \cup Ends)
      OBVIOUS
    <3> QED  BY <2>1, <3>1 DEF ModelTypes
  <2> QED  BY <1>1, <2>1, <2>3, <2>4 DEF ModelTypes
<1> QED  BY <1>2, <1>3, <1>4 DEF PipelineFits

LEMMA ModelFits ==
    ASSUME PipelineFits,
           \/ SetFolder \/ SetRecursive \/ Refresh
           \/ DropIncoming \/ RemoveTree \/ MergeFolder \/ EndWalk
    PROVE  PipelineFits'
<1>0. /\ ModelTypes /\ DiskTypes /\ ListerTypes
      /\ rows \in [Folders -> 0 .. 2] /\ unchecked \subseteq Folders /\ dropped \subseteq Folders
      /\ seen \subseteq Folders
      /\ incoming \in Seq(Merges \cup Ends) /\ recursive \in BOOLEAN /\ folder \in Folders \cup {None}
  BY DEF PipelineFits, ModelTypes
<1>1. CASE SetFolder
  BY <1>1, StartWalkFits DEF SetFolder
<1>2. CASE SetRecursive
  BY <1>0, <1>2, WithinAreFolders, StartWalkFits DEF Goings, SetRecursive, ModelTypes
<1>3. CASE Refresh
  BY <1>0, <1>3, StartWalkFits DEF Refresh
<1>4. CASE DropIncoming \/ RemoveTree \/ MergeFolder \/ EndWalk
  <2>1. incoming # <<>> /\ incoming' = Tail(incoming)
    BY <1>4 DEF DropIncoming, RemoveTree, MergeFolder, EndWalk
  <2>2. /\ UNCHANGED <<present, shots, mounted, limit, reports, books, dirty, timer, scheduled, reading,
                       wanted, begins, folder, recursive, walk>>
    BY <1>4 DEF DropIncoming, RemoveTree, MergeFolder, EndWalk, disk, lister, requests
  <2>3. DiskTypes'
    BY <1>0, <2>2 DEF DiskTypes
  <2>4. ListerTypes'
    BY <1>0, <2>2 DEF ListerTypes, BooksFit, WatchesKept
  <2>5. /\ Message \in Merges \cup Ends /\ incoming' \in Seq(Merges \cup Ends)
        /\ "gone" \in DOMAIN Message => Message \in Merges
        /\ "stale" \in DOMAIN Message => Message \in Ends
    BY <1>0, <2>1, MessageIs
  <2>6. \A message \in Merges : message.folder \in Folders /\ message.shots \in 0 .. 2
    BY DEF Merges
  <2>7. rows' \in [Folders -> 0 .. 2]
    <3> HIDE DEF Message
    <3>1. CASE DropIncoming
      BY <1>0, <3>1 DEF DropIncoming
    <3>2. CASE RemoveTree
      BY <1>0, <3>2 DEF RemoveTree
    <3>3. CASE MergeFolder
      BY <1>0, <2>5, <2>6, <3>3 DEF MergeFolder
    <3>4. CASE EndWalk
      BY <1>0, <3>4 DEF EndWalk
    <3> QED  BY <1>4, <3>1, <3>2, <3>3, <3>4
  <2>8. seen' \cup unchecked' \cup dropped' \subseteq Folders
    <3> HIDE DEF Message
    <3>1. CASE DropIncoming
      BY <1>0, <3>1, WithinAreFolders DEF DropIncoming
    <3>2. CASE RemoveTree
      BY <1>0, <3>2 DEF RemoveTree
    <3>3. CASE MergeFolder
      BY <1>0, <2>5, <2>6, <3>3 DEF MergeFolder
    <3>4. CASE EndWalk
      BY <1>0, <3>4 DEF EndWalk
    <3> QED  BY <1>4, <3>1, <3>2, <3>3, <3>4
  <2>9. walking' \in {"none", "listing", "refresh", "toggle"}
    BY <1>0, <1>4 DEF DropIncoming, RemoveTree, MergeFolder, EndWalk, ModelTypes
  <2>10. ModelTypes'
    BY <1>0, <2>2, <2>5, <2>7, <2>8, <2>9 DEF ModelTypes
  <2> QED  BY <2>3, <2>4, <2>10 DEF PipelineFits
<1> QED  BY <1>1, <1>2, <1>3, <1>4

(* The lister's handlers. *)
LEMMA AbandonFits ==
    ASSUME NEW of, BooksFit(of)
    PROVE  LET after == Abandon(of)
           IN  /\ BooksFit(after) /\ after.root = of.root /\ after.walk = of.walk
               /\ SameWatches(of, after) /\ after.tree = of.tree
               /\ after.work = <<>> /\ after.enter = {} /\ after.recheck = {}
               /\ after.walking = FALSE
<1> DEFINE after == Abandon(of)
<1>1. of \in Books
  BY DEF BooksFit, WatchesKept
<1>2. <<>> \in Seq(Folders)
  OBVIOUS
<1>3. /\ after \in Books /\ after.root = of.root /\ after.walk = of.walk
      /\ SameWatches(of, after) /\ after.tree = of.tree
      /\ after.work = <<>> /\ after.enter = {} /\ after.recheck = {} /\ after.walking = FALSE
  BY <1>1, <1>2 DEF Abandon, Books, SameWatches
<1> HIDE DEF after
<1>4. BooksFit(after)
  BY <1>3 DEF BooksFit, WatchesKept, SameWatches
<1> QED  BY <1>3, <1>4 DEF after

LEMMA ForgetDroppedFits ==
    ASSUME NEW of, BooksFit(of)
    PROVE  BooksFit(ForgetDropped(of)) /\ ForgetDropped(of).root = of.root
<1> DEFINE after == ForgetDropped(of)
           kept == of.watched \cap of.watcher
<1>1. of \in Books /\ of.watcher \subseteq of.watched
  BY DEF BooksFit, WatchesKept
<1>2. kept \in SUBSET Folders
  BY <1>1, BooksAre
<1>3. after = [of EXCEPT !.watched = kept]
  BY <1>1 DEF ForgetDropped, Books
<1>4. kept \subseteq of.watched /\ of.watcher \subseteq kept
  BY <1>1
<1> HIDE DEF after, kept
<1>5. /\ after \in Books /\ after.watched = kept /\ after.watcher = of.watcher
      /\ after.budget = of.budget /\ after.tree = of.tree /\ after.root = of.root
  BY <1>1, <1>2, <1>3 DEF Books
<1>6. BooksFit(after)
  BY <1>4, <1>5 DEF BooksFit, WatchesKept
<1> QED  BY <1>5, <1>6 DEF after

(* The books of another root. *)
Emptied(of, root) ==
    [Abandon(of) EXCEPT !.root = root, !.tree = {}, !.watched = {}, !.watcher = {}, !.failed = {},
                        !.unavailable = FALSE, !.budget = EmptyBudget(MaxWatched)]

LEMMA EmptiedFits ==
    ASSUME limit \in Nat, NEW of, BooksFit(of), NEW root \in Folders
    PROVE  BooksFit(Emptied(of, root)) /\ Emptied(of, root).root = root
<1> DEFINE after == Emptied(of, root)
           left == Abandon(of)
           budget == EmptyBudget(MaxWatched)
<1>1. left \in Books
  BY AbandonFits DEF BooksFit, WatchesKept
<1>2. BudgetFits(budget) /\ Known(budget) = {} /\ budget \in Budgets
  BY EmptyFits DEF BudgetFits
<1>3. after = [left EXCEPT !.root = root, !.tree = {}, !.watched = {}, !.watcher = {}, !.failed = {},
                           !.unavailable = FALSE, !.budget = budget]
  BY DEF Emptied
<1> HIDE DEF left, budget, after
<1>4. /\ after \in Books /\ after.tree = {} /\ after.watched = {} /\ after.watcher = {}
      /\ after.budget = budget /\ after.root = root
  BY <1>1, <1>2, <1>3 DEF Books
<1>5. Cardinality(after.watcher) <= limit
  BY <1>4, FS_EmptySet
<1>6. BooksFit(after)
  BY <1>2, <1>4, <1>5 DEF BooksFit, WatchesKept
<1> QED  BY <1>4, <1>6 DEF after

Begun(of, call) ==
    LET kept == IF call.root = of.root THEN ForgetDropped(Abandon(of)) ELSE Emptied(of, call.root)
        rooted == Track([kept EXCEPT !.recursive = call.recursive, !.walk = call.walk,
                                     !.walking = TRUE], call.root)
    IN  Enqueue(ApplyMoves(rooted, SetCap(rooted.budget, MaxWatched)), call.root, TRUE, FALSE)

LEMMA BegunIs ==
    ASSUME limit \in Nat, NEW of, BooksFit(of), NEW call \in Begins
    PROVE  /\ BooksFit(Begun(of, call))
           /\ Begun(of, call).root = call.root /\ Begun(of, call).recursive = call.recursive
           /\ Begun(of, call).walk = call.walk /\ Begun(of, call).walking = TRUE
           /\ Has(Begun(of, call).work, call.root)
           /\ Begun(of, call).batch = of.batch
           /\ \A e : e \in Begun(of, call).tree <=>
                     e = call.root \/ (call.root = of.root /\ e \in of.tree)
           /\ call.root \in Begun(of, call).enter
           /\ Begun(of, call).watched \subseteq Begun(of, call).watcher
           /\ \A e \in Begun(of, call).watcher \ of.watcher : Opens(e)
           /\ call.root \in Roots => BooksSettle(Begun(of, call))
<1> DEFINE kept == IF call.root = of.root THEN ForgetDropped(Abandon(of)) ELSE Emptied(of, call.root)
           started == [kept EXCEPT !.recursive = call.recursive, !.walk = call.walk, !.walking = TRUE]
           rooted == Track(started, call.root)
           budget == SetCap(rooted.budget, MaxWatched)
           moved == ApplyMoves(rooted, budget)
           after == Enqueue(moved, call.root, TRUE, FALSE)
<1>1. call.root \in Folders /\ call.recursive \in BOOLEAN /\ call.walk \in Nat
  BY DEF Begins
<1>2. /\ BooksFit(kept) /\ kept.root = call.root /\ kept.work = <<>> /\ kept.batch = of.batch
      /\ kept.tree = IF call.root = of.root THEN of.tree ELSE {}
      /\ kept.watched \subseteq kept.watcher /\ kept.watcher \subseteq of.watcher
  <2>1. CASE call.root = of.root
    <3>1. BooksFit(Abandon(of)) /\ Abandon(of).root = of.root
      BY AbandonFits
    <3>2. kept = ForgetDropped(Abandon(of))
      BY <2>1
    <3> HIDE DEF kept
    <3>4. /\ kept.work = <<>> /\ kept.batch = of.batch /\ kept.tree = of.tree
          /\ kept.watched \subseteq kept.watcher /\ kept.watcher = of.watcher
      BY <3>2 DEF BooksFit, WatchesKept, ForgetDropped, Abandon, Books
    <3> QED  BY <2>1, <3>1, <3>2, <3>4, ForgetDroppedFits
  <2>2. CASE call.root # of.root
    <3>1. kept = Emptied(of, call.root)
      BY <2>2
    <3> HIDE DEF kept
    <3>2. /\ kept.work = <<>> /\ kept.batch = of.batch
          /\ kept.tree = {} /\ kept.watched = {} /\ kept.watcher = {}
      BY <3>1 DEF BooksFit, WatchesKept, Emptied, Abandon, Books
    <3> QED  BY <1>1, <2>2, <3>1, <3>2, EmptiedFits
  <2> QED  BY <2>1, <2>2
<1> HIDE DEF kept
<1>3. kept \in Books
  BY <1>2 DEF BooksFit, WatchesKept
<1>4. /\ started \in Books /\ SameWatches(kept, started) /\ started.tree = kept.tree
      /\ started.root = kept.root /\ started.recursive = call.recursive
      /\ started.walk = call.walk /\ started.walking = TRUE
      /\ started.work = kept.work /\ started.batch = kept.batch
  BY <1>1, <1>3 DEF Books, SameWatches
<1> HIDE DEF started
<1>5. BooksFit(started)
  BY <1>2, <1>4 DEF BooksFit, WatchesKept, SameWatches
<1>6. /\ BooksFit(rooted) /\ SameCourse(started, rooted)
      /\ rooted.work = started.work /\ rooted.batch = started.batch
      /\ rooted.tree = started.tree \cup {call.root}
      /\ rooted.watched \subseteq started.watched
      /\ rooted.watcher = started.watcher \cap rooted.watched
  BY <1>1, <1>5, TrackIs DEF Tracked, SameWork
<1> HIDE DEF rooted
<1>7. WatchesKept(rooted) /\ Known(rooted.budget) = rooted.tree /\ BudgetFits(rooted.budget)
  BY <1>6 DEF BooksFit, WatchesKept
<1>8. BudgetFits(budget) /\ Known(budget) = Known(rooted.budget)
  BY <1>7, SetCapFits
<1> HIDE DEF budget
<1>9. WatchesKept(moved) /\ Aside(rooted, moved) /\ Known(moved.budget) = Known(budget)
  BY <1>7, <1>8, ApplyMovesIs
<1>9a. \A e : Has(moved.work, e) => Has(rooted.work, e) \/ e \in rooted.tree
  BY <1>7, <1>8, ApplyMovesIs
<1>9b. LET new == moved.watched \ rooted.watched IN
          /\ moved.watched = (rooted.watched \cap budget.watched) \cup new
          /\ moved.watcher = (rooted.watcher \cap budget.watched) \cup new
          /\ \A e \in new : Opens(e)
  BY <1>7, <1>8, ApplyMovesIs
<1> HIDE DEF moved
<1>10. BooksFit(moved)
  BY <1>7, <1>8, <1>9 DEF BooksFit, Aside
<1>11. /\ BooksFit(after) /\ Aside(moved, after) /\ Has(after.work, call.root)
       /\ SameWatches(moved, after) /\ call.root \in after.enter
       /\ \A e : Has(after.work, e) => Has(moved.work, e) \/ e = call.root
  BY <1>1, <1>10, EnqueueIs, EnqueueSame DEF BooksFit, WatchesKept, Enqueued
<1>12. Begun(of, call) = after
  BY DEF Begun, after, moved, budget, rooted, started, kept
<1> HIDE DEF after
<1>13. /\ after.root = call.root /\ after.recursive = call.recursive
       /\ after.walk = call.walk /\ after.walking = TRUE
  BY <1>2, <1>4, <1>6, <1>9, <1>11 DEF SameCourse, Aside
<1>14. /\ after.batch = of.batch
       /\ after.tree = kept.tree \cup {call.root}
       /\ \A e : Has(after.work, e) => e \in after.tree
  BY <1>2, <1>4, <1>6, <1>9, <1>9a, <1>11, NoneHas DEF Aside
<1>15. /\ \A e : e \in after.tree <=> e = call.root \/ (call.root = of.root /\ e \in of.tree)
       /\ after.watched \subseteq after.watcher
       /\ \A e \in after.watcher \ of.watcher : Opens(e)
  BY <1>2, <1>4, <1>6, <1>9b, <1>11, <1>14 DEF SameWatches
<1>16. call.root \in Roots => BooksSettle(after)
  BY <1>13, <1>14 DEF BooksSettle
<1> QED  BY <1>11, <1>12, <1>13, <1>14, <1>15, <1>16

LEMMA BeginIs ==
    ASSUME Begin
    PROVE  /\ reading = None /\ begins # <<>> /\ begins' = Tail(begins)
           /\ UNCHANGED <<disk, reports, wanted, incoming>>
           /\ \/ Head(begins).walk # wanted /\ UNCHANGED lister
              \/ /\ Head(begins).walk = wanted
                 /\ books' = Begun(books, Head(begins))
                 /\ dirty' = dirty \/ dirty' = {}
                 /\ timer' \in {timer \/ dirty # {}, FALSE}
                 /\ scheduled' = TRUE
                 /\ reading' = reading
BY DEF Begin, Begun, Emptied

(* The lister's step leaves the rest alone. *)
LEMMA ListerKeepsTypes ==
    ASSUME PipelineFits, UNCHANGED <<present, shots, mounted, limit>>, UNCHANGED <<model, wanted>>,
           reports' \subseteq Folders, begins' \in Seq(Begins), incoming' \in Seq(Merges \cup Ends),
           ListerTypes'
    PROVE  PipelineFits'
<1>1. DiskTypes'
  BY DEF PipelineFits, DiskTypes
<1>2. ModelTypes'
  BY DEF PipelineFits, ModelTypes, model
<1> QED  BY <1>1, <1>2 DEF PipelineFits

LEMMA BeginFits == PipelineFits /\ Begin /\ UNCHANGED model => PipelineFits'
<1> SUFFICES ASSUME PipelineFits, Begin, UNCHANGED model
             PROVE  PipelineFits'
  OBVIOUS
<1>1. /\ begins \in Seq(Begins) /\ incoming \in Seq(Merges \cup Ends) /\ limit \in Nat
      /\ reports \subseteq Folders /\ ListerTypes /\ BooksFit(books) /\ dirty \subseteq Folders
  BY DEF PipelineFits, ModelTypes, DiskTypes, ListerTypes
<1>2. Head(begins) \in Begins /\ begins' \in Seq(Begins)
  BY <1>1, BeginIs, TailHas
<1>3. /\ UNCHANGED <<present, shots, mounted, limit, reports, wanted, incoming>>
      /\ reading = None
  BY BeginIs DEF disk
<1>4. ListerTypes'
  <2>1. CASE UNCHANGED lister
    BY <1>1, <1>3, <2>1 DEF lister, BooksFit, WatchesKept, ListerTypes
  <2>2. CASE ~UNCHANGED lister
    <3>1. /\ books' = Begun(books, Head(begins)) /\ (dirty' = dirty \/ dirty' = {})
          /\ timer' \in {timer \/ dirty # {}, FALSE} /\ scheduled' = TRUE /\ reading' = None
      BY <1>3, <2>2, BeginIs
    <3>2. BooksFit(books') /\ books'.root = Head(begins).root
      BY <1>1, <1>2, <3>1, BegunIs
    <3>3. BooksFit(books)'
      BY <1>3, <3>2, StillFits
    <3>4. Head(begins).root \in Folders
      BY <1>2 DEF Begins
    <3>5. timer' \in BOOLEAN /\ dirty' \subseteq Folders
      BY <1>1, <3>1 DEF ListerTypes
    <3> QED  BY <3>1, <3>2, <3>3, <3>4, <3>5 DEF ListerTypes
  <2> QED  BY <2>1, <2>2
<1> QED  BY <1>1, <1>2, <1>3, <1>4, ListerKeepsTypes

LEMMA StepsFit ==
    PipelineFits /\ (StepAbandoned \/ StepEnds \/ StepWatches) /\ UNCHANGED model => PipelineFits'
<1> SUFFICES ASSUME PipelineFits, StepAbandoned \/ StepEnds \/ StepWatches, UNCHANGED model
             PROVE  PipelineFits'
  OBVIOUS
<1>1. /\ begins \in Seq(Begins) /\ incoming \in Seq(Merges \cup Ends) /\ limit \in Nat
      /\ reports \subseteq Folders /\ ListerTypes /\ BooksFit(books) /\ dirty \subseteq Folders
      /\ books \in Books
  BY DEF PipelineFits, ModelTypes, DiskTypes, ListerTypes, BooksFit, WatchesKept
<1>2. UNCHANGED <<present, shots, mounted, limit, reports, wanted, begins, dirty, timer>>
  BY DEF StepAbandoned, StepEnds, StepWatches, disk, requests
<1>3. CASE StepAbandoned
  BY <1>1, <1>2, <1>3, AbandonFits, StillFits, ListerKeepsTypes DEF StepAbandoned, ListerTypes
<1>4. CASE StepEnds
  <2>1. /\ reading = None /\ reading' = None /\ scheduled' = FALSE
        /\ books' = [books EXCEPT !.walking = FALSE, !.stale = {}]
        /\ incoming' = incoming \o
              IF books.walking THEN <<[stale |-> books.stale, walk |-> books.walk]>> ELSE <<>>
    BY <1>4 DEF StepEnds
  <2>2. /\ books' \in Books /\ books'.root = books.root /\ books'.tree = books.tree
        /\ books'.work = books.work /\ SameWatches(books, books')
    BY <1>1, <2>1 DEF Books, SameWatches
  <2>3. BooksFit(books')
    BY <1>1, <2>2 DEF BooksFit, WatchesKept, SameWatches
  <2>4. BooksFit(books)'
    BY <1>2, <2>3, StillFits
  <2>5. ListerTypes'
    BY <1>1, <1>2, <2>1, <2>2, <2>4 DEF ListerTypes
  <2>6. incoming' \in Seq(Merges \cup Ends)
    <3>1. [stale |-> books.stale, walk |-> books.walk] \in Merges \cup Ends
      BY <1>1, BooksAre DEF Ends
    <3>2. /\ <<[stale |-> books.stale, walk |-> books.walk]>> \in Seq(Merges \cup Ends)
          /\ <<>> \in Seq(Merges \cup Ends)
      BY <3>1
    <3> QED  BY <1>1, <2>1, <3>2, ConcatProperties
  <2> QED  BY <1>1, <1>2, <2>5, <2>6, ListerKeepsTypes
<1>5. CASE StepWatches
  <2> DEFINE next == Head(books.work)
             due == next \notin books.watched /\ next \in books.budget.watched
             taken == [books EXCEPT !.work = Tail(@), !.enter = @ \ {next}, !.recheck = @ \ {next}]
             tried == IF due THEN Watch(taken, next) ELSE taken
  <2>1. /\ reading = None /\ books.work # <<>> /\ scheduled' = FALSE /\ incoming' = incoming
        /\ books' = tried
        /\ reading' = [folder |-> next, enter |-> next \in books.enter,
                       recheck |-> next \in books.recheck,
                       retry |-> due /\ next \notin tried.watched /\ next \in tried.budget.watched]
    BY <1>5 DEF StepWatches
  <2>2. books.work \in Seq(Folders) /\ books.enter \subseteq Folders /\ books.recheck \subseteq Folders
    BY <1>1, BooksAre
  <2>3. next \in Folders /\ Tail(books.work) \in Seq(Folders) /\ books.root \in Folders
    BY <1>1, <2>1, <2>2, TailHas DEF ListerTypes
  <2> HIDE DEF next
  <2>4. /\ taken \in Books /\ SameWatches(books, taken) /\ taken.tree = books.tree
        /\ taken.root = books.root
    <3> DEFINE rest == Tail(books.work)
               enter == books.enter \ {next}
               recheck == books.recheck \ {next}
    <3>1. taken = [books EXCEPT !.work = rest, !.enter = enter, !.recheck = recheck]
      BY <1>1 DEF Books
    <3>2. rest \in Seq(Folders) /\ enter \in SUBSET Folders /\ recheck \in SUBSET Folders
      BY <2>2, <2>3
    <3> HIDE DEF rest, enter, recheck, taken
    <3> QED  BY <1>1, <3>1, <3>2 DEF Books, SameWatches
  <2> HIDE DEF taken
  <2>5. BooksFit(taken)
    BY <1>1, <2>4 DEF BooksFit, WatchesKept, SameWatches
  <2>6. BooksFit(tried) /\ tried.root = books.root
    <3>1. CASE due
      <4>1. next \in taken.budget.watched /\ next \notin taken.watched /\ WatchesKept(taken)
        BY <2>4, <2>5, <3>1 DEF SameWatches, BooksFit
      <4>2. tried = Watch(taken, next)
        BY <3>1
      <4> HIDE DEF tried, due
      <4>3. WatchesKept(tried) /\ Aside(taken, tried) /\ Known(tried.budget) = Known(taken.budget)
        BY <1>1, <4>1, <4>2, WatchIs
      <4> QED  BY <2>4, <2>5, <4>3 DEF BooksFit, Aside
    <3>2. CASE ~due
      BY <2>4, <2>5, <3>2
    <3> QED  BY <3>1, <3>2
  <2> HIDE DEF tried, due
  <2>7. due \in BOOLEAN
    BY DEF due
  <2>8. /\ reading' \in Readings /\ reading'.folder = next
        /\ reading'.retry => next \in tried.budget.watched \ tried.watched
    <3> DEFINE enter == next \in books.enter
               recheck == next \in books.recheck
               retry == due /\ next \notin tried.watched /\ next \in tried.budget.watched
    <3>1. enter \in BOOLEAN /\ recheck \in BOOLEAN /\ retry \in BOOLEAN
      BY <2>7
    <3>2. retry => next \in tried.budget.watched \ tried.watched
      OBVIOUS
    <3>3. reading' = [folder |-> next, enter |-> enter, recheck |-> recheck, retry |-> retry]
      BY <2>1
    <3> HIDE DEF enter, recheck, retry
    <3> QED  BY <2>3, <3>1, <3>2, <3>3 DEF Readings
  <2>9. BooksFit(books)'
    BY <1>2, <2>1, <2>6, StillFits
  <2>10. ListerTypes'
    BY <1>1, <1>2, <2>1, <2>3, <2>6, <2>8, <2>9 DEF ListerTypes
  <2> QED  BY <1>1, <1>2, <2>1, <2>10, ListerKeepsTypes
<1> QED  BY <1>3, <1>4, <1>5

LEMMA WiderSeq ==
    ASSUME NEW S, NEW T, NEW s \in Seq(S)
    PROVE  s \in Seq(S \cup T)
<1>1. s \in [1 .. Len(s) -> S] /\ Len(s) \in Nat
  OBVIOUS
<1>2. s \in [1 .. Len(s) -> S \cup T]
  BY <1>1
<1> QED  BY <1>1, <1>2

LEMMA ReadsFit ==
    ASSUME PipelineFits, NEW outcome, StepReads(outcome), UNCHANGED model
    PROVE  PipelineFits'
<1>1. /\ begins \in Seq(Begins) /\ incoming \in Seq(Merges \cup Ends) /\ limit \in Nat
      /\ reports \subseteq Folders /\ ListerTypes /\ BooksFit(books) /\ dirty \subseteq Folders
      /\ shots \in [Folders -> 0 .. 2] /\ present \subseteq Folders
  BY DEF PipelineFits, ModelTypes, DiskTypes, ListerTypes
<1>2. UNCHANGED <<present, shots, mounted, limit, reports, wanted, begins, dirty, timer>>
  BY DEF StepReads, requests
<1> DEFINE after == IF outcome = "read"
                    THEN Succeed(books, reading.folder, reading.enter, reading.recheck, reading.retry)
                    ELSE Fail(books, reading.folder, outcome)
<1>3. /\ reading # None /\ reading' = None /\ scheduled' = TRUE
      /\ books' = [after EXCEPT !.batch = <<>>]
      /\ incoming' = incoming \o after.batch
  BY DEF StepReads
<1>4. /\ reading \in Readings /\ books.root \in Folders
      /\ reading.retry => /\ reading.folder \in books.budget.watched
                          /\ reading.folder \notin books.watched
  BY <1>1, <1>3 DEF ListerTypes
<1>5. /\ reading.folder \in Folders /\ reading.enter \in BOOLEAN /\ reading.recheck \in BOOLEAN
      /\ reading.retry \in BOOLEAN
  BY <1>4 DEF Readings
<1>6. BooksFit(after) /\ after.root = books.root
  <2>1. CASE outcome = "read"
    <3>1. after = Succeed(books, reading.folder, reading.enter, reading.recheck, reading.retry)
      BY <2>1
    <3> HIDE DEF after
    <3> QED  BY <1>1, <1>4, <1>5, <3>1, SucceedIs
  <2>2. CASE outcome # "read"
    <3>1. after = Fail(books, reading.folder, outcome)
      BY <2>2
    <3> HIDE DEF after
    <3> QED  BY <1>1, <1>5, <3>1, FailFits
  <2> QED  BY <2>1, <2>2
<1> HIDE DEF after
<1>7. after \in Books /\ after.batch \in Seq(Merges)
  BY <1>6, BooksAre DEF BooksFit, WatchesKept
<1>8. BooksFit(books') /\ books'.root = books.root
  <2>1. <<>> \in Seq(Merges)
    OBVIOUS
  <2>2. /\ books' \in Books /\ books'.root = after.root /\ books'.tree = after.tree
        /\ SameWatches(after, books')
    BY <1>3, <1>7, <2>1 DEF Books, SameWatches
  <2> QED  BY <1>6, <2>2 DEF BooksFit, WatchesKept, SameWatches
<1>9. BooksFit(books)'
  BY <1>2, <1>8, StillFits
<1>10. ListerTypes'
  BY <1>1, <1>2, <1>3, <1>4, <1>8, <1>9 DEF ListerTypes
<1>11. incoming' \in Seq(Merges \cup Ends)
  BY <1>1, <1>3, <1>7, WiderSeq, ConcatProperties
<1> QED  BY <1>1, <1>2, <1>10, <1>11, ListerKeepsTypes

LEMMA ChangesFit ==
    ASSUME PipelineFits, (\E each \in Folders : OnDirectoryChanged(each)) \/ ReadChanged,
           UNCHANGED model
    PROVE  PipelineFits'
<1>1. /\ begins \in Seq(Begins) /\ incoming \in Seq(Merges \cup Ends) /\ limit \in Nat
      /\ reports \subseteq Folders /\ ListerTypes /\ BooksFit(books) /\ dirty \subseteq Folders
      /\ books \in Books
  BY DEF PipelineFits, ModelTypes, DiskTypes, ListerTypes, BooksFit, WatchesKept
<1>2. CASE \E each \in Folders : OnDirectoryChanged(each)
  BY <1>1, <1>2, ListerKeepsTypes
     DEF OnDirectoryChanged, disk, requests, ListerTypes, BooksFit, WatchesKept
<1>3. CASE ReadChanged
  <2>1. /\ UNCHANGED <<present, shots, mounted, limit, reports, wanted, begins, reading, incoming>>
        /\ reading = None /\ timer' = FALSE
    BY <1>3 DEF ReadChanged, disk, requests
  <2>2. CASE ~Current
    BY <1>1, <1>3, <2>1, <2>2, ListerKeepsTypes DEF ReadChanged, BooksFit, WatchesKept, ListerTypes
  <2>3. CASE Current
    <3> DEFINE changed == dirty \cap books.tree
               watched == books.watched \ (changed \ books.watcher)
               noticed == [books EXCEPT !.watched = watched]
    <3>1. /\ books' = EnqueueAll(noticed, changed, FALSE, TRUE)
          /\ dirty' = {} /\ scheduled' = TRUE
      BY <1>1, <1>3, <2>3 DEF ReadChanged, Books
    <3>2. /\ books.watched \subseteq Folders /\ books.watcher \subseteq books.watched
          /\ changed \in SUBSET Folders
      BY <1>1, BooksAre DEF BooksFit, WatchesKept
    <3>3. watched \in SUBSET Folders /\ watched \subseteq books.watched
          /\ books.watcher \subseteq watched
      BY <3>2
    <3> HIDE DEF watched
    <3>4. /\ noticed \in Books /\ noticed.watched = watched /\ noticed.watcher = books.watcher
          /\ noticed.budget = books.budget /\ noticed.tree = books.tree /\ noticed.root = books.root
          /\ noticed.work = books.work
      BY <1>1, <3>3 DEF Books
    <3>5. changed \subseteq books.tree
      OBVIOUS
    <3> HIDE DEF noticed, changed
    <3>6. Enqueued(noticed, books', changed, FALSE, TRUE)
      BY <3>1, <3>2, <3>4, EnqueueAllIs
    <3>7. /\ books' \in Books /\ SameWatches(noticed, books') /\ books'.tree = books.tree
          /\ books'.root = books.root
          /\ \A e : Has(books'.work, e) <=> Has(books.work, e) \/ e \in changed
      BY <3>4, <3>6 DEF Enqueued, Aside
    <3>8. BooksFit(books')
      BY <1>1, <3>3, <3>4, <3>7 DEF BooksFit, WatchesKept, SameWatches
    <3>9. BooksFit(books)'
      BY <2>1, <3>8, StillFits
    <3>10. books'.root \in Folders \/ (books'.tree = {} /\ books'.work = <<>>)
      <4>1. CASE books.root \in Folders
        BY <3>7, <4>1
      <4>2. CASE books.tree = {} /\ books.work = <<>>
        BY <3>5, <3>7, <4>2, NoneHas, BooksAre, EmptyHas
      <4> QED  BY <1>1, <4>1, <4>2 DEF ListerTypes
    <3>11. ListerTypes'
      BY <1>1, <2>1, <3>1, <3>9, <3>10 DEF ListerTypes
    <3> QED  BY <1>1, <2>1, <3>11, ListerKeepsTypes
  <2> QED  BY <2>2, <2>3
<1> QED  BY <1>2, <1>3

LEMMA PipelineNextFits == PipelineFits /\ Next => PipelineFits'
<1> SUFFICES ASSUME PipelineFits, Next
             PROVE  PipelineFits'
  OBVIOUS
<1>1. CASE ListerStep
  BY <1>1, ReadsFit, ChangesFit, BeginFits, StepsFit DEF ListerStep
<1> QED  BY <1>1, DiskFits, ModelFits DEF Next

-----------------------------------------------------------------------------
(* What the strip keeps of its own writes, and of what was not read, is bounded. *)
MarksWithin ==
    /\ unread \cup ignored \cup untold \subseteq Photos
    /\ \A photo \in Photos : Len(ownStamps[photo]) <= OwnStampsKept

LEMMA WithoutLength ==
    ASSUME NEW T, NEW s \in Seq(T), NEW E
    PROVE  Len(Reads!Without(s, E)) \in Nat /\ Len(Reads!Without(s, E)) <= Len(s)
<1> DEFINE P == {place \in DOMAIN s : s[place] \notin E}
<1>1. ASSUME NEW S
      PROVE  Reads!Cardinality(S) = Cardinality(S)
  BY DEF Reads!Cardinality, Cardinality
<1>2. Reads!Without(s, E) = [k \in 1 .. Cardinality(P) |-> s[Reads!Nth(P, k)]]
  BY <1>1 DEF Reads!Without, Reads!Subsequence
<1>3. Len(s) \in Nat /\ DOMAIN s = 1 .. Len(s)
  BY LenProperties
<1>4. P \in SUBSET (1 .. Len(s))
  BY <1>3
<1>5. IsFiniteSet(1 .. Len(s)) /\ Cardinality(1 .. Len(s)) = Len(s)
  BY <1>3, FS_Interval
<1> HIDE DEF P
<1>6. Cardinality(P) \in Nat /\ Cardinality(P) <= Len(s)
  BY <1>4, <1>5, FS_Subset, FS_CardinalityType
<1> DEFINE n == Cardinality(P)
           kept == Reads!Without(s, E)
<1>7. kept \in Seq(T)
  BY ReadsWithoutIs
<1>8. DOMAIN kept = 1 .. n
  BY <1>2
<1> HIDE DEF n, kept
<1>9. PICK m \in Nat : m = Len(kept) /\ DOMAIN kept = 1 .. m
  BY <1>7, LenProperties
<1>10. n \in Nat /\ n <= Len(s)
  BY <1>6 DEF n
<1>11. m = n
  BY <1>8, <1>9, <1>10
<1>12. Len(kept) \in Nat /\ Len(kept) <= Len(s)
  BY <1>9, <1>10, <1>11
<1> QED  BY <1>12 DEF kept

(* Of the stamps of the program's own writes only the last few are kept. *)
LEMMA NotedLength ==
    ASSUME MarkTypes, MarksWithin, NEW photo \in Photos, Reads!NoteOwnWrite(photo)
    PROVE  \A other \in Photos : Len(ownStamps'[other]) <= OwnStampsKept
<1> DEFINE stamp == sidecar[photo].stamp
           old == ownStamps[photo]
           rest == Reads!Without(old, {stamp})
           noted == Append(rest, stamp)
           new == IF Len(noted) > OwnStampsKept THEN Tail(noted) ELSE noted
<1>1. ownStamps' = IF stamp = 0 THEN ownStamps ELSE [ownStamps EXCEPT ![photo] = new]
  BY DEF Reads!NoteOwnWrite
<1>2. old \in Seq(Reads!Versions) /\ stamp \in Reads!Versions
  BY PhotoTypes
<1>3. ownStamps \in [Photos -> Seq(Reads!Versions)]
  BY DEF MarkTypes
<1>4. Len(old) <= OwnStampsKept /\ OwnStampsKept \in Nat
  BY BoundsAssumption DEF MarksWithin
<1> HIDE DEF stamp, old
<1>5. rest \in Seq(Reads!Versions) /\ Len(rest) \in Nat /\ Len(rest) <= Len(old)
  BY <1>2, ReadsWithoutIs, WithoutLength
<1>6. Len(old) \in Nat
  BY <1>2, LenProperties
<1> HIDE DEF rest
<1>7. noted \in Seq(Reads!Versions) /\ Len(noted) = Len(rest) + 1
  BY <1>2, <1>5, AppendHas
<1>8. noted # <<>>
  BY <1>5, <1>7, EmptySeq
<1> HIDE DEF noted
<1>9. Len(Tail(noted)) = Len(noted) - 1
  BY <1>7, <1>8, TailHas
<1>10. Len(new) <= OwnStampsKept
  BY <1>4, <1>5, <1>6, <1>7, <1>9
<1> HIDE DEF new
<1>11. ASSUME NEW other \in Photos
       PROVE  Len(ownStamps'[other]) <= OwnStampsKept
  BY <1>1, <1>3, <1>10 DEF MarksWithin
<1> QED  BY <1>11

LEMMA MarksWithinHolds ==
    ASSUME MarkTypes, MarksWithin, Reads!Next
    PROVE  MarksWithin'
<1>0. MarksWithin' <=> /\ unread' \cup ignored' \cup untold' \subseteq Photos
                       /\ \A photo \in Photos : Len(ownStamps'[photo]) <= OwnStampsKept
  BY DEF MarksWithin
<1>1. unread \subseteq Photos /\ ignored \subseteq Photos /\ untold \subseteq Photos
  BY DEF MarksWithin
<1>2. CASE Reads!Written
  <2>1. saving # None /\ Reads!NoteOwnWrite(saving.photo) /\ UNCHANGED <<unread, ignored>>
    BY <1>2 DEF Reads!Written
  <2>2. PICK photo \in Photos : photo = saving.photo
    BY <2>1, SavingTypes
  <2>3. untold' \subseteq Photos
    BY <1>1, <2>1 DEF Reads!NoteOwnWrite
  <2>4. Reads!NoteOwnWrite(photo)
    BY <2>1, <2>2
  <2>5. \A other \in Photos : Len(ownStamps'[other]) <= OwnStampsKept
    BY <2>4, NotedLength
  <2> QED  BY <1>0, <1>1, <2>1, <2>3, <2>5
<1>3. CASE ~Reads!Written
  <2>1. ownStamps' = ownStamps
    BY <1>3 DEF Reads!Next, Reads!ForeignWrite, Reads!WriteMarks, Reads!WriteSettings,
                Reads!ListFolder, Reads!Merge, Reads!DropSubfolders, Reads!Take, Reads!Execute,
                Reads!ReceiveStale, Reads!ReceiveUseless, Reads!ReceiveMarks,
                Reads!ReceiveChange, Reads!ReceiveCurrent, Reads!Receive, Reads!strip
  <2>2. unread' \subseteq Photos
    BY <1>1, <1>3
       DEF Reads!Next, Reads!ForeignWrite, Reads!WriteMarks, Reads!WriteSettings, Reads!Write,
           Reads!ListFolder, Reads!Merge, Reads!DropSubfolders, Reads!Take, Reads!Execute,
           Reads!ReceiveStale, Reads!ReceiveUseless, Reads!ReceiveMarks,
           Reads!ReceiveChange, Reads!ReceiveCurrent, Reads!Receive
  <2>3. ignored' \subseteq Photos /\ untold' \subseteq Photos
    BY <1>1, <1>3
       DEF Reads!Next, Reads!ForeignWrite, Reads!WriteMarks, Reads!WriteSettings,
           Reads!ListFolder, Reads!Merge, Reads!DropSubfolders, Reads!Take, Reads!Execute,
           Reads!ReceiveStale, Reads!ReceiveUseless, Reads!ReceiveMarks,
           Reads!ReceiveChange, Reads!ReceiveCurrent, Reads!Receive, Reads!Listed
  <2> QED  BY <1>0, <2>1, <2>2, <2>3 DEF MarksWithin
<1> QED  BY <1>2, <1>3

LEMMA MarksTypeHolds ==
    ASSUME MarksInv, MarksWithin
    PROVE  Reads!TypeOK
<1>1. MarkTypes /\ PendingIsRight
  BY DEF MarksInv
<1>2. pending \in Nat
  BY <1>1, LenProperties, CountIs DEF MarkTypes, PendingIsRight
<1> QED  BY <1>1, <1>2 DEF MarkTypes, MarksWithin, Reads!TypeOK

LEMMA MarksTypeInit == Reads!Init => Reads!TypeOK /\ MarksWithin
<1> SUFFICES ASSUME Reads!Init
             PROVE  Reads!TypeOK /\ MarksWithin
  OBVIOUS
<1>1. MarksWithin
  BY BoundsAssumption DEF Reads!Init, MarksWithin
<1> QED  BY <1>1, MarksInitHolds, MarksTypeHolds

-----------------------------------------------------------------------------
(* The parts of the run side by side. *)
LEMMA PicturesTypeHolds ==
    ASSUME PictureTypes
    PROVE  Pictures!TypeOK
<1>1. /\ settings \in [Photos -> Pictures!Versions]
      /\ pictures \in [Photos -> Pictures!Shown \cup {None}]
      /\ working \in Pictures!Jobs \cup {None}
      /\ known \cup owed \subseteq Photos /\ live \in Photos \cup {None}
  BY DEF PictureTypes
<1>2. /\ queued.urgent \in Seq(Photos) /\ queued.embedded \subseteq Photos
      /\ queued.developed \subseteq Photos
  BY QueuedFields
<1>3. Pictures!ToSet(queued.urgent) \subseteq Photos
  BY <1>2, ElementOfSeq DEF Pictures!ToSet
<1> QED  BY <1>1, <1>2, <1>3 DEF Pictures!TypeOK

LEMMA PipelineStill ==
    ASSUME PipelineFits, UNCHANGED folderVars
    PROVE  PipelineFits'
<1>1. /\ UNCHANGED <<present, shots, mounted, limit, reports, wanted, begins, incoming, folder,
                     recursive, walk, walking, rows, seen, unchecked, dropped>>
      /\ UNCHANGED <<books, dirty, timer, scheduled, reading>>
  BY DEF folderVars, disk, requests, model, lister
<1>2. DiskTypes' /\ ModelTypes'
  BY <1>1 DEF PipelineFits, DiskTypes, ModelTypes
<1>3. BooksFit(books)'
  BY <1>1 DEF PipelineFits, ListerTypes, BooksFit, WatchesKept
<1>4. ListerTypes'
  BY <1>1, <1>3 DEF PipelineFits, ListerTypes
<1> QED  BY <1>2, <1>4 DEF PipelineFits

LEMMA FolderStep ==
    ASSUME PipelineFits, [MCNext]_MCvars
    PROVE  PipelineFits'
<1>1. CASE InChanges \/ InWalks
  <2>1. Next
    BY <1>1 DEF InChanges, InWalks
  <2> QED  BY <2>1, PipelineNextFits
<1>2. CASE InMarks \/ InPictures \/ UNCHANGED MCvars
  BY <1>2, PipelineStill DEF InMarks, InPictures, MCvars
<1> QED  BY <1>1, <1>2 DEF MCNext

LEMMA ReadsStill ==
    ASSUME Reads!TypeOK, UNCHANGED readVars
    PROVE  Reads!TypeOK'
<1>1. UNCHANGED <<sidecar, row, jobs, loading, saving, pending, unread, ignored, untold, ownStamps>>
  BY DEF readVars
<1> QED  BY <1>1 DEF Reads!TypeOK, Reads!Versions, Reads!Rows, Reads!Readings, Reads!Loads,
                     Reads!Saves

LEMMA WithinStill ==
    ASSUME MarksWithin, UNCHANGED readVars
    PROVE  MarksWithin'
BY DEF readVars, MarksWithin

LEMMA PicturesStill ==
    ASSUME Pictures!TypeOK, UNCHANGED pictureVars
    PROVE  Pictures!TypeOK'
<1>1. UNCHANGED <<settings, pictures, working, known, owed, queued, live>>
  BY DEF pictureVars
<1> QED  BY <1>1 DEF Pictures!TypeOK, Pictures!Versions, Pictures!Shown, Pictures!Jobs,
                     Pictures!ToSet

LEMMA ReadsTypeStep ==
    ASSUME part = "marks" => MarksInv, (part = "marks" => MarksInv)',
           MarksWithin, Reads!TypeOK, [MCNext]_MCvars
    PROVE  MarksWithin' /\ Reads!TypeOK'
<1>1. CASE InMarks
  <2>1. part = "marks" /\ Reads!Next /\ part' = part
    BY <1>1 DEF InMarks
  <2>2. MarksInv /\ MarksInv'
    BY <2>1
  <2>3. MarksWithin'
    BY <2>1, <2>2, MarksWithinHolds DEF MarksInv
  <2>4. (MarksInv /\ MarksWithin => Reads!TypeOK)'
    BY MarksTypeHolds, PTL
  <2> QED  BY <2>2, <2>3, <2>4
<1>2. CASE InChanges \/ InWalks \/ InPictures \/ UNCHANGED MCvars
  BY <1>2, ReadsStill, WithinStill DEF InChanges, InWalks, InPictures, InFolder, MCvars
<1> QED  BY <1>1, <1>2 DEF MCNext

LEMMA PicturesTypeStep ==
    ASSUME (part = "pictures" => PicturesInv)', Pictures!TypeOK, [MCNext]_MCvars
    PROVE  Pictures!TypeOK'
<1>1. CASE InPictures
  <2>1. part' = "pictures"
    BY <1>1 DEF InPictures
  <2>2. PictureTypes'
    BY <2>1 DEF PicturesInv
  <2>3. (PictureTypes => Pictures!TypeOK)'
    BY PicturesTypeHolds, PTL
  <2> QED  BY <2>2, <2>3
<1>2. CASE InChanges \/ InWalks \/ InMarks \/ UNCHANGED MCvars
  BY <1>2, PicturesStill DEF InChanges, InWalks, InMarks, InFolder, MCvars
<1> QED  BY <1>1, <1>2 DEF MCNext

LEMMA FitsAre ==
    ASSUME PipelineFits
    PROVE  TypeOK /\ WatchesFit
<1>1. BooksFit(books) /\ books \in Books /\ BudgetFits(books.budget)
  BY DEF PipelineFits, ListerTypes, BooksFit, WatchesKept
<1>2. /\ books.tree \subseteq Folders /\ books.watched \subseteq Folders
      /\ books.watcher \subseteq Folders /\ books.budget \in Budgets
      /\ books.work \in Seq(Folders) /\ books.enter \subseteq Folders
      /\ books.recheck \subseteq Folders /\ books.failed \subseteq Folders
      /\ books.stale \subseteq Folders
  BY <1>1, BooksAre
<1>3. WatchesFit
  BY <1>1 DEF WatchesFit, BooksFit, WatchesKept, BudgetFits, Known
<1>4. ToSet(books.work) \subseteq Folders
  BY <1>2, ElementOfSeq DEF ToSet
<1>5. /\ present \subseteq Folders /\ shots \in [Folders -> 0 .. 2] /\ mounted \in BOOLEAN
      /\ reports \subseteq Folders
  BY DEF PipelineFits, DiskTypes
<1>6. /\ recursive \in BOOLEAN /\ rows \in [Folders -> 0 .. 2]
      /\ walking \in {"none", "listing", "refresh", "toggle"}
      /\ seen \cup unchecked \cup dropped \subseteq Folders
  BY DEF PipelineFits, ModelTypes
<1>7. dirty \subseteq Folders /\ {timer, scheduled} \subseteq BOOLEAN
  BY DEF PipelineFits, ListerTypes
<1>8. UNION {reports, dirty, seen, unchecked, dropped, books.tree, books.watched, books.watcher,
             books.failed, books.stale, ToSet(books.work), books.enter, books.recheck}
          \subseteq Folders
  BY <1>2, <1>4, <1>5, <1>6, <1>7
<1>9. {mounted, recursive, timer, scheduled} \subseteq BOOLEAN
  BY <1>5, <1>6, <1>7
<1>10. TypeOK
  BY <1>2, <1>5, <1>6, <1>8, <1>9 DEF TypeOK
<1> QED  BY <1>3, <1>10

(* However the folder changes, and however often another is listed or the subfolders come and go,
   everything is of its type, and of the directories of the walk none has a watch without a place in
   the budget, the system has no more watches than it allows and none of a directory the lister has
   forgotten, the budget has exactly the directories that are followed, and those with a place come
   before those that wait for one (FolderLister, WatchBudget), for any tree and any bounds. *)
THEOREM WatchesFitTheBudget == MCSpec => []StripFits
<1> DEFINE Good ==
             /\ part = "marks" => MarksInv
             /\ part # "marks" => NoMarks
             /\ part = "pictures" => PicturesInv
             /\ part # "pictures" => NoPictures
             /\ MarksWithin /\ Reads!TypeOK /\ Pictures!TypeOK
             /\ PipelineFits
<1>1. MCInit => Good
  BY MarksInitHolds, MarksTypeInit, PicturesInitHolds, PicturesTypeHolds, PipelineInitHolds
     DEF MCInit, Reads!Init, NoMarks, Pictures!Init, NoPictures, Pictures!Listed, PicturesInv
<1>2. Good /\ [MCNext]_MCvars => Good'
  BY MarksStep, PicturesStep, ReadsTypeStep, PicturesTypeStep, FolderStep
<1>3. Good => StripFits
  BY FitsAre DEF StripFits
<1> QED  BY <1>1, <1>2, <1>3, PTL DEF MCSpec

(* The same for any changes of the disk, any walks and any order of the steps, without what the runs
   leave out to stay small. *)
THEOREM WatchesAlwaysFit == Spec => [](TypeOK /\ WatchesFit)
<1>1. Init => PipelineFits
  BY PipelineInitHolds
<1>2. PipelineFits /\ [Next]_vars => PipelineFits'
  BY PipelineNextFits, PipelineStill DEF vars, folderVars
<1>3. PipelineFits => TypeOK /\ WatchesFit
  BY FitsAre
<1> QED  BY <1>1, <1>2, <1>3, PTL DEF Spec

-----------------------------------------------------------------------------
(* The lister has been told of the walk the model waits for, or will be. *)
WalksAgree ==
    /\ wanted = walk /\ books.walk <= walk
    /\ \A i \in DOMAIN begins :
          /\ begins[i].root \in Roots /\ begins[i].walk <= walk
          /\ begins[i].walk = walk => begins[i].root = folder
    /\ begins # <<>> => begins[Len(begins)].walk = walk
    /\ Current => books.root = folder
    /\ folder # None => folder \in Roots /\ (begins = <<>> => Current)

(* A walk that the lister has begun has its next step queued until it has ended, and one that the
   model waits for has not ended, or the model is to be told. *)
EndIsTold == \E i \in DOMAIN incoming : ~Tells(incoming[i]) /\ incoming[i].walk = walk

WalksEnd ==
    /\ Current /\ (books.walking \/ books.work # <<>>) => scheduled \/ reading # None
    /\ Current /\ walking # "none" => books.walking \/ EndIsTold

BooksRest ==
    /\ books.batch = <<>>
    /\ BooksSettle(books)
    /\ reading # None => reading.folder \in books.tree

(* What is told in the order of the walks, and of what is followed, or will be told to be gone. *)
MessagesSettle ==
    /\ \A i \in DOMAIN incoming : incoming[i].walk <= walk
    /\ \A i, j \in DOMAIN incoming : i < j => incoming[i].walk <= incoming[j].walk
    /\ \A i \in DOMAIN incoming :
          Tells(incoming[i]) =>
              \/ incoming[i].gone
              \/ incoming[i].folder \in books.tree
              \/ GoesAfter(incoming, i, incoming[i].folder)
    /\ seen # {} => \A i \in DOMAIN incoming : incoming[i].walk = walk

RowsSettle ==
    /\ books.root # folder => incoming = <<>> /\ \A each \in Folders : rows[each] = 0
    /\ \A each \in Folders :
          rows[each] # 0 => each \in books.tree \cup dropped \/ GoesAfter(incoming, 0, each)
    /\ \A each \in seen :
          rows[each] # 0 => each \in books.tree \/ GoesAfter(incoming, 0, each)

SettleInv == WalksAgree /\ WalksEnd /\ BooksRest /\ MessagesSettle /\ RowsSettle

LEMMA NoneIsApart == None \notin Folders /\ None \notin Readings
BY ListerAssumption

LEMMA SettlesAtFirst == Init => SettleInv
<1> SUFFICES ASSUME Init
             PROVE  SettleInv
  OBVIOUS
<1>1. /\ wanted = 0 /\ begins = <<>> /\ incoming = <<>> /\ folder = None /\ walk = 0
      /\ walking = "none" /\ seen = {} /\ dropped = {} /\ rows = [each \in Folders |-> 0]
      /\ reading = None
      /\ books.root = None /\ books.walk = 0 /\ books.walking = FALSE /\ books.tree = {}
      /\ books.work = <<>> /\ books.batch = <<>>
  BY DEF Init, Initially
<1>2. DOMAIN incoming = {} /\ DOMAIN begins = {}
  BY <1>1
<1>3. WalksAgree
  BY <1>1, <1>2 DEF WalksAgree
<1>4. WalksEnd
  BY <1>1 DEF WalksEnd
<1>5. BooksRest
  BY <1>1, NoneHas, NoneIsApart DEF BooksRest, BooksSettle
<1>6. MessagesSettle
  BY <1>1, <1>2 DEF MessagesSettle
<1>7. RowsSettle
  BY <1>1 DEF RowsSettle
<1> QED  BY <1>3, <1>4, <1>5, <1>6, <1>7 DEF SettleInv

(* Steps that tell the model nothing, and follow the same directories. *)
LEMMA StillSettles ==
    ASSUME SettleInv,
           UNCHANGED <<begins, wanted, incoming, folder, walk, walking, rows, seen, dropped>>,
           books'.root = books.root, books'.walk = books.walk, books'.tree = books.tree,
           books'.batch = books.batch, \A e : Has(books'.work, e) => e \in books.tree,
           Current => books'.walking = books.walking,
           reading' # None => reading'.folder \in books.tree,
           Current /\ (books'.walking \/ books'.work # <<>>) => scheduled' \/ reading' # None
    PROVE  SettleInv'
<1>1. Current' <=> Current
  BY DEF Current
<1>2. WalksAgree'
  BY <1>1 DEF SettleInv, WalksAgree
<1>3. WalksEnd'
  BY <1>1 DEF EndIsTold, SettleInv, WalksEnd
<1>4. BooksRest'
  BY DEF SettleInv, BooksRest, BooksSettle
<1>5. MessagesSettle'
  BY DEF SettleInv, MessagesSettle
<1>6. RowsSettle'
  BY DEF SettleInv, RowsSettle
<1> QED  BY <1>2, <1>3, <1>4, <1>5, <1>6 DEF SettleInv

LEMMA DiskSettles ==
    ASSUME SettleInv, PipelineFits, Disk
    PROVE  SettleInv'
<1>1. UNCHANGED <<begins, wanted, incoming, folder, walk, walking, rows, seen, dropped, scheduled,
                  reading>>
  BY DEF Disk, ChangeShots, ReplaceSidecar, AddFolder, RemoveFolder, Unmount, Mount, Change, requests,
         model, lister
<1>2. books \in Books
  BY DEF PipelineFits, ListerTypes, BooksFit, WatchesKept
<1>3. /\ books'.root = books.root /\ books'.walk = books.walk /\ books'.tree = books.tree
      /\ books'.batch = books.batch /\ books'.work = books.work /\ books'.walking = books.walking
  BY <1>2
     DEF Disk, ChangeShots, ReplaceSidecar, AddFolder, RemoveFolder, Unmount, Mount, lister, Books
<1>4. \A e : Has(books'.work, e) => e \in books.tree
  BY <1>3 DEF SettleInv, BooksRest, BooksSettle
<1>5. Current /\ (books'.walking \/ books'.work # <<>>) => scheduled' \/ reading' # None
  BY <1>1, <1>3 DEF SettleInv, WalksEnd
<1>6. reading' # None => reading'.folder \in books.tree
  BY <1>1 DEF SettleInv, BooksRest
<1> QED  BY <1>1, <1>3, <1>4, <1>5, <1>6, StillSettles

(* A new walk: until the lister takes it up, what it has read is of older ones. *)
LEMMA StartSettles ==
    ASSUME SettleInv, PipelineFits, StartWalk, folder' \in Roots,
           incoming' = <<>> \/ (incoming' = incoming /\ folder' = folder),
           books.root # folder' => incoming' = <<>> /\ \A each \in Folders : rows'[each] = 0,
           \A each \in Folders :
              rows'[each] # 0 => each \in books.tree \cup dropped' \/ GoesAfter(incoming', 0, each)
    PROVE  SettleInv'
<1>1. /\ walk' = walk + 1 /\ wanted' = walk + 1 /\ seen' = {}
      /\ UNCHANGED <<books, scheduled, reading>>
      /\ begins' = Append(begins, [root |-> folder', recursive |-> recursive', walk |-> walk + 1])
  BY DEF StartWalk, lister
<1>2. /\ walk \in Nat /\ begins \in Seq(Begins) /\ incoming \in Seq(Merges \cup Ends)
      /\ books.walk \in Nat /\ books.walk <= walk
  BY BooksAre DEF PipelineFits, ModelTypes, ListerTypes, BooksFit, WatchesKept, SettleInv, WalksAgree
<1>3. ~Current'
  BY <1>1, <1>2 DEF Current
<1>4. WalksAgree'
  <2> DEFINE call == [root |-> folder', recursive |-> recursive', walk |-> walk + 1]
  <2>1. call.root = folder' /\ call.walk = walk + 1
    OBVIOUS
  <2> HIDE DEF call
  <2>2. /\ DOMAIN begins' = 1 .. Len(begins) + 1 /\ Len(begins) \in Nat
        /\ DOMAIN begins = 1 .. Len(begins)
        /\ Len(begins') = Len(begins) + 1
        /\ begins'[Len(begins) + 1] = call
        /\ \A i \in 1 .. Len(begins) : begins'[i] = begins[i] /\ begins[i] \in Begins
    BY <1>1, <1>2 DEF call
  <2>3. \A i \in DOMAIN begins' :
          /\ begins'[i].root \in Roots /\ begins'[i].walk <= walk + 1
          /\ begins'[i].walk = walk + 1 => begins'[i].root = folder'
    <3> TAKE i \in DOMAIN begins'
    <3>1. CASE i = Len(begins) + 1
      BY <1>2, <2>1, <2>2, <3>1
    <3>2. CASE i \in 1 .. Len(begins)
      BY <1>2, <2>2, <3>2 DEF SettleInv, WalksAgree, Begins
    <3> QED  BY <2>2, <3>1, <3>2
  <2>4. begins' # <<>> /\ begins'[Len(begins')].walk = walk'
    BY <1>1, <2>1, <2>2
  <2>5. books'.walk <= walk'
    BY <1>1, <1>2
  <2>6. Roots' = Roots
    BY DEF Roots
  <2> HIDE DEF call
  <2> QED  BY <1>1, <1>3, <2>3, <2>4, <2>5, <2>6 DEF WalksAgree
<1>5. WalksEnd'
  BY <1>3 DEF WalksEnd
<1>6. BooksRest'
  BY <1>1 DEF SettleInv, BooksRest, BooksSettle
<1>7. MessagesSettle'
  <2>1. CASE incoming' = <<>>
    BY <1>1, <2>1 DEF MessagesSettle
  <2>2. CASE incoming' = incoming
    BY <1>1, <1>2, <2>2 DEF SettleInv, MessagesSettle, Merges, Ends
  <2> QED  BY <2>1, <2>2
<1>8. RowsSettle'
  BY <1>1 DEF RowsSettle
<1> QED  BY <1>4, <1>5, <1>6, <1>7, <1>8 DEF SettleInv

LEMMA WalksSettle ==
    ASSUME SettleInv, PipelineFits, SetFolder \/ SetRecursive \/ Refresh
    PROVE  SettleInv'
<1>1. /\ incoming \in Seq(Merges \cup Ends) /\ rows \in [Folders -> 0 .. 2]
      /\ folder # None => folder \in Roots
      /\ books.root # folder => incoming = <<>> /\ \A each \in Folders : rows[each] = 0
      /\ \A each \in Folders :
            rows[each] # 0 => each \in books.tree \cup dropped \/ GoesAfter(incoming, 0, each)
  BY DEF SettleInv, WalksAgree, RowsSettle, PipelineFits, ModelTypes
<1>2. CASE SetFolder
  BY <1>2, StartSettles DEF SetFolder, Roots
<1>3. CASE SetRecursive
  <2>1. /\ folder' \in Roots /\ folder' = folder /\ StartWalk /\ incoming' = <<>>
        /\ rows' = [each \in Folders |-> IF recursive' \/ each = folder THEN rows[each] ELSE 0]
        /\ dropped' = dropped \cup Goings
    BY <1>1, <1>3 DEF SetRecursive
  <2>2. \A each \in Folders : rows'[each] = rows[each] \/ rows'[each] = 0
    BY <2>1
  <2>3. ASSUME NEW each \in Folders, GoesAfter(incoming, 0, each)
        PROVE  each \in Goings
    <3>1. PICK j \in DOMAIN incoming : GoesBy(incoming[j], each)
      BY <2>3 DEF GoesAfter
    <3>2. incoming[j] \in ToSet(incoming)
      BY <3>1 DEF ToSet
    <3> QED  BY <3>1, <3>2 DEF Goings, GoesBy, Tells
  <2>4. \A each \in Folders : rows'[each] # 0 => each \in books.tree \cup dropped'
    BY <1>1, <2>1, <2>2, <2>3
  <2>5. books.root # folder' => incoming' = <<>> /\ \A each \in Folders : rows'[each] = 0
    BY <1>1, <2>1, <2>2
  <2> QED  BY <2>1, <2>4, <2>5, StartSettles
<1>4. CASE Refresh
  BY <1>1, <1>4, StartSettles DEF Refresh
<1> QED  BY <1>2, <1>3, <1>4

(* The model takes a message: what it says of what is followed holds until one that follows. *)
LEMMA TakenSettles ==
    ASSUME SettleInv, PipelineFits, incoming # <<>>, incoming' = Tail(incoming),
           UNCHANGED <<requests, lister, folder, walk>>,
           walking' \in {walking, "none"},
           ~Tells(Message) /\ Message.walk = walk => walking' = "none",
           seen' # {} => Message.walk = walk \/ seen' = seen,
           \A each \in Folders : rows'[each] # 0 =>
                \/ each \in books.tree \cup dropped'
                \/ GoesAfter(incoming, 0, each) /\ ~GoesBy(Message, each)
                \/ GoesAfter(incoming, 1, each),
           \A each \in seen' : rows'[each] # 0 =>
                \/ each \in books.tree
                \/ GoesAfter(incoming, 0, each) /\ ~GoesBy(Message, each)
                \/ GoesAfter(incoming, 1, each)
    PROVE  SettleInv'
<1>1. /\ incoming \in Seq(Merges \cup Ends) /\ walk \in Nat
      /\ UNCHANGED <<begins, wanted, books, scheduled, reading>>
  BY DEF PipelineFits, ModelTypes, requests, lister
<1> DEFINE n == Len(incoming)
<1>2. /\ n \in Nat /\ n >= 1 /\ DOMAIN incoming = 1 .. n
      /\ DOMAIN incoming' = 1 .. n - 1
      /\ \A i \in 1 .. n - 1 : incoming'[i] = incoming[i + 1] /\ i + 1 \in 1 .. n
      /\ Message = incoming[1] /\ 1 \in 1 .. n
  <2>1. /\ n \in Nat /\ n >= 1 /\ DOMAIN incoming = 1 .. n
        /\ DOMAIN incoming' = 1 .. n - 1
        /\ \A i \in 1 .. n - 1 : incoming'[i] = incoming[i + 1]
        /\ Head(incoming) = incoming[1]
    BY <1>1, TailHas
  <2> HIDE DEF n
  <2> QED  BY <2>1 DEF Message
<1> HIDE DEF n
<1>3. \A i \in DOMAIN incoming : incoming[i].walk \in Nat
  BY <1>1 DEF Merges, Ends
<1>4. Current' <=> Current
  BY <1>1 DEF Current
<1>5. WalksAgree'
  BY <1>1, <1>4 DEF SettleInv, WalksAgree
<1>6. WalksEnd'
  <2>1. Current /\ (books.walking \/ books.work # <<>>) => scheduled \/ reading # None
    BY DEF SettleInv, WalksEnd
  <2>2. ASSUME Current, walking' # "none", ~books.walking
        PROVE  EndIsTold'
    <3>1. PICK i \in DOMAIN incoming : ~Tells(incoming[i]) /\ incoming[i].walk = walk
      BY <2>2 DEF SettleInv, WalksEnd, EndIsTold
    <3>2. i # 1
      BY <1>2, <2>2, <3>1
    <3>3. i - 1 \in DOMAIN incoming' /\ incoming'[i - 1] = incoming[i]
      BY <1>2, <3>1, <3>2
    <3> QED  BY <3>1, <3>3 DEF EndIsTold
  <2> QED  BY <1>1, <1>4, <2>1, <2>2 DEF WalksEnd
<1>7. BooksRest'
  BY <1>1 DEF SettleInv, BooksRest, BooksSettle
<1>8. ASSUME NEW i \in Nat, NEW each, GoesAfter(incoming, i, each), i > 0 \/ ~GoesBy(Message, each)
      PROVE  GoesAfter(incoming', IF i = 0 THEN 0 ELSE i - 1, each)
  BY <1>1, <1>8, GoesInTail DEF Message
<1>9. MessagesSettle'
  <2>1. \A i \in DOMAIN incoming' : incoming'[i].walk <= walk
    BY <1>2 DEF SettleInv, MessagesSettle
  <2>2. ASSUME NEW i \in DOMAIN incoming', NEW j \in DOMAIN incoming', i < j
        PROVE  incoming'[i].walk <= incoming'[j].walk
    BY <1>2, <2>2 DEF SettleInv, MessagesSettle
  <2>3. ASSUME NEW i \in DOMAIN incoming', Tells(incoming'[i]), ~incoming'[i].gone,
               incoming'[i].folder \notin books.tree
        PROVE  GoesAfter(incoming', i, incoming'[i].folder)
    BY <1>2, <1>8, <2>3 DEF SettleInv, MessagesSettle
  <2>4. ASSUME seen' # {}, NEW i \in DOMAIN incoming'
        PROVE  incoming'[i].walk = walk
    BY <1>1, <1>2, <1>3, <2>4 DEF SettleInv, MessagesSettle
  <2> QED  BY <1>1, <2>1, <2>2, <2>3, <2>4 DEF MessagesSettle
<1>10. RowsSettle'
  BY <1>1, <1>8 DEF SettleInv, RowsSettle
<1> QED  BY <1>5, <1>6, <1>7, <1>9, <1>10 DEF SettleInv

LEMMA MessagesTaken ==
    ASSUME SettleInv, PipelineFits, DropIncoming \/ RemoveTree \/ MergeFolder \/ EndWalk
    PROVE  SettleInv'
<1>1. /\ incoming # <<>> /\ incoming' = Tail(incoming)
      /\ UNCHANGED <<requests, lister, folder, walk>>
  BY DEF DropIncoming, RemoveTree, MergeFolder, EndWalk
<1>2. /\ incoming \in Seq(Merges \cup Ends) /\ ModelTypes
      /\ rows \in [Folders -> 0 .. 2] /\ seen \subseteq Folders
  BY DEF PipelineFits, ModelTypes
<1>3. /\ Message \in Merges \cup Ends
      /\ Tells(Message) <=> "stale" \notin DOMAIN Message
      /\ Tells(Message) => Message \in Merges
  BY <1>1, <1>2, MessageIs, MessagesAre DEF Tells
<1>4. /\ 1 \in DOMAIN incoming /\ Message = incoming[1]
  BY <1>1, <1>2, TailHas DEF Message
<1>5. /\ \A each \in Folders :
            rows[each] # 0 => each \in books.tree \cup dropped \/ GoesAfter(incoming, 0, each)
      /\ \A each \in seen : rows[each] # 0 => each \in books.tree \/ GoesAfter(incoming, 0, each)
      /\ Tells(Message) /\ ~Message.gone =>
            Message.folder \in books.tree \/ GoesAfter(incoming, 1, Message.folder)
      /\ seen # {} => Message.walk = walk
  BY <1>4 DEF SettleInv, RowsSettle, MessagesSettle
<1> HIDE DEF Message
<1>6. CASE DropIncoming
  BY <1>1, <1>3, <1>5, <1>6, TakenSettles DEF DropIncoming, Tells, GoesBy
<1>7. CASE RemoveTree
  BY <1>1, <1>2, <1>5, <1>7, TakenSettles DEF RemoveTree, Tells, GoesBy
<1>8. CASE MergeFolder
  BY <1>1, <1>2, <1>3, <1>5, <1>8, TakenSettles DEF MergeFolder, Tells, Merges, GoesBy
<1>9. CASE EndWalk
  <2> DEFINE stale == UNION {Within(each) : each \in Message.stale}
  <2>1. /\ ~Tells(Message)
        /\ rows' = [each \in Folders |->
                      IF walking = "listing" \/ each \in seen \cup stale THEN rows[each] ELSE 0]
        /\ dropped' = IF walking = "listing" THEN dropped ELSE dropped \cap stale
        /\ walking' = "none" /\ seen' = {}
    BY <1>3, <1>9 DEF EndWalk
  <2> HIDE DEF stale
  <2>2. \A each \in Folders :
            rows'[each] # 0 => /\ rows[each] # 0
                               /\ each \in seen \/ each \in stale \/ walking = "listing"
    BY <2>1
  <2>3. \A each : ~GoesBy(Message, each)
    BY <2>1 DEF GoesBy
  <2>4. \A each \in Folders : rows'[each] # 0 =>
            \/ each \in books.tree \cup dropped'
            \/ GoesAfter(incoming, 0, each) /\ ~GoesBy(Message, each)
    BY <1>5, <2>1, <2>2, <2>3
  <2> QED  BY <1>1, <2>1, <2>2, <2>4, TakenSettles
<1> QED  BY <1>6, <1>7, <1>8, <1>9

LEMMA ListerTypesAre ==
    ASSUME PipelineFits
    PROVE  /\ begins \in Seq(Begins) /\ incoming \in Seq(Merges \cup Ends) /\ limit \in Nat
           /\ shots \in [Folders -> 0 .. 2] /\ present \subseteq Folders
           /\ BooksFit(books) /\ books \in Books /\ ListerTypes /\ books.work \in Seq(Folders)
           /\ walk \in Nat /\ books.batch \in Seq(Merges)
<1>1. /\ begins \in Seq(Begins) /\ incoming \in Seq(Merges \cup Ends) /\ limit \in Nat
      /\ shots \in [Folders -> 0 .. 2] /\ present \subseteq Folders
      /\ BooksFit(books) /\ books \in Books /\ ListerTypes /\ walk \in Nat
  BY DEF PipelineFits, ModelTypes, DiskTypes, ListerTypes, BooksFit, WatchesKept
<1> QED  BY <1>1, BooksAre

LEMMA AbandonedSettles ==
    ASSUME SettleInv, PipelineFits, UNCHANGED model, StepAbandoned
    PROVE  SettleInv'
<1>1. /\ ~Current /\ books' = Abandon(books) /\ reading' = None
      /\ UNCHANGED <<begins, wanted, incoming, folder, walk, walking, rows, seen, dropped>>
  BY DEF StepAbandoned, requests, model
<1>2. books \in Books /\ BooksFit(books)
  BY ListerTypesAre
<1>3. /\ books'.root = books.root /\ books'.walk = books.walk /\ books'.tree = books.tree
      /\ books'.work = <<>>
  BY <1>1, <1>2, AbandonFits
<1>4. books'.batch = books.batch
  BY <1>1, <1>2 DEF Abandon, Books
<1>5. \A e : ~Has(books'.work, e)
  BY <1>3, NoneHas
<1> QED  BY <1>1, <1>3, <1>4, <1>5, StillSettles

LEMMA WatchesSettle ==
    ASSUME SettleInv, PipelineFits, UNCHANGED model, StepWatches
    PROVE  SettleInv'
<1>1. books \in Books /\ BooksFit(books) /\ limit \in Nat /\ books.work \in Seq(Folders)
      /\ books.enter \subseteq Folders /\ books.recheck \subseteq Folders
  BY ListerTypesAre, BooksAre
<1> DEFINE next == Head(books.work)
           due == next \notin books.watched /\ next \in books.budget.watched
           rest == Tail(books.work)
           enter == books.enter \ {next}
           recheck == books.recheck \ {next}
           taken == [books EXCEPT !.work = Tail(@), !.enter = @ \ {next}, !.recheck = @ \ {next}]
           tried == IF due THEN Watch(taken, next) ELSE taken
<1>2. /\ Current /\ books.work # <<>>
      /\ UNCHANGED <<begins, wanted, incoming, folder, walk, walking, rows, seen, dropped>>
      /\ books' = tried
      /\ \E entered, checked, retry \in BOOLEAN :
            reading' = [folder |-> next, enter |-> entered, recheck |-> checked, retry |-> retry]
  <2>1. /\ Current /\ books.work # <<>>
        /\ UNCHANGED <<begins, wanted, incoming, folder, walk, walking, rows, seen, dropped>>
        /\ books' = tried
        /\ reading' = [folder |-> next, enter |-> next \in books.enter,
                       recheck |-> next \in books.recheck,
                       retry |-> due /\ next \notin tried.watched /\ next \in tried.budget.watched]
    BY DEF StepWatches, requests, model
  <2>2. due \in BOOLEAN
    OBVIOUS
  <2> HIDE DEF due, tried, next
  <2>3. (next \in books.enter) \in BOOLEAN /\ (next \in books.recheck) \in BOOLEAN
        /\ (due /\ next \notin tried.watched /\ next \in tried.budget.watched) \in BOOLEAN
    BY <2>2
  <2> QED  BY <2>1, <2>3
<1>3. /\ next \in Folders /\ rest \in Seq(Folders)
      /\ \A e : Has(books.work, e) <=> e = next \/ Has(rest, e)
  BY <1>1, <1>2, TailHas
<1> HIDE DEF next
<1>4. reading' \in Readings /\ reading'.folder = next
  BY <1>2, <1>3 DEF Readings
<1>5. enter \in SUBSET Folders /\ recheck \in SUBSET Folders
  BY <1>1
<1>6. taken = [books EXCEPT !.work = rest, !.enter = enter, !.recheck = recheck]
  BY <1>1 DEF Books
<1> HIDE DEF rest, enter, recheck, taken
<1>7. /\ taken \in Books /\ SameWatches(books, taken) /\ taken.work = rest
      /\ taken.tree = books.tree /\ taken.root = books.root /\ taken.walk = books.walk
      /\ taken.walking = books.walking /\ taken.batch = books.batch
  BY <1>1, <1>3, <1>5, <1>6 DEF Books, SameWatches
<1>8. BooksFit(taken)
  BY <1>1, <1>7 DEF BooksFit, WatchesKept, SameWatches
<1>9. /\ books'.root = books.root /\ books'.walk = books.walk /\ books'.tree = books.tree
      /\ books'.batch = books.batch /\ books'.walking = books.walking /\ books'.work = rest
  <2>1. CASE due
    <3>1. next \in taken.budget.watched /\ next \notin taken.watched /\ WatchesKept(taken)
      BY <1>7, <1>8, <2>1 DEF SameWatches, BooksFit
    <3>2. books' = Watch(taken, next)
      BY <1>2, <2>1
    <3> HIDE DEF due, tried
    <3>3. Aside(taken, books') /\ SameWork(taken, books')
      BY <1>1, <3>1, <3>2, WatchIs
    <3> QED  BY <1>7, <3>3 DEF Aside, SameWork
  <2>2. CASE ~due
    BY <1>2, <1>7, <2>2
  <2> QED  BY <2>1, <2>2
<1> HIDE DEF due, tried
<1>10. /\ next \in books.tree
       /\ \A e : Has(books'.work, e) => e \in books.tree
  BY <1>3, <1>9 DEF SettleInv, BooksRest, BooksSettle
<1>11. reading' # None
  BY <1>4, NoneIsApart
<1> QED  BY <1>2, <1>4, <1>9, <1>10, <1>11, StillSettles

LEMMA ChangesSettle ==
    ASSUME SettleInv, PipelineFits, UNCHANGED model,
           (\E each \in Folders : OnDirectoryChanged(each)) \/ ReadChanged
    PROVE  SettleInv'
<1>1. books \in Books /\ BooksFit(books)
  BY ListerTypesAre
<1>2. UNCHANGED <<begins, wanted, incoming, folder, walk, walking, rows, seen, dropped, reading>>
  BY DEF OnDirectoryChanged, ReadChanged, requests, model
<1>3. /\ \A e : Has(books.work, e) => e \in books.tree
      /\ reading # None => reading.folder \in books.tree
      /\ Current /\ (books.walking \/ books.work # <<>>) => scheduled \/ reading # None
  BY DEF SettleInv, BooksRest, BooksSettle, WalksEnd
<1>4. CASE books' = books /\ scheduled' = scheduled
  BY <1>2, <1>3, <1>4, StillSettles
<1>5. CASE ReadChanged /\ Current
  <2> DEFINE changed == dirty \cap books.tree
             watched == books.watched \ (changed \ books.watcher)
             noticed == [books EXCEPT !.watched = watched]
  <2>1. books' = EnqueueAll(noticed, changed, FALSE, TRUE) /\ scheduled' = TRUE
    BY <1>1, <1>5 DEF ReadChanged, Books
  <2>2. changed \in SUBSET Folders /\ watched \in SUBSET Folders
    BY <1>1, BooksAre
  <2>3. changed \subseteq books.tree
    OBVIOUS
  <2> HIDE DEF watched
  <2>4. /\ noticed \in Books /\ noticed.root = books.root /\ noticed.walk = books.walk
        /\ noticed.tree = books.tree /\ noticed.batch = books.batch
        /\ noticed.walking = books.walking /\ noticed.work = books.work
    BY <1>1, <2>2 DEF Books
  <2> HIDE DEF noticed, changed
  <2>5. Enqueued(noticed, books', changed, FALSE, TRUE)
    BY <2>1, <2>2, <2>4, EnqueueAllIs
  <2>6. /\ books'.root = books.root /\ books'.walk = books.walk /\ books'.tree = books.tree
        /\ books'.batch = books.batch /\ books'.walking = books.walking
        /\ \A e : Has(books'.work, e) => Has(books.work, e) \/ e \in changed
    BY <2>4, <2>5 DEF Enqueued, Aside
  <2>7. \A e : Has(books'.work, e) => e \in books.tree
    BY <1>3, <2>3, <2>6
  <2> QED  BY <1>2, <1>3, <2>1, <2>6, <2>7, StillSettles
<1>6. \/ books' = books /\ scheduled' = scheduled
      \/ ReadChanged /\ Current
  BY DEF OnDirectoryChanged, ReadChanged
<1> QED  BY <1>4, <1>5, <1>6

(* The end of a walk is told, if the model waits for one. *)
LEMMA EndSettles ==
    ASSUME SettleInv, PipelineFits, UNCHANGED model, StepEnds
    PROVE  SettleInv'
<1>1. /\ books \in Books /\ incoming \in Seq(Merges \cup Ends) /\ walk \in Nat
  BY ListerTypesAre
<1> DEFINE end == [stale |-> books.stale, walk |-> books.walk]
           told == IF books.walking THEN <<end>> ELSE <<>>
<1>2. /\ reading = None /\ reading' = None /\ Current /\ books.work = <<>>
      /\ books' = [books EXCEPT !.walking = FALSE, !.stale = {}]
      /\ incoming' = incoming \o told
      /\ UNCHANGED <<begins, wanted, folder, walk, walking, rows, seen, dropped>>
  BY DEF StepEnds, requests, model
<1>3. /\ books'.root = books.root /\ books'.walk = books.walk /\ books'.tree = books.tree
      /\ books'.work = books.work /\ books'.batch = books.batch /\ books'.walking = FALSE
  BY <1>1, <1>2 DEF Books
<1>4. wanted = walk /\ books.walk = walk
  BY <1>2 DEF Current, SettleInv, WalksAgree
<1>5. end \in Ends /\ end.walk = walk /\ ~Tells(end)
  <2>1. end \in Ends /\ end.walk = walk
    BY <1>1, <1>4, BooksAre DEF Ends
  <2> HIDE DEF end
  <2> QED  BY <2>1, MessagesAre
<1> HIDE DEF end
<1>6. /\ told \in Seq(Merges \cup Ends)
      /\ \A i \in DOMAIN told : told[i].walk = walk /\ ~Tells(told[i])
      /\ books.walking => \E i \in DOMAIN told : told[i].walk = walk /\ ~Tells(told[i])
  <2>1. CASE books.walking
    BY <1>5, <2>1
  <2>2. CASE ~books.walking
    BY <2>2
  <2> QED  BY <2>1, <2>2
<1> HIDE DEF told
<1>7. /\ DOMAIN incoming = 1 .. Len(incoming) /\ Len(incoming) \in Nat
      /\ \A i \in DOMAIN incoming : i \in DOMAIN incoming' /\ incoming'[i] = incoming[i]
      /\ \A i \in DOMAIN told :
            Len(incoming) + i \in DOMAIN incoming' /\ incoming'[Len(incoming) + i] = told[i]
      /\ \A i \in DOMAIN incoming' :
            \/ i \in DOMAIN incoming
            \/ i > Len(incoming) /\ incoming'[i].walk = walk /\ ~Tells(incoming'[i])
      /\ DOMAIN incoming' \subseteq Nat
  BY <1>1, <1>2, <1>6, JoinedHas
<1>8. \A i \in Nat : \A each : GoesAfter(incoming, i, each) => GoesAfter(incoming', i, each)
  BY <1>7 DEF GoesAfter
<1>9. Current' <=> Current
  BY <1>2, <1>3 DEF Current
<1>10. WalksAgree'
  BY <1>2, <1>3, <1>9 DEF SettleInv, WalksAgree
<1>11. WalksEnd'
  <2>1. ASSUME walking # "none"
        PROVE  EndIsTold'
    <3>1. CASE books.walking
      <4>1. PICK i \in DOMAIN told : told[i].walk = walk /\ ~Tells(told[i])
        BY <1>6, <3>1
      <4> QED  BY <1>2, <1>7, <4>1 DEF EndIsTold
    <3>2. CASE EndIsTold
      BY <1>2, <1>7, <3>2 DEF EndIsTold
    <3> QED  BY <1>2, <2>1, <3>1, <3>2 DEF SettleInv, WalksEnd
  <2> QED  BY <1>2, <1>3, <2>1 DEF WalksEnd
<1>12. BooksRest'
  BY <1>2, <1>3 DEF SettleInv, BooksRest, BooksSettle
<1>13. MessagesSettle'
  BY <1>1, <1>2, <1>3, <1>7, <1>8 DEF SettleInv, MessagesSettle
<1>14. RowsSettle'
  BY <1>2, <1>3, <1>8 DEF SettleInv, WalksAgree, RowsSettle
<1> QED  BY <1>10, <1>11, <1>12, <1>13, <1>14 DEF SettleInv

(* A directory is read: what it says has gone follows, in what is told, what it says is there. *)
LEMMA ReadingSettles ==
    ASSUME SettleInv, PipelineFits, UNCHANGED model, NEW outcome, StepReads(outcome)
    PROVE  SettleInv'
<1>1. /\ incoming \in Seq(Merges \cup Ends) /\ limit \in Nat /\ BooksFit(books) /\ books \in Books
      /\ shots \in [Folders -> 0 .. 2] /\ present \subseteq Folders /\ ListerTypes /\ walk \in Nat
  BY ListerTypesAre
<1> DEFINE after == IF outcome = "read"
                    THEN Succeed(books, reading.folder, reading.enter, reading.recheck, reading.retry)
                    ELSE Fail(books, reading.folder, outcome)
           told == after.batch
           n == Len(incoming)
<1>2. /\ reading # None /\ reading' = None /\ Current /\ scheduled' = TRUE
      /\ books' = [after EXCEPT !.batch = <<>>]
      /\ incoming' = incoming \o told
      /\ UNCHANGED <<begins, wanted, folder, walk, walking, rows, seen, dropped>>
  BY DEF StepReads, requests, model
<1>3. /\ reading \in Readings /\ books.root \in Folders
      /\ reading.retry => /\ reading.folder \in books.budget.watched
                          /\ reading.folder \notin books.watched
  BY <1>1, <1>2 DEF ListerTypes
<1>4. /\ reading.folder \in Folders /\ reading.enter \in BOOLEAN /\ reading.recheck \in BOOLEAN
      /\ reading.retry \in BOOLEAN
  BY <1>3 DEF Readings
<1>5. BooksSettle(books) /\ books.batch = <<>> /\ reading.folder \in books.tree
  BY <1>2 DEF SettleInv, BooksRest
<1>6. BooksFit(after) /\ Settled(books, after)
  <2>1. CASE outcome = "read"
    <3>1. after = Succeed(books, reading.folder, reading.enter, reading.recheck, reading.retry)
      BY <2>1
    <3> HIDE DEF after
    <3> QED  BY <1>1, <1>3, <1>4, <1>5, <3>1, SucceedIs
  <2>2. CASE outcome # "read"
    <3>1. after = Fail(books, reading.folder, outcome)
      BY <2>2
    <3> HIDE DEF after
    <3> QED  BY <1>1, <1>3, <1>4, <1>5, <3>1, FailFits, FailSettles
  <2> QED  BY <2>1, <2>2
<1> HIDE DEF after
<1>7. after \in Books /\ told \in Seq(Merges) /\ told \in Seq(Merges \cup Ends)
  <2>1. after \in Books /\ told \in Seq(Merges)
    BY <1>6, BooksAre DEF BooksFit, WatchesKept
  <2> HIDE DEF told
  <2> QED  BY <2>1, WiderSeq
<1>8. wanted = walk /\ books.walk = walk /\ books.root = folder
  BY <1>2 DEF Current, SettleInv, WalksAgree
<1>9. /\ books'.root = books.root /\ books'.walk = walk /\ books'.walking = books.walking
      /\ books'.tree = after.tree /\ books'.work = after.work /\ books'.batch = <<>>
  BY <1>2, <1>6, <1>7, <1>8 DEF Books, Settled
<1>10. /\ \A i \in DOMAIN told :
            /\ told[i].walk = walk
            /\ told[i].gone \/ told[i].folder \in after.tree \/ GoesAfter(told, i, told[i].folder)
       /\ \A each \in books.tree \ after.tree : GoesAfter(told, 0, each)
       /\ BooksSettle(after)
  BY <1>6, <1>8 DEF Settled
<1> HIDE DEF told, n
<1>11. /\ DOMAIN incoming = 1 .. n /\ n \in Nat
       /\ \A i \in DOMAIN incoming : i \in DOMAIN incoming' /\ incoming'[i] = incoming[i]
       /\ \A i \in DOMAIN incoming' :
             \/ i \in DOMAIN incoming
             \/ i > n /\ i - n \in DOMAIN told /\ incoming'[i] = told[i - n]
       /\ DOMAIN incoming' \subseteq Nat /\ DOMAIN told \subseteq Nat
  BY <1>1, <1>2, <1>7, JoinedHas DEF n
<1>12. ASSUME NEW i \in Nat, NEW each
       PROVE  /\ GoesAfter(incoming, i, each) => GoesAfter(incoming', i, each)
              /\ i <= n /\ GoesAfter(told, 0, each) => GoesAfter(incoming', i, each)
              /\ GoesAfter(told, i, each) => GoesAfter(incoming', n + i, each)
  BY <1>1, <1>2, <1>7, GoesInJoined DEF n
(* What was followed is, or is told to be gone after all that was told before. *)
<1>13. ASSUME NEW i \in Nat, i <= n, NEW each, each \in books.tree \/ GoesAfter(incoming, i, each)
       PROVE  each \in after.tree \/ GoesAfter(incoming', i, each)
  BY <1>10, <1>12, <1>13
<1>14. 0 \in Nat /\ 0 <= n
  BY <1>11
<1>15. WalksAgree'
  BY <1>1, <1>2, <1>8, <1>9 DEF Current, SettleInv, WalksAgree
<1>16. WalksEnd'
  BY <1>2, <1>9, <1>11 DEF EndIsTold, SettleInv, WalksEnd
<1>17. BooksRest'
  BY <1>2, <1>6, <1>9, <1>10 DEF BooksRest, BooksSettle, Settled
<1>18. MessagesSettle'
  BY <1>1, <1>2, <1>9, <1>10, <1>11, <1>12, <1>13 DEF SettleInv, MessagesSettle
<1>19. RowsSettle'
  BY <1>2, <1>8, <1>9, <1>13, <1>14 DEF SettleInv, RowsSettle, PipelineFits, ModelTypes
<1> QED  BY <1>15, <1>16, <1>17, <1>18, <1>19 DEF SettleInv

(* A walk is begun: the one the model waits for, or none.  What was followed still is, or it was
   of another root, and there are neither rows of it nor news. *)
LEMMA BeginSettles ==
    ASSUME SettleInv, PipelineFits, UNCHANGED model, Begin
    PROVE  SettleInv'
<1>1. /\ begins \in Seq(Begins) /\ limit \in Nat /\ BooksFit(books) /\ books \in Books
      /\ walk \in Nat
  BY ListerTypesAre
<1> DEFINE call == Head(begins)
           n == Len(begins)
<1>2. /\ reading = None /\ begins # <<>> /\ begins' = Tail(begins)
      /\ UNCHANGED <<wanted, incoming, folder, walk, walking, rows, seen, dropped>>
      /\ \/ call.walk # wanted /\ UNCHANGED <<books, scheduled, reading>>
         \/ /\ call.walk = wanted /\ books' = Begun(books, call)
            /\ scheduled' = TRUE /\ reading' = None
  BY BeginIs DEF model, lister
<1>3. /\ n \in Nat /\ n >= 1 /\ DOMAIN begins = 1 .. n /\ call = begins[1] /\ call \in Begins
      /\ DOMAIN begins' = 1 .. n - 1
      /\ \A i \in 1 .. n - 1 : begins'[i] = begins[i + 1]
      /\ Len(begins') = n - 1 /\ begins' \in Seq(Begins)
  BY <1>1, <1>2, TailHas
<1>4. begins' # <<>> => n - 1 >= 1
  <2>1. n - 1 = Len(begins') /\ n \in Nat
    BY <1>3
  <2>2. begins' \in Seq(Begins)
    BY <1>3
  <2>3. begins' # <<>> => Len(begins') \in Nat \ {0}
    BY <2>2, EmptySeq
  <2> HIDE DEF n
  <2> QED  BY <2>1, <2>3
<1>5. begins' = <<>> => n = 1
  <2>1. n - 1 = Len(begins') /\ n \in Nat
    BY <1>3
  <2>2. Len(<<>>) = 0
    BY EmptySeq
  <2> HIDE DEF n
  <2> QED  BY <2>1, <2>2
<1> HIDE DEF call, n
<1>6. /\ \A i \in DOMAIN begins' :
            /\ begins'[i].root \in Roots /\ begins'[i].walk <= walk
            /\ begins'[i].walk = walk => begins'[i].root = folder
      /\ begins' # <<>> => begins'[Len(begins')].walk = walk
  BY <1>2, <1>3, <1>4 DEF SettleInv, WalksAgree, n
<1>7. /\ call.root \in Roots /\ (call.walk = walk => call.root = folder)
      /\ n = 1 => call.walk = walk
      /\ wanted = walk
  BY <1>2, <1>3 DEF SettleInv, WalksAgree, n
<1>8. CASE call.walk # wanted /\ UNCHANGED <<books, scheduled, reading>>
  BY <1>2, <1>5, <1>6, <1>7, <1>8
     DEF Current, SettleInv, WalksAgree, WalksEnd, EndIsTold, BooksRest, BooksSettle,
         MessagesSettle, RowsSettle
<1>9. CASE /\ call.walk = wanted /\ books' = Begun(books, call)
           /\ scheduled' = TRUE /\ reading' = None
  <2>1. /\ books'.root = call.root /\ books'.walk = call.walk /\ books'.walking = TRUE
        /\ books'.batch = books.batch
        /\ call.root = books.root => books.tree \subseteq books'.tree
        /\ BooksSettle(books')
    BY <1>1, <1>3, <1>7, <1>9, BegunIs
  <2>2. books'.root = folder /\ books'.walk = walk
    BY <1>7, <1>9, <2>1
  <2>3. Current'
    BY <1>2, <1>7, <2>2 DEF Current
  <2>4. books'.walk <= walk
    BY <1>1, <2>2
  <2>5. WalksAgree'
    BY <1>2, <1>6, <1>7, <2>2, <2>3, <2>4 DEF SettleInv, WalksAgree
  <2>6. WalksEnd'
    BY <1>9, <2>1 DEF WalksEnd
  <2>7. BooksRest'
    BY <1>9, <2>1 DEF SettleInv, BooksRest, BooksSettle
  <2>8. CASE books.root = folder
    BY <1>2, <2>1, <2>2, <2>5, <2>6, <2>7, <2>8 DEF SettleInv, MessagesSettle, RowsSettle
  <2>9. CASE books.root # folder
    BY <1>2, <2>2, <2>5, <2>6, <2>7, <2>9
       DEF SettleInv, RowsSettle, PipelineFits, ModelTypes, MessagesSettle
  <2> QED  BY <2>8, <2>9
<1> QED  BY <1>2, <1>8, <1>9

LEMMA NextSettles ==
    ASSUME SettleInv, PipelineFits, Next
    PROVE  SettleInv'
<1>1. CASE ListerStep
  BY <1>1, ReadingSettles, ChangesSettle, BeginSettles, AbandonedSettles, EndSettles, WatchesSettle
     DEF ListerStep
<1> QED  BY <1>1, DiskSettles, WalksSettle, MessagesTaken DEF Next

(* Once nothing is under way or on its way, no walk is, and the lister has ended the one the model
   started last; and every row is of a directory that the lister follows, or of one whose going the
   model dropped: whatever was read, changed, walked or switched in whatever order, for any
   directories, limits and errors. *)
THEOREM RowsSettleAtRest ==
    Spec => [](AtRest /\ folder # None => NothingIsLeft /\ RowsAreFollowed)
<1> DEFINE Good == PipelineFits /\ SettleInv
           Settles == AtRest /\ folder # None => NothingIsLeft /\ RowsAreFollowed
<1>1. Init => Good
  BY PipelineInitHolds, SettlesAtFirst
<1>2. Good /\ [Next]_vars => Good'
  BY PipelineNextFits, NextSettles, StillSettles, PipelineStill
     DEF vars, folderVars, lister, requests, model, SettleInv, BooksRest, BooksSettle, WalksEnd
<1>3. Good => Settles
  BY DEF AtRest, SettleInv, WalksAgree, WalksEnd, EndIsTold, RowsSettle, GoesAfter,
         RowsAreFollowed, NothingIsLeft
<1> QED  BY <1>1, <1>2, <1>3, PTL DEF Spec

-----------------------------------------------------------------------------
(* The places and the watches. *)
(* The lister is still to look at a directory: it, or one above it from which all are read, is
   read or is to be. *)
OwedIn(of, each) ==
    \E e \in Above[each] : Has(of.work, e) /\ (e = each \/ e \in of.enter)

Owed(each) ==
    \/ OwedIn(books, each)
    \/ reading # None /\ reading.folder \in Above[each] /\ (reading.folder = each \/ reading.enter)

(* What follows the watches: what the system watches is there, what it no longer does has been
   reported, and the tree has the way from its root to each of its directories. *)
WatchesAreTold ==
    /\ \A each \in books.watcher : Opens(each)
    /\ books.watched \subseteq books.watcher \cup reports \cup dirty
    /\ reading # None /\ reading.folder \in books.budget.watched \ books.watched => reading.retry
    /\ \A each \in books.tree : books.root \in Above[each] /\ Above[each] \subseteq books.tree

PlacesAreOwed ==
    Current /\ ~books.unavailable =>
        \A each \in books.budget.watched \ books.watched :
            each \in missed \cup reports \cup dirty \/ Unreadable(each) \/ Owed(each)

PlaceInv == WatchesAreTold /\ PlacesAreOwed

LEMMA PlacesAtFirst == Init => PlaceInv
<1> SUFFICES ASSUME Init
             PROVE  PlaceInv
  OBVIOUS
<1>1. /\ books.watched = {} /\ books.watcher = {} /\ books.tree = {} /\ reading = None
      /\ books.budget = EmptyBudget(MaxWatched)
  BY DEF Init, Initially
<1>2. books.budget.watched = {}
  BY <1>1 DEF EmptyBudget
<1> QED  BY <1>1, <1>2 DEF PlaceInv, WatchesAreTold, PlacesAreOwed

LEMMA DiskPlaces ==
    ASSUME PlaceInv, PipelineFits, Disk
    PROVE  PlaceInv'
<1>0. books \in Books /\ books.watcher \subseteq Folders /\ books.watched \subseteq Folders
      /\ books.watcher \subseteq books.watched
  BY ListerTypesAre, BooksAre DEF BooksFit, WatchesKept
<1>1. UNCHANGED <<wanted, missed, dirty, reading>> /\ reports \subseteq reports'
  BY DEF Disk, ChangeShots, ReplaceSidecar, AddFolder, RemoveFolder, Unmount, Mount, Change, requests,
         lister, history, Report
<1>2. /\ books' = [books EXCEPT !.watcher = books'.watcher]
      /\ \A each \in books'.watcher : Opens(each)'
      /\ books.watcher \subseteq books'.watcher \cup reports'
  <2>1. CASE ChangeShots \/ ReplaceSidecar \/ AddFolder \/ Mount
    <3>1. books' = books /\ (mounted => mounted')
      BY <2>1 DEF ChangeShots, ReplaceSidecar, AddFolder, Mount, lister
    <3>2. present \subseteq present'
      BY <2>1 DEF ChangeShots, ReplaceSidecar, AddFolder, Mount
    <3> QED  BY <1>0, <3>1, <3>2 DEF Books, PlaceInv, WatchesAreTold, Opens
  <2>2. CASE Unmount
    BY <1>0, <2>2 DEF Unmount, Report, Books
  <2>3. CASE RemoveFolder
    <3> PICK each \in present :
             /\ present' = present \ Within(each)
             /\ mounted /\ mounted' = mounted
             /\ Report({Parent[each]} \cup Within(each))
             /\ books' = [books EXCEPT !.watcher = @ \ Within(each)]
      BY <2>3 DEF RemoveFolder
    <3>1. books'.watcher = books.watcher \ Within(each)
          /\ books' = [books EXCEPT !.watcher = books'.watcher]
      BY <1>0 DEF Books
    <3> QED  BY <1>0, <3>1 DEF Report, Opens, PlaceInv, WatchesAreTold
  <2> QED  BY <2>1, <2>2, <2>3 DEF Disk
<1> DEFINE watcher == books'.watcher
<1> HIDE DEF watcher
<1>3. /\ books'.watcher = watcher /\ books'.watched = books.watched /\ books'.budget = books.budget
      /\ books'.tree = books.tree /\ books'.root = books.root /\ books'.walk = books.walk
      /\ books'.work = books.work /\ books'.enter = books.enter /\ books'.failed = books.failed
      /\ books'.unavailable = books.unavailable
  BY <1>0, <1>2 DEF Books, watcher
<1>4. WatchesAreTold'
  BY <1>1, <1>2, <1>3 DEF PlaceInv, WatchesAreTold
<1>5. PlacesAreOwed'
  BY <1>1, <1>3 DEF PlaceInv, PlacesAreOwed, Current, Unreadable, Owed, OwedIn
<1> QED  BY <1>4, <1>5 DEF PlaceInv

(* The model leaves the lister alone; a walk that it starts is one the lister is to be told of. *)
LEMMA ModelPlaces ==
    ASSUME PlaceInv, SettleInv, PipelineFits,
           \/ SetFolder \/ SetRecursive \/ Refresh
           \/ DropIncoming \/ RemoveTree \/ MergeFolder \/ EndWalk
    PROVE  PlaceInv'
<1>1. UNCHANGED <<present, mounted, reports, books, dirty, reading, missed>>
  BY DEF SetFolder, SetRecursive, Refresh, StartWalk, DropIncoming, RemoveTree, MergeFolder, EndWalk,
         disk, lister, history
<1>2. wanted' \in {wanted, walk + 1}
  BY DEF SetFolder, SetRecursive, Refresh, StartWalk, DropIncoming, RemoveTree, MergeFolder, EndWalk,
         requests
<1>3. wanted = walk /\ books.walk <= walk /\ walk \in Nat /\ books.walk \in Nat
  BY ListerTypesAre, BooksAre DEF SettleInv, WalksAgree
<1>4. Current' => Current
  BY <1>1, <1>2, <1>3 DEF Current
<1>5. WatchesAreTold'
  BY <1>1 DEF PlaceInv, WatchesAreTold, Opens
<1>6. PlacesAreOwed'
  BY <1>1, <1>4 DEF PlaceInv, PlacesAreOwed, Unreadable, Owed, OwedIn
<1> QED  BY <1>5, <1>6 DEF PlaceInv

(* What a step of the lister adds to what is missed. *)
Misses ==
    missed' = (missed \cup {each \in books'.budget.watched \ books.budget.watched : ~Opens(each)})
                  \cap (books'.budget.watched \ books'.watched)

LEMMA BooksHave ==
    ASSUME PipelineFits
    PROVE  /\ books \in Books /\ books.watcher \subseteq books.watched
           /\ books.watched \subseteq books.budget.watched /\ books.budget.watched \subseteq books.tree
           /\ books.tree \subseteq Folders
BY ListerTypesAre, BooksAre DEF BooksFit, WatchesKept, Known

(* Steps that leave the places as they are. *)
LEMMA SamePlaces ==
    ASSUME PlaceInv, PipelineFits, Misses, UNCHANGED <<present, mounted, wanted>>,
           books'.root = books.root, books'.walk = books.walk, books'.tree = books.tree,
           books'.failed = books.failed, books'.unavailable = books.unavailable,
           books'.budget = books.budget, books'.watcher = books.watcher,
           books'.watched \subseteq books.watched,
           books'.watched \subseteq books.watcher \cup reports' \cup dirty',
           reading' = None,
           Current => \A each \in books.budget.watched \ books'.watched :
               \/ each \in reports' \cup dirty' \/ OwedIn(books', each)
               \/ each \notin books.watched /\ each \notin reports \cup dirty /\ ~Owed(each)
    PROVE  PlaceInv'
<1>1. WatchesAreTold'
  BY DEF PlaceInv, WatchesAreTold, Opens
<1>2. PlacesAreOwed'
  BY DEF PlacesAreOwed, Current, Owed, OwedIn, Misses, Unreadable, PlaceInv
<1> QED  BY <1>1, <1>2 DEF PlaceInv

LEMMA AbandonedPlaces ==
    ASSUME PlaceInv, PipelineFits, Misses, StepAbandoned
    PROVE  PlaceInv'
<1>1. /\ ~Current /\ books' = Abandon(books) /\ reading' = None
      /\ UNCHANGED <<present, mounted, wanted, reports, dirty>>
  BY DEF StepAbandoned, disk, requests
<1>2. /\ books'.root = books.root /\ books'.walk = books.walk /\ books'.tree = books.tree
      /\ books'.failed = books.failed /\ books'.unavailable = books.unavailable
      /\ books'.budget = books.budget /\ books'.watcher = books.watcher
      /\ books'.watched = books.watched
  BY <1>1, BooksHave DEF Abandon, Books
<1> QED  BY <1>1, <1>2, SamePlaces DEF PlaceInv, WatchesAreTold

LEMMA EndPlaces ==
    ASSUME PlaceInv, PipelineFits, Misses, StepEnds
    PROVE  PlaceInv'
<1>1. /\ books' = [books EXCEPT !.walking = FALSE, !.stale = {}] /\ reading = None /\ reading' = None
      /\ UNCHANGED <<present, mounted, wanted, reports, dirty>>
  BY DEF StepEnds, disk, requests
<1>2. /\ books'.root = books.root /\ books'.walk = books.walk /\ books'.tree = books.tree
      /\ books'.failed = books.failed /\ books'.unavailable = books.unavailable
      /\ books'.budget = books.budget /\ books'.watcher = books.watcher
      /\ books'.watched = books.watched /\ books'.work = books.work /\ books'.enter = books.enter
  BY <1>1, BooksHave DEF Books
<1>3. \A each : Owed(each) => OwedIn(books', each)
  BY <1>1, <1>2 DEF Owed, OwedIn
<1> QED  BY <1>1, <1>2, <1>3, SamePlaces DEF PlaceInv, WatchesAreTold

LEMMA ChangesPlaces ==
    ASSUME PlaceInv, PipelineFits, Misses, (\E each \in Folders : OnDirectoryChanged(each)) \/ ReadChanged
    PROVE  PlaceInv'
<1>1. CASE \E each \in Folders : OnDirectoryChanged(each)
  <2>1. PICK each \in Folders : OnDirectoryChanged(each)
    BY <1>1
  <2>2. /\ books' = books /\ reading = None /\ reading' = None
        /\ UNCHANGED <<present, mounted, wanted>>
        /\ reports' = reports \ {each}
        /\ dirty \subseteq dirty' /\ (each \in books.tree => each \in dirty')
    BY <2>1 DEF OnDirectoryChanged, disk, requests
  <2>3. books.tree \cap (reports \cup dirty) \subseteq reports' \cup dirty'
    BY <2>2
  <2>4. \A e : Owed(e) => OwedIn(books', e)
    BY <2>2 DEF Owed
  <2> QED  BY <2>2, <2>3, <2>4, BooksHave, SamePlaces DEF PlaceInv, WatchesAreTold
<1>2. CASE ReadChanged
  <2>1. reading = None /\ reading' = None /\ UNCHANGED <<present, mounted, wanted, reports>>
    BY <1>2 DEF ReadChanged, disk, requests
  <2>2. CASE ~Current
    BY <1>2, <2>1, <2>2, SamePlaces DEF ReadChanged, PlaceInv, WatchesAreTold
  <2>3. CASE Current
    <3> DEFINE changed == dirty \cap books.tree
               left == [books EXCEPT !.watched = @ \ (changed \ books.watcher)]
    <3>1. books' = EnqueueAll(left, changed, FALSE, TRUE) /\ dirty' = {}
      BY <1>2, <2>3 DEF ReadChanged
    <3>2. /\ left \in Books /\ left.watched = books.watched \ (changed \ books.watcher)
          /\ left.watcher = books.watcher /\ left.budget = books.budget
          /\ left.work = books.work /\ left.enter = books.enter
          /\ Aside(books, left)
      BY BooksHave DEF Books, Aside
    <3>3. changed \in SUBSET Folders
      BY BooksHave
    <3> HIDE DEF changed, left
    <3>4. Enqueued(left, books', changed, FALSE, TRUE)
      BY <3>1, <3>2, <3>3, EnqueueAllIs
    <3>5. /\ books'.root = books.root /\ books'.walk = books.walk /\ books'.tree = books.tree
          /\ books'.failed = books.failed /\ books'.unavailable = books.unavailable
          /\ books'.budget = books.budget /\ books'.watcher = books.watcher
          /\ books'.watched = books.watched \ (changed \ books.watcher)
          /\ books'.enter = books.enter
          /\ \A e : Has(books'.work, e) <=> Has(books.work, e) \/ e \in changed
      BY <3>2, <3>4 DEF Enqueued, Aside, SameWatches
    <3>6. \A e \in books.budget.watched : e \in dirty => e \in changed
      BY BooksHave DEF changed
    <3>7. \A e \in changed : OwedIn(books', e)
      BY <3>3, <3>5, AboveJoins DEF OwedIn
    <3>8. \A e : Owed(e) => OwedIn(books', e)
      BY <2>1, <3>5 DEF Owed, OwedIn
    <3>9. books'.watched \subseteq books.watcher \cup reports' \cup dirty'
      BY <2>1, <3>5, <3>6, BooksHave DEF PlaceInv, WatchesAreTold
    <3> QED  BY <2>1, <3>5, <3>6, <3>7, <3>8, <3>9, SamePlaces
  <2> QED  BY <2>2, <2>3
<1> QED  BY <1>1, <1>2

LEMMA WatchesPlaces ==
    ASSUME PlaceInv, PipelineFits, Misses, StepWatches
    PROVE  PlaceInv'
<1> DEFINE each == Head(books.work)
           due == each \notin books.watched /\ each \in books.budget.watched
           taken == [books EXCEPT !.work = Tail(@), !.enter = @ \ {each}, !.recheck = @ \ {each}]
<1>1. /\ books.work # <<>> /\ UNCHANGED <<present, mounted, wanted, reports, dirty>>
      /\ books' = IF due THEN Watch(taken, each) ELSE taken
      /\ reading' = [folder |-> each,
                     enter |-> each \in books.enter,
                     recheck |-> each \in books.recheck,
                     retry |-> due /\ each \notin books'.watched /\ each \in books'.budget.watched]
  BY DEF StepWatches, disk, requests
<1>2. books.work \in Seq(Folders) /\ WatchesKept(books) /\ limit \in Nat
  BY ListerTypesAre DEF BooksFit
<1>3. /\ each \in Folders /\ Tail(books.work) \in Seq(Folders)
      /\ \A e : Has(books.work, e) => e = each \/ Has(Tail(books.work), e)
  BY <1>1, <1>2, TailHas
<1>4. /\ taken \in Books /\ SameWatches(books, taken) /\ Aside(books, taken)
      /\ taken.work = Tail(books.work) /\ taken.enter = books.enter \ {each}
  BY <1>3, BooksHave, BooksAre DEF Books, SameWatches, Aside
<1> HIDE DEF taken, each
<1>5. WatchesKept(taken)
  BY <1>2, <1>4 DEF WatchesKept, SameWatches
<1>6. /\ Aside(taken, books') /\ SameWork(taken, books')
      /\ books'.budget.watched \subseteq books.budget.watched
      /\ books.watched \subseteq books'.watched
      /\ books.watcher \subseteq books'.watcher
      /\ books'.watched \ books.watched \subseteq books'.watcher
      /\ \A e \in books'.watcher \ books.watcher : Opens(e)
  <2>1. CASE due
    BY <1>1, <1>2, <1>4, <1>5, <2>1, WatchIs DEF SameWatches
  <2>2. CASE ~due
    <3>1. books' = taken
      BY <1>1, <2>2
    <3> HIDE DEF due
    <3> QED  BY <1>4, <3>1 DEF SameWatches, Aside, SameWork
  <2> QED  BY <2>1, <2>2
<1>7. WatchesAreTold'
  <2>1. reading'.folder \in books'.budget.watched \ books'.watched => reading'.retry
    BY <1>1, <1>6
  <2> HIDE DEF due
  <2>2. books'.watched \subseteq books'.watcher \cup reports' \cup dirty'
    BY <1>1, <1>6 DEF PlaceInv, WatchesAreTold
  <2> QED  BY <1>1, <1>4, <1>6, <2>1, <2>2 DEF PlaceInv, WatchesAreTold, Opens, Aside
<1>8. reading = None
  BY DEF StepWatches
<1>9. PlacesAreOwed'
  <2> SUFFICES ASSUME Current', ~books'.unavailable, NEW e \in books'.budget.watched \ books'.watched
               PROVE  e \in missed' \cup reports' \cup dirty' \/ Unreadable(e)' \/ Owed(e)'
    BY DEF PlacesAreOwed
  <2>1. Current /\ ~books.unavailable /\ e \in books.budget.watched \ books.watched
    BY <1>1, <1>4, <1>6 DEF Current, Aside
  <2>2. e \in missed \cup reports \cup dirty => e \in missed' \cup reports' \cup dirty'
    BY <1>1 DEF Misses
  <2>3. Unreadable(e) => Unreadable(e)'
    BY <1>4, <1>6 DEF Unreadable, Aside
  <2>4. Owed(e) => Owed(e)'
    <3> SUFFICES ASSUME NEW x \in Above[e], Has(books.work, x), x = e \/ x \in books.enter
                 PROVE  Owed(e)'
      BY <1>8 DEF Owed, OwedIn
    <3>1. reading'.folder = each /\ (reading'.enter <=> each \in books.enter) /\ reading' # None
      <4>1. reading' \in Readings
        BY <1>1, <1>3 DEF Readings
      <4> QED  BY <1>1, <4>1, NoneIsApart
    <3>2. CASE x = each
      BY <3>1, <3>2 DEF Owed
    <3>3. CASE x # each
      BY <1>3, <1>4, <1>6, <3>3 DEF SameWork, Owed, OwedIn
    <3> QED  BY <3>2, <3>3
  <2> QED  BY <2>1, <2>2, <2>3, <2>4 DEF PlaceInv, PlacesAreOwed
<1> QED  BY <1>7, <1>9 DEF PlaceInv

(* A walk that is begun owes all below its root. *)
LEMMA BeginPlaces ==
    ASSUME PlaceInv, SettleInv, PipelineFits, Misses, Begin
    PROVE  PlaceInv'
<1> DEFINE call == Head(begins)
<1>1. reading = None /\ reading' = None /\ UNCHANGED <<present, mounted, wanted, reports>>
  BY BeginIs DEF disk, lister
<1>2. CASE UNCHANGED lister
  BY <1>1, <1>2, SamePlaces DEF lister, Owed, PlaceInv, WatchesAreTold
<1>3. CASE books' = Begun(books, call)
  <2>1. begins # <<>> /\ begins \in Seq(Begins) /\ BooksFit(books) /\ limit \in Nat
    BY ListerTypesAre DEF Begin
  <2>2. call \in Begins /\ call.root \in Roots
    BY <2>1 DEF SettleInv, WalksAgree
  <2>0. books' = Begun(books, call)
    BY <1>3
  <2> HIDE DEF call
  <2>3. /\ BooksFit(books') /\ books'.root = call.root
        /\ Has(books'.work, call.root) /\ call.root \in books'.enter
        /\ \A e : e \in books'.tree <=> e = call.root \/ (call.root = books.root /\ e \in books.tree)
        /\ books'.watched \subseteq books'.watcher
        /\ \A e \in books'.watcher \ books.watcher : Opens(e)
    BY <2>0, <2>1, <2>2, BegunIs
  <2>4. call.root \in Folders /\ Above[call.root] = {call.root}
    BY <2>2, AboveIs DEF Roots, Over
  <2>5. \A each \in books'.tree : books'.root \in Above[each] /\ Above[each] \subseteq books'.tree
    BY <2>3, <2>4 DEF PlaceInv, WatchesAreTold
  <2>6. WatchesAreTold'
    BY <1>1, <2>3, <2>5 DEF PlaceInv, WatchesAreTold, Opens
  <2>7. \A each \in books'.tree : Owed(each)'
    BY <2>3, <2>5 DEF Owed, OwedIn
  <2>8. books'.budget.watched \subseteq books'.tree
    BY <2>3 DEF BooksFit, Known
  <2>9. PlacesAreOwed'
    BY <2>7, <2>8 DEF PlacesAreOwed
  <2> QED  BY <2>6, <2>9 DEF PlaceInv
<1> QED  BY <1>2, <1>3, BeginIs

(* What a step that reads a directory leaves of the watches and the places. *)
Leaves(after) ==
    /\ BooksFit(after) /\ after.root = books.root /\ after.walk = books.walk
    /\ \A each \in after.watcher : Opens(each)
    /\ after.watched \subseteq after.watcher \cup reports \cup dirty
    /\ \A each \in after.tree : books.root \in Above[each] /\ Above[each] \subseteq after.tree
    /\ after.unavailable
       \/ \A each \in after.budget.watched \ after.watched :
              \/ each \in missed \cup reports \cup dirty
              \/ each \notin books.budget.watched /\ ~Opens(each)
              \/ after.failed \cap Above[each] # {}
              \/ OwedIn(after, each)

LEMMA LeavesPlaces ==
    ASSUME PlaceInv, PipelineFits, Misses, UNCHANGED <<present, mounted, wanted, reports, dirty>>,
           NEW after, Leaves(after), books' = [after EXCEPT !.batch = <<>>], reading' = None
    PROVE  PlaceInv'
<1>1. after \in Books
  BY DEF Leaves, BooksFit, WatchesKept
<1>2. /\ books'.root = after.root /\ books'.walk = after.walk /\ books'.tree = after.tree
      /\ books'.failed = after.failed /\ books'.unavailable = after.unavailable
      /\ books'.budget = after.budget /\ books'.watcher = after.watcher
      /\ books'.watched = after.watched /\ books'.work = after.work /\ books'.enter = after.enter
  BY <1>1 DEF Books
<1>3. WatchesAreTold'
  BY <1>2 DEF Leaves, WatchesAreTold, Opens
<1>4. PlacesAreOwed'
  BY <1>2 DEF PlacesAreOwed, Owed, OwedIn, Unreadable, Misses, Leaves
<1> QED  BY <1>3, <1>4 DEF PlaceInv

(* A subtree that is dropped takes what it owed with it, and what got its place owes nothing. *)
LEMMA DropLeaves ==
    ASSUME PlaceInv, SettleInv, PipelineFits, Current, reading # None,
           NEW after, Dropped(books, after, {reading.folder})
    PROVE  Leaves(after)
<1> DEFINE gone == books.tree \cap Within(reading.folder)
           new == after.watched \ books.watched
<1>1. /\ BooksFit(after) /\ SameCourse(books, after)
      /\ after.tree = books.tree \ gone
      /\ after.failed = books.failed \ Within(reading.folder)
      /\ after.watched = (books.watched \ gone) \cup new
      /\ after.watcher = (books.watcher \ gone) \cup new
      /\ \A each \in new : Opens(each)
      /\ after.enter = books.enter \ gone
      /\ \A e : Has(after.work, e) <=> (Has(books.work, e) /\ e \notin gone) \/ e \in new
      /\ \A each \in after.budget.watched \ books.budget.watched : each \in new \/ ~Opens(each)
  BY DEF Beneath, Dropped
<1> HIDE DEF new
<1>3. \A each \in after.tree : \A e \in Above[each] : e \in books.tree /\ e \notin Within(reading.folder)
  BY <1>1, BooksHave, AboveJoins DEF PlaceInv, WatchesAreTold, Within
<1>4. \A each \in after.tree : books.root \in Above[each] /\ Above[each] \subseteq after.tree
  BY <1>1, <1>3 DEF PlaceInv, WatchesAreTold
<1>5. ASSUME ~books.unavailable, NEW each \in after.budget.watched \ after.watched
      PROVE  \/ each \in missed \cup reports \cup dirty
             \/ each \notin books.budget.watched /\ ~Opens(each)
             \/ after.failed \cap Above[each] # {}
             \/ OwedIn(after, each)
  BY <1>1, <1>3, <1>5, BooksHave
     DEF BooksFit, Known, Unreadable, Within, Owed, OwedIn, PlaceInv, PlacesAreOwed
<1>6. /\ \A each \in after.watcher : Opens(each)
      /\ after.watched \subseteq after.watcher \cup reports \cup dirty
  BY <1>1 DEF PlaceInv, WatchesAreTold
<1> QED  BY <1>1, <1>4, <1>5, <1>6 DEF Leaves, SameCourse

(* A directory that cannot be read is known not to be, is dropped, or the root is not available. *)
LEMMA FailLeaves ==
    ASSUME PlaceInv, SettleInv, PipelineFits, Current, reading # None, NEW error
    PROVE  Leaves(Fail(books, reading.folder, error))
<1> DEFINE each == reading.folder
           after == Fail(books, each, error)
           lost == each = books.root \/ (error # "other" /\ ~Opens(books.root))
<1>1. /\ books \in Books /\ BooksFit(books) /\ limit \in Nat /\ each \in Folders
      /\ books.failed \subseteq Folders /\ books.stale \subseteq Folders /\ books.unavailable \in BOOLEAN
  BY ListerTypesAre, BooksAre DEF ListerTypes, Readings
<1>2. BooksFit(after) /\ after.walk = books.walk /\ after.root = books.root
  BY <1>1, FailFits
<1>3. CASE lost \/ error = "other"
  <2>1. PICK unavailable \in BOOLEAN, failed \in SUBSET Folders, stale \in SUBSET Folders :
           /\ after = [books EXCEPT !.unavailable = unavailable, !.failed = failed, !.stale = stale]
           /\ unavailable \/ each \in failed
           /\ books.failed \subseteq failed /\ (books.unavailable => unavailable)
    <3> DEFINE kept == IF books.walking THEN books.stale \cup {each} ELSE books.stale
    <3>1. kept \in SUBSET Folders
      BY <1>1
    <3>2. CASE lost
      <4>1. after = [books EXCEPT !.unavailable = TRUE, !.failed = books.failed, !.stale = kept]
        BY <1>1, <3>2 DEF Fail, KeepStale, Books
      <4> HIDE DEF after, kept
      <4> QED  BY <1>1, <3>1, <4>1
    <3>3. CASE ~lost /\ error = "other"
      <4>1. after = [books EXCEPT !.unavailable = books.unavailable, !.failed = books.failed \cup {each},
                                  !.stale = kept]
        BY <1>1, <3>3 DEF Fail, KeepStale, Books
      <4> HIDE DEF after, kept
      <4>2. books.failed \cup {each} \in SUBSET Folders
        BY <1>1
      <4> QED  BY <1>1, <3>1, <4>1, <4>2
    <3> QED  BY <1>3, <3>2, <3>3
  <2> HIDE DEF after
  <2>2. /\ after.unavailable = unavailable /\ after.failed = failed /\ SameWatches(books, after)
        /\ after.tree = books.tree /\ after.work = books.work /\ after.enter = books.enter
    BY <1>1, <2>1 DEF Books, SameWatches
  <2>3. ASSUME NEW e \in after.budget.watched \ after.watched, ~after.unavailable
        PROVE  \/ e \in missed \cup reports \cup dirty
               \/ after.failed \cap Above[e] # {}
               \/ OwedIn(after, e)
    BY <2>1, <2>2, <2>3 DEF PlaceInv, PlacesAreOwed, SameWatches, Unreadable, OwedIn, Owed
  <2>4. /\ \A e \in after.watcher : Opens(e)
        /\ after.watched \subseteq after.watcher \cup reports \cup dirty
        /\ \A e \in after.tree : books.root \in Above[e] /\ Above[e] \subseteq after.tree
    BY <2>2 DEF SameWatches, PlaceInv, WatchesAreTold
  <2>5. Leaves(after)
    BY <1>2, <2>3, <2>4 DEF Leaves
  <2> QED  BY <2>5 DEF after
<1>4. CASE ~lost /\ error # "other"
  <2> DEFINE cut == DropSubtree(books, each)
  <2>1. Dropped(books, cut, {each})
    BY <1>1, DropSubtreeIs
  <2>2. after = [cut EXCEPT !.failed = cut.failed \cup {each}] \/ after = cut
    BY <1>4 DEF Fail
  <2> HIDE DEF cut, after, each
  <2>3. Leaves(cut)
    BY <2>1, DropLeaves DEF each
  <2>4. cut \in Books
    BY <2>3 DEF Leaves, BooksFit, WatchesKept
  <2>5. /\ after.unavailable = cut.unavailable /\ cut.failed \subseteq after.failed
        /\ SameWatches(cut, after)
        /\ after.tree = cut.tree /\ after.work = cut.work /\ after.enter = cut.enter
    BY <2>2, <2>4 DEF Books, SameWatches
  <2>6. /\ \A e \in after.watcher : Opens(e)
        /\ after.watched \subseteq after.watcher \cup reports \cup dirty
        /\ \A e \in after.tree : books.root \in Above[e] /\ Above[e] \subseteq after.tree
    BY <2>3, <2>5 DEF SameWatches, Leaves
  <2>7. \A e : OwedIn(cut, e) => OwedIn(after, e)
    BY <2>5 DEF OwedIn
  <2>8. \A e : cut.failed \cap Above[e] # {} => after.failed \cap Above[e] # {}
    BY <2>5
  <2>9. ASSUME ~after.unavailable, NEW e \in after.budget.watched \ after.watched
        PROVE  \/ e \in missed \cup reports \cup dirty
               \/ e \notin books.budget.watched /\ ~Opens(e)
               \/ after.failed \cap Above[e] # {}
               \/ OwedIn(after, e)
    BY <2>3, <2>5, <2>7, <2>8, <2>9 DEF Leaves, SameWatches
  <2>10. Leaves(after)
    BY <1>2, <2>6, <2>9 DEF Leaves
  <2> QED  BY <2>10 DEF after, each
<1> QED  BY <1>3, <1>4

(* Reading a directory looks at what is new below it, and at all below it if that is owed. *)
LEMMA SucceedLeaves ==
    ASSUME PlaceInv, SettleInv, PipelineFits, Current, reading # None, Opens(reading.folder)
    PROVE  Leaves(Succeed(books, reading.folder, reading.enter, reading.recheck, reading.retry))
<1> DEFINE each == reading.folder
           after == Succeed(books, each, reading.enter, reading.recheck, reading.retry)
           folders == IF books.recursive THEN Children(each) ELSE {}
<1>1. /\ BooksFit(books) /\ limit \in Nat /\ books.root \in Folders
      /\ shots \in [Folders -> 0 .. 2] /\ present \subseteq Folders
      /\ each \in Folders /\ reading.enter \in BOOLEAN /\ reading.recheck \in BOOLEAN
      /\ reading.retry \in BOOLEAN
      /\ reading.retry => each \in books.budget.watched /\ each \notin books.watched
      /\ each \in books.tree
  BY ListerTypesAre DEF ListerTypes, Readings, SettleInv, BooksRest
<1>s. after = Succeed(books, each, reading.enter, reading.recheck, reading.retry)
  OBVIOUS
<1>f. folders = IF books.recursive THEN Children(each) ELSE {}
  OBVIOUS
<1>r. Opens(each) /\ (each \in books.budget.watched \ books.watched => reading.retry)
  BY DEF PlaceInv, WatchesAreTold
<1>5. \A e \in folders : e \in Folders /\ Parent[e] = each /\ e # each
  BY <1>1 DEF Children
<1> HIDE DEF after, folders, each
<1>2. BooksFit(after) /\ after.walk = books.walk /\ after.root = books.root
  BY <1>1, <1>s, SucceedIs
<1>3. PICK mid, kept, new : \E entered, recheckAll \in BOOLEAN :
         /\ More(books, mid) /\ Readied(books, mid, each)
         /\ reading.retry /\ Opens(each) => each \notin mid.budget.watched \ mid.watched
         /\ Forgives(books, mid, each, folders)
         /\ reading.enter \/ each \in books.failed \/ (each = books.root /\ books.unavailable) => entered
         /\ Followed(mid, after, each, folders, entered, recheckAll, kept, new)
  <2>1. ReadsBelow(books, after, each, folders, reading.enter, reading.retry)
    BY <1>1, <1>s, <1>f, SucceedIs
  <2> QED  BY <2>1 DEF ReadsBelow
<1>4. PICK entered \in BOOLEAN, recheckAll \in BOOLEAN :
         /\ More(books, mid) /\ Readied(books, mid, each)
         /\ reading.retry => each \notin mid.budget.watched \ mid.watched
         /\ Forgives(books, mid, each, folders)
         /\ reading.enter \/ each \in books.failed \/ (each = books.root /\ books.unavailable) => entered
         /\ Followed(mid, after, each, folders, entered, recheckAll, kept, new)
  BY <1>3, <1>r
<1> DEFINE dying == KnownBelow(mid, each) \ folders
           dead == Beneath(dying)
<1>6. /\ after.tree = (books.tree \cup folders) \ dead
      /\ after.failed = mid.failed \ dead
      /\ after.unavailable = mid.unavailable
      /\ kept \subseteq mid.watched /\ after.watched = kept \cup new
      /\ after.watcher = (mid.watcher \cap kept) \cup new
      /\ \A x \in new : Opens(x)
      /\ \A e \in mid.enter \ dead : e \in after.enter
      /\ entered => folders \subseteq after.enter
      /\ \A e : Has(mid.work, e) /\ e \notin dead => Has(after.work, e)
      /\ \A e \in folders : entered \/ e \notin KnownBelow(mid, each) => Has(after.work, e)
      /\ \A x \in after.budget.watched \ after.watched :
            x \in mid.budget.watched \ mid.watched \/ x \in folders \ KnownBelow(mid, each) \/ ~Opens(x)
  BY <1>4 DEF Followed, More, SameCourse, ToRead
<1>7. \A e \in dying : e \in books.tree /\ e \in Folders /\ Parent[e] = each /\ e # each /\ e \notin folders
  BY <1>4, BooksHave DEF KnownBelow, More
<1>8. \A e \in books.tree : Parent[e] = each /\ e # each => e \in folders \/ e \in dying
  BY <1>4 DEF KnownBelow, More
<1>9. ASSUME NEW e \in after.tree
      PROVE  /\ e \in Folders /\ Above[e] \subseteq books.tree \cup folders
             /\ \A x \in Above[e] : x \notin dead
             /\ books.root \in Above[e]
  <2>1. e \in Folders /\ e \notin dead
    BY <1>5, <1>6, BooksHave
  <2>2. ASSUME NEW x \in Above[e], NEW child \in dying, x \in Within(child)
        PROVE  FALSE
    BY <2>1, <2>2, AboveJoins DEF Within, dead, Beneath
  <2>3. \A x \in Above[e] : x \notin dead
    BY <2>2 DEF dead, Beneath
  <2>4. CASE e \in books.tree
    BY <2>1, <2>3, <2>4 DEF PlaceInv, WatchesAreTold
  <2>5. CASE e \in folders
    <3>1. Above[e] = {e} \cup Above[each]
      BY <1>5, <2>1, <2>5, AboveIs DEF Over
    <3> QED  BY <1>1, <2>1, <2>3, <2>5, <3>1 DEF PlaceInv, WatchesAreTold, each
  <2> QED  BY <1>6, <2>4, <2>5
<1> HIDE DEF dying, dead
(* The way down from the directory that was read goes through one of its subdirectories. *)
<1>10. ASSUME NEW e \in after.tree, each \in Above[e], e # each, entered
       PROVE  OwedIn(after, e)
  <2>1. PICK next \in Above[e] : Parent[next] = each /\ next # each
    BY <1>9, <1>10, AboveJoins
  <2>2. next \in folders
    BY <1>7, <1>8, <1>9, <2>1, AboveJoins DEF dead, Beneath, Within
  <2> QED  BY <1>6, <1>10, <2>1, <2>2 DEF OwedIn
<1>11. ASSUME NEW e \in after.budget.watched \ after.watched, ~after.unavailable
       PROVE  \/ e \in missed \cup reports \cup dirty
              \/ e \notin books.budget.watched /\ ~Opens(e)
              \/ after.failed \cap Above[e] # {}
              \/ OwedIn(after, e)
  <2>1. e \in after.tree /\ e \in Above[e]
    BY <1>2, <1>9, AboveJoins DEF BooksFit, Known
  <2>2. CASE e \in folders \ KnownBelow(mid, each)
    BY <1>6, <2>1, <2>2 DEF OwedIn
  <2>3. CASE e \notin books.budget.watched /\ ~Opens(e)
    BY <2>3
  <2>4. CASE e \in books.watched
    BY <1>4, <1>6, <1>11, <2>2, <2>4 DEF PlaceInv, WatchesAreTold, Readied
  <2>5. CASE e \in books.budget.watched \ books.watched
    <3>1. e = each => OwedIn(after, e)
      BY <1>r, <1>4, <1>5, <1>6, <1>11, <2>5
    <3>2. each \in Above[e] /\ entered => OwedIn(after, e)
      BY <1>10, <2>1, <3>1
    <3>3. CASE books.unavailable
      BY <1>4, <1>6, <1>9, <1>11, <2>1, <3>2, <3>3 DEF Readied
    <3>4. CASE Unreadable(e)
      <4>1. PICK f \in books.failed : f \in Above[e]
        BY <3>4 DEF Unreadable
      <4>2. CASE f \in mid.failed
        BY <1>6, <1>9, <2>1, <4>1, <4>2
      <4>3. CASE f = each
        BY <1>4, <3>2, <4>1, <4>3
      <4>4. ASSUME NEW child \in Folders \ folders, Parent[child] = each, child # each, f \in Within(child)
            PROVE  FALSE
        BY <1>8, <1>9, <2>1, <4>1, <4>4, AboveJoins DEF Within, dead, Beneath
      <4> QED  BY <1>4, <4>1, <4>2, <4>3, <4>4 DEF Forgives
    <3>5. CASE OwedIn(books, e)
      <4>1. PICK x \in Above[e] : Has(books.work, x) /\ (x = e \/ x \in books.enter)
        BY <3>5 DEF OwedIn
      <4>2. x \notin dead /\ Has(mid.work, x) /\ (x = e \/ x \in mid.enter)
        BY <1>4, <1>9, <2>1, <4>1 DEF More
      <4> QED  BY <1>6, <4>1, <4>2 DEF OwedIn
    <3>6. CASE Owed(e) /\ ~OwedIn(books, e)
      BY <1>4, <3>1, <3>2, <3>6 DEF Owed, each
    <3> QED  BY <2>5, <3>3, <3>4, <3>5, <3>6 DEF PlaceInv, PlacesAreOwed
  <2>6. e \in books.budget.watched \/ e \in folders \ KnownBelow(mid, each) \/ ~Opens(e)
    BY <1>4, <1>6, <1>11 DEF Readied
  <2> QED  BY <2>2, <2>3, <2>4, <2>5, <2>6
<1>12. /\ \A e \in after.watcher : Opens(e)
       /\ after.watched \subseteq after.watcher \cup reports \cup dirty
  BY <1>4, <1>6 DEF PlaceInv, WatchesAreTold, Readied
<1>13. \A e \in after.tree : Above[e] \subseteq after.tree
  BY <1>6, <1>9
<1>14. Leaves(after)
  BY <1>2, <1>9, <1>11, <1>12, <1>13 DEF Leaves
<1> QED  BY <1>14 DEF after, each

LEMMA ReadingPlaces ==
    ASSUME PlaceInv, SettleInv, PipelineFits, Misses, NEW outcome, StepReads(outcome)
    PROVE  PlaceInv'
<1> DEFINE after == IF outcome = "read"
                    THEN Succeed(books, reading.folder, reading.enter, reading.recheck, reading.retry)
                    ELSE Fail(books, reading.folder, outcome)
<1>1. /\ reading # None /\ reading' = None /\ Current
      /\ books' = [after EXCEPT !.batch = <<>>]
      /\ UNCHANGED <<present, mounted, wanted, reports, dirty>>
      /\ outcome = "read" => Opens(reading.folder)
  BY DEF StepReads, requests
<1>2. Leaves(after)
  BY <1>1, SucceedLeaves, FailLeaves
<1> HIDE DEF after
<1> QED  BY <1>1, <1>2, LeavesPlaces

LEMMA NextPlaces ==
    ASSUME PlaceInv, SettleInv, PipelineFits, Next
    PROVE  PlaceInv'
<1>1. CASE ListerStep
  BY <1>1, BeginPlaces, AbandonedPlaces, EndPlaces, WatchesPlaces, ReadingPlaces, ChangesPlaces
     DEF ListerStep, Misses
<1>2. CASE ~ListerStep
  BY <1>2, DiskPlaces, ModelPlaces DEF Next
<1> QED  BY <1>1, <1>2

(* Once nothing is under way or on its way, every directory that has a watch is there, and every
   one that has a place has its watch, but for one that could not be read or is below one, and one
   that was away when it got the place: whatever was read, refused, lost or switched in whatever
   order, for any directories, limits and errors. *)
THEOREM PlacesGetWatches ==
    Spec => [](AtRest /\ folder # None /\ ~books.unavailable =>
                   PlacesAreWatched /\ \A each \in books.watched : Opens(each))
<1> DEFINE Good == PipelineFits /\ SettleInv /\ PlaceInv
           Settles == AtRest /\ folder # None => NothingIsLeft /\ RowsAreFollowed
           Placed == AtRest /\ folder # None /\ ~books.unavailable =>
                         PlacesAreWatched /\ \A each \in books.watched : Opens(each)
<1>1. Init => Good
  BY PipelineInitHolds, SettlesAtFirst, PlacesAtFirst
<1>2. Good /\ [Next]_vars => Good'
  <2> SUFFICES ASSUME Good, [Next]_vars
               PROVE  Good'
    OBVIOUS
  <2>1. CASE Next
    BY <2>1, PipelineNextFits, NextSettles, NextPlaces
  <2>2. CASE UNCHANGED vars
    <3>1. PipelineFits' /\ SettleInv'
      BY <2>2, StillSettles, PipelineStill
         DEF vars, folderVars, lister, requests, model, SettleInv, BooksRest, BooksSettle, WalksEnd
    <3>2. PlaceInv'
      BY <2>2 DEF vars, disk, lister, requests, history, PlaceInv, WatchesAreTold, PlacesAreOwed,
                  Opens, Current, Unreadable, Owed, OwedIn
    <3> QED  BY <3>1, <3>2
  <2> QED  BY <2>1, <2>2
<1>3. Good /\ Settles => Placed
  BY DEF AtRest, PlaceInv, WatchesAreTold, NothingIsLeft, Owed, OwedIn, Has, PlacesAreOwed,
         PlacesAreWatched
<1> QED  BY <1>1, <1>2, <1>3, RowsSettleAtRest, PTL DEF Spec
=============================================================================
