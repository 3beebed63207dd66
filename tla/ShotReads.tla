----------------------------- MODULE ShotReads -----------------------------
(***************************************************************************)
(* The marks that the film strip shows of the photographs it lists, and    *)
(* the sidecars they are kept in.  A loader thread reads them, once for a  *)
(* new row and again when something may have changed; its results are      *)
(* posted to the user interface, where the user sets marks and saves       *)
(* settings, while other programs write too.  A stamp, and the marks, are  *)
(* named by the write that made them.  EXIF, which the same thread reads   *)
(* when it has nothing else to do, is left out.                            *)
(***************************************************************************)
EXTENDS Naturals, Sequences, SequencesExt, Subsequences

CONSTANTS
    Photos,
    None,
    OwnStampsKept,  \* ownStampsKept
    WriteBound,     \* caps: writes of sidecars,
    ListingBound,   \* folders listed,
    JobBound        \* and reads that are under way

VARIABLES
    sidecar,    \* the sidecar of each photograph on the disk
    writes,     \* the writes so far
    row,        \* rows_, by photograph; None where there is none
    listing,    \* generation_
    jobs,       \* urgent_ of the loader
    loading,    \* the job the loader runs, with the stamp it has read
    results,    \* results posted to the user interface
    pending,    \* pending_
    ownStamps,  \* ownStamps_
    saving,     \* a write of the program that is not noted yet
    \* to state properties with
    unread,     \* photographs whose sidecar changed since a read of it was queued
    ignored,    \* those of which newer marks were taken for older than the ones set by hand
    untold      \* those that another program changed, and nobody was told

loader == <<jobs, loading, results>>
strip == <<row, listing, pending, ownStamps, saving>>
vars == <<sidecar, writes, loader, strip, unread, ignored, untold>>

Listed == {photo \in Photos : row[photo] # None}

Init ==
    /\ sidecar = [photo \in Photos |-> [stamp |-> 0, marks |-> 0]]
    /\ writes = 0
    /\ row = [photo \in Photos |-> None]
    /\ listing = 0
    /\ jobs = <<>>
    /\ loading = None
    /\ results = <<>>
    /\ pending = 0
    /\ ownStamps = [photo \in Photos |-> <<>>]
    /\ saving = None
    /\ unread = {}
    /\ ignored = {}
    /\ untold = {}

-----------------------------------------------------------------------------
(* Writes of sidecars. *)

(* The watched directory reports every write. *)
Write(photo, stamp, marks) ==
    /\ writes < WriteBound
    /\ writes' = writes + 1
    /\ sidecar' = [sidecar EXCEPT ![photo] = [stamp |-> stamp, marks |-> marks]]
    /\ unread' = unread \cup {photo}

(* Another program replaces a sidecar, or deletes it. *)
ForeignWrite(photo) ==
    /\ \/ Write(photo, writes + 1, writes + 1)
       \/ sidecar[photo].stamp # 0 /\ Write(photo, 0, 0)
    /\ untold' = untold \cup {photo}
    /\ UNCHANGED <<loader, strip, ignored>>

(* The writer of applyMarks(); marks not loaded yet are read first, and lose to the edit. *)
WriteMarks(photo) ==
    /\ saving = None
    /\ photo \in Listed
    /\ Write(photo, writes + 1, writes + 1)
    /\ saving' = [photo |-> photo, marks |-> writes + 1]
    /\ UNCHANGED <<loader, row, listing, pending, ownStamps, ignored, untold>>

(* save() of the session, whose photograph is open: the marks stay. *)
WriteSettings(photo) ==
    /\ saving = None
    /\ Write(photo, writes + 1, sidecar[photo].marks)
    /\ saving' = [photo |-> photo, marks |-> None]
    /\ UNCHANGED <<loader, row, listing, pending, ownStamps, ignored, untold>>

(* noteOwnWrite(): the stamp that the sidecar has by now, which may be another program's; a change
   by another that this write came after, or that came before this stamp, is never told. *)
NoteOwnWrite(photo) ==
    LET stamp == sidecar[photo].stamp
        noted == Append(Without(ownStamps[photo], {stamp}), stamp)
    IN  /\ ownStamps' = IF stamp = 0
                        THEN ownStamps
                        ELSE [ownStamps EXCEPT ![photo] =
                                 IF Len(noted) > OwnStampsKept THEN Tail(noted) ELSE noted]
        /\ untold' = untold \ {photo}

(* Mutant of Written: the row takes the stamp along, as if it had been read. *)
WrittenWithStamp ==
    /\ saving # None
    /\ NoteOwnWrite(saving.photo)
    /\ row' = IF saving.marks = None
              THEN row
              ELSE [row EXCEPT ![saving.photo] =
                       [marks |-> saving.marks, loaded |-> TRUE, byHand |-> TRUE,
                        stamp |-> sidecar[saving.photo].stamp]]
    /\ saving' = None
    /\ UNCHANGED <<sidecar, writes, loader, listing, pending, unread, ignored>>

(* The rest of applyMarks(), with setMarks(), or of saveAdjustments(). *)
Written ==
    /\ saving # None
    /\ NoteOwnWrite(saving.photo)
    /\ row' = IF saving.marks = None
              THEN row
              ELSE [row EXCEPT ![saving.photo] =
                       [@ EXCEPT !.marks = saving.marks, !.loaded = TRUE, !.byHand = TRUE]]
    /\ saving' = None
    /\ UNCHANGED <<sidecar, writes, loader, listing, pending, unread, ignored>>

-----------------------------------------------------------------------------
(* What the strip lists. *)

(* setFolder(). *)
ListFolder ==
    /\ saving = None
    /\ listing < ListingBound
    /\ listing' = listing + 1
    /\ row' = [photo \in Photos |-> None]
    /\ jobs' = <<>>
    /\ pending' = 0
    /\ unread' = {}
    /\ ignored' = {}
    /\ untold' = {}
    /\ UNCHANGED <<sidecar, writes, loading, results, ownStamps, saving>>

Jobs(kind, photos) ==
    [i \in DOMAIN SetToSeq(photos) |->
        LET photo == SetToSeq(photos)[i]
        IN  [kind |-> kind, listing |-> listing, photo |-> photo,
             stamp |-> IF kind = "recheck" THEN row[photo].stamp ELSE 0]]

(* mergeFolder() and insertRun(), with the handing over of the reads: the sidecars of the rows
   that stay are looked at again, but for those whose marks are not loaded. *)
Merge(coming, going) ==
    /\ saving = None
    /\ listing > 0
    /\ coming \cap Listed = {} /\ going \subseteq Listed
    /\ LET checked == {photo \in Listed \ going : row[photo].loaded}
           reads == Jobs("recheck", checked) \o Jobs("marks", coming)
       IN  /\ Len(jobs) + Len(results) + Len(reads) <= JobBound
           /\ jobs' = jobs \o reads
           /\ pending' = pending + Len(reads)
           /\ unread' = unread \ (checked \cup coming)
    /\ row' = [photo \in Photos |->
                  IF photo \in coming
                  THEN [marks |-> 0, loaded |-> FALSE, byHand |-> FALSE, stamp |-> 0]
                  ELSE IF photo \in going THEN None ELSE row[photo]]
    /\ ignored' = ignored \ coming
    /\ untold' = untold \ coming
    /\ UNCHANGED <<sidecar, writes, loading, results, listing, ownStamps, saving>>

(* setRecursive(): the rows of the subfolders go, with the reads queued for them. *)
DropSubfolders(going) ==
    /\ saving = None
    /\ going # {} /\ going \subseteq Listed
    /\ LET kept == Subsequence(jobs, {i \in DOMAIN jobs : jobs[i].photo \notin going})
       IN  /\ jobs' = kept
           /\ pending' = pending - (Len(jobs) - Len(kept))
    /\ row' = [photo \in Photos |-> IF photo \in going THEN None ELSE row[photo]]
    /\ UNCHANGED <<sidecar, writes, loading, results, listing, ownStamps, saving, unread, ignored,
                   untold>>

-----------------------------------------------------------------------------
(* The loader's thread: the stamp is taken before the read. *)

Take ==
    /\ loading = None
    /\ jobs # <<>>
    /\ jobs' = Tail(jobs)
    /\ loading' = [job |-> Head(jobs), seen |-> sidecar[Head(jobs).photo].stamp]
    /\ UNCHANGED <<sidecar, writes, results, strip, unread, ignored, untold>>

Execute ==
    /\ loading # None
    /\ LET job == loading.job
           unchanged == job.kind = "recheck" /\ job.stamp = loading.seen
       IN  results' = Append(results,
               [kind |-> job.kind, listing |-> job.listing, photo |-> job.photo,
                stamp |-> loading.seen,
                marks |-> IF unchanged THEN None ELSE sidecar[job.photo].marks])
    /\ loading' = None
    /\ UNCHANGED <<sidecar, writes, jobs, strip, unread, ignored, untold>>

-----------------------------------------------------------------------------
(* receive(), in the user interface. *)

Result == Head(results)

Receive ==
    /\ saving = None
    /\ results # <<>>
    /\ results' = Tail(results)
    /\ UNCHANGED <<sidecar, writes, jobs, loading, listing, ownStamps, saving, unread>>

(* Mutant of ReceiveStale: a result of an earlier folder counts as one of this. *)
ReceiveStaleCounted ==
    /\ Receive
    /\ Result.listing # listing
    /\ pending' = pending - 1
    /\ UNCHANGED <<row, ignored, untold>>

ReceiveStale ==
    /\ Receive
    /\ Result.listing # listing
    /\ UNCHANGED <<row, pending, ignored, untold>>

ReceiveCurrent ==
    /\ Receive
    /\ Result.listing = listing
    /\ pending' = pending - 1

ReceiveUseless ==
    /\ ReceiveCurrent
    /\ Result.photo \notin Listed \/ Result.marks = None
    /\ UNCHANGED <<row, ignored, untold>>

(* The first read; marks set by hand since it was queued are taken to be newer. *)
ReceiveMarks ==
    /\ ReceiveCurrent
    /\ Result.kind = "marks"
    /\ Result.photo \in Listed
    /\ LET old == row[Result.photo]
       IN  /\ row' = [row EXCEPT ![Result.photo] =
                         IF old.byHand
                         THEN [@ EXCEPT !.stamp = Result.stamp]
                         ELSE [@ EXCEPT !.stamp = Result.stamp, !.marks = Result.marks,
                                        !.loaded = TRUE]]
           /\ ignored' = IF old.byHand /\ Result.marks # old.marks /\ Result.stamp > old.marks
                         THEN ignored \cup {Result.photo} ELSE ignored
    /\ untold' = untold \ {Result.photo}

(* A second look that found a change, with onSidecarRefreshed(): a stamp that is not the program's
   own is told. *)
ReceiveChange ==
    /\ ReceiveCurrent
    /\ Result.kind = "recheck"
    /\ Result.photo \in Listed /\ Result.marks # None
    /\ row' = [row EXCEPT ![Result.photo] =
                  [marks |-> Result.marks, loaded |-> TRUE, byHand |-> FALSE,
                   stamp |-> Result.stamp]]
    /\ ignored' = ignored \ {Result.photo}
    /\ untold' = IF Contains(ownStamps[Result.photo], Result.stamp)
                 THEN untold ELSE untold \ {Result.photo}

-----------------------------------------------------------------------------
Next ==
    \/ \E photo \in Photos :
        \/ ForeignWrite(photo)
        \/ WriteMarks(photo)
        \/ WriteSettings(photo)
    \/ Written
    \/ ListFolder
    \/ \E coming, going \in SUBSET Photos : Merge(coming, going)
    \/ \E going \in SUBSET Photos : DropSubfolders(going)
    \/ Take
    \/ Execute
    \/ ReceiveStale
    \/ ReceiveUseless
    \/ ReceiveMarks
    \/ ReceiveChange

Spec == Init /\ [][Next]_vars

-----------------------------------------------------------------------------
Versions == 0 .. WriteBound

Rows == [marks : Versions, loaded : BOOLEAN, byHand : BOOLEAN, stamp : Versions]

Readings == [kind : {"recheck", "marks"}, listing : 0 .. ListingBound, photo : Photos,
             stamp : Versions]

Loads == [job : Readings, seen : Versions]

Saves == [photo : Photos, marks : Versions \cup {None}]

TypeOK ==
    /\ sidecar \in [Photos -> [stamp : Versions, marks : Versions]]
    /\ row \in [Photos -> Rows \cup {None}]
    /\ jobs \in Seq(Readings)
    /\ loading \in Loads \cup {None}
    /\ saving \in Saves \cup {None}
    /\ pending \in Nat
    /\ unread \cup ignored \cup untold \subseteq Photos
    /\ \A photo \in Photos : Len(ownStamps[photo]) <= OwnStampsKept

(* "The stamp is taken before the read, so a write in between shows up as a change at the next
   check rather than being missed" (ShotModel.cpp): when nothing is left to read, no result is
   owed, and a row whose sidecar did not change after a look at it was last asked for shows the
   marks the sidecar has, whichever of the user, another program and the loader came first; and
   what another program changed was told, or read for the first time. *)
ChangesAreSeen ==
    jobs = <<>> /\ loading = None /\ results = <<>> /\ saving = None =>
        /\ pending = 0
        /\ \A photo \in Listed \ (unread \cup ignored) :
            /\ row[photo].loaded
            /\ sidecar[photo].stamp # 0 =>
                   row[photo].marks = sidecar[photo].marks /\ photo \notin untold
=============================================================================
