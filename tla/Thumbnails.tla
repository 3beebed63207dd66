----------------------------- MODULE Thumbnails -----------------------------
(***************************************************************************)
(* The pictures of the film strip: a worker thread makes the camera's own  *)
(* picture of every photograph, then one developed with its saved          *)
(* settings, and posts them to the strip; the photograph that is open is   *)
(* shown as it is being edited.  The strip tells the worker what is        *)
(* listed, what has gone and what is out of date.  A picture is named by   *)
(* the settings it was developed with, which are read in two reads.  The   *)
(* cache, whose keys hold all that a picture depends on, is left out, and  *)
(* so are the snapshots' pictures, which SnapshotWorkflow has.             *)
(***************************************************************************)
EXTENDS Naturals, Sequences, SequencesExt, Subsequences

CONSTANTS
    Photos,
    None,
    SettingsBound,  \* caps: changes of saved settings,
    ListingBound,   \* folders listed,
    ResultBound     \* and results that the strip has not received

VARIABLES
    settings,    \* the settings each sidecar has, by the change that made them
    pictures,    \* the thumbnails of rows_; None where there is no row
    generation,  \* generation_
    known,       \* known_
    queued,      \* urgent_, embedded_ and developed_
    working,     \* the job under way, with the settings it has read
    results,     \* results posted to the strip
    live,        \* live_
    owed         \* to state the property with: photographs whose picture may be out of date
                 \* without the worker having been told to make another

strip == <<pictures, generation, known, live>>
vars == <<settings, strip, queued, working, results, owed>>

NoPicture == <<>>

Listed == {photo \in Photos : pictures[photo] # None}

NothingQueued == [urgent |-> <<>>, embedded |-> {}, developed |-> {}]

Init ==
    /\ settings = [photo \in Photos |-> 0]
    /\ pictures = [photo \in Photos |-> None]
    /\ generation = 0
    /\ known = {}
    /\ queued = NothingQueued
    /\ working = None
    /\ results = <<>>
    /\ live = None
    /\ owed = {}

-----------------------------------------------------------------------------
(* The settings change, and the strip hears of it later. *)

ChangeSettings(photo) ==
    /\ settings[photo] < SettingsBound
    /\ settings' = [settings EXCEPT ![photo] = @ + 1]
    /\ owed' = owed \cup {photo}
    /\ UNCHANGED <<strip, queued, working, results>>

(* Mutant of Invalidate: the picture that is being made is taken for the new one. *)
InvalidateUnlessWorking(photo) ==
    /\ queued' = IF photo \in known /\ (working = None \/ working.photo # photo)
                 THEN [urgent |-> Append(Without(queued.urgent, {photo}), photo),
                       embedded |-> queued.embedded \ {photo},
                       developed |-> queued.developed \ {photo}]
                 ELSE queued
    /\ owed' = IF photo \in known THEN owed \ {photo} ELSE owed

(* invalidate(): of a photograph that is known, the developed picture is made, before all else. *)
Invalidate(photo) ==
    /\ queued' = IF photo \in known
                 THEN [urgent |-> Append(Without(queued.urgent, {photo}), photo),
                       embedded |-> queued.embedded \ {photo},
                       developed |-> queued.developed \ {photo}]
                 ELSE queued
    /\ owed' = IF photo \in known THEN owed \ {photo} ELSE owed

(* noteSettingsSaved(), or sidecarChangedExternally. *)
HearOfChange(photo) ==
    /\ photo \in owed
    /\ Invalidate(photo)
    /\ UNCHANGED <<settings, strip, working, results>>

-----------------------------------------------------------------------------
(* What the strip lists. *)

(* listFolder(), with setShots({}). *)
ListFolder ==
    /\ generation < ListingBound
    /\ generation' = generation + 1
    /\ pictures' = [photo \in Photos |-> None]
    /\ known' = {}
    /\ queued' = NothingQueued
    /\ live' = None
    /\ owed' = {}
    /\ UNCHANGED <<settings, working, results>>

(* takeInsertedRows(), with addShots(): what is known is not made again. *)
InsertRows(coming) ==
    /\ generation > 0
    /\ coming # {} /\ coming \cap Listed = {}
    /\ pictures' = [photo \in Photos |-> IF photo \in coming THEN NoPicture ELSE pictures[photo]]
    /\ known' = known \cup coming
    /\ queued' = [queued EXCEPT !.embedded = @ \cup (coming \ known),
                                !.developed = @ \cup (coming \ known)]
    /\ owed' = (owed \ coming) \cup (coming \cap known)
    /\ UNCHANGED <<settings, generation, working, results, live>>

(* Rows go; with the subfolders, removeShots() has the worker forget them. *)
RemoveRows(going, subfolders) ==
    /\ going # {} /\ going \subseteq Listed
    /\ pictures' = [photo \in Photos |-> IF photo \in going THEN None ELSE pictures[photo]]
    /\ IF subfolders
       THEN /\ known' = known \ going
            /\ queued' = [urgent |-> Without(queued.urgent, going),
                          embedded |-> queued.embedded \ going,
                          developed |-> queued.developed \ going]
       ELSE UNCHANGED <<known, queued>>
    /\ UNCHANGED <<settings, generation, working, results, live, owed>>

-----------------------------------------------------------------------------
(* The photograph that is open. *)

(* followWithThumbnail(), with setLiveThumbnail(). *)
SetLiveThumbnail(photo) ==
    /\ live \in {None, photo}
    /\ photo \in Listed
    /\ live' = photo
    /\ pictures' = [pictures EXCEPT ![photo] = NoPicture]
    /\ UNCHANGED <<settings, generation, known, queued, working, results, owed>>

(* showPhoto() and closePhoto(), with releaseLiveThumbnail(). *)
ReleaseLiveThumbnail ==
    /\ live # None
    /\ live' = None
    /\ Invalidate(live)
    /\ UNCHANGED <<settings, pictures, generation, known, working, results>>

-----------------------------------------------------------------------------
(* The worker. *)

Work(photo, kind) ==
    /\ working = None
    /\ working' = [photo |-> photo, kind |-> kind, generation |-> generation, read |-> NoPicture]
    /\ UNCHANGED <<settings, strip, results, owed>>

(* next(): of photographs that wait alike one that is visible goes first, whichever that is. *)
TakeUrgent ==
    /\ queued.urgent # <<>>
    /\ Work(Head(queued.urgent), "developed")
    /\ queued' = [queued EXCEPT !.urgent = Tail(@)]

TakeEmbedded(photo) ==
    /\ queued.urgent = <<>>
    /\ photo \in queued.embedded
    /\ Work(photo, "embedded")
    /\ queued' = [queued EXCEPT !.embedded = @ \ {photo}]

TakeDeveloped(photo) ==
    /\ queued.urgent = <<>>
    /\ queued.embedded = {}
    /\ photo \in queued.developed
    /\ Work(photo, "developed")
    /\ queued' = [queued EXCEPT !.developed = @ \ {photo}]

(* execute(): the state and the negative settings are read one after the other. *)
ReadSettings ==
    /\ working # None
    /\ working.kind = "developed"
    /\ Len(working.read) < 2
    /\ working' = [working EXCEPT !.read = Append(@, settings[working.photo])]
    /\ UNCHANGED <<settings, strip, queued, results, owed>>

(* A picture for another listing is not delivered, nor is one that the camera did not make. *)
Deliver(made) ==
    /\ working # None
    /\ working.kind = "developed" => Len(working.read) = 2 /\ made
    /\ Len(results) < ResultBound
    /\ results' = IF made /\ working.generation = generation
                  THEN Append(results, [photo |-> working.photo, picture |-> working.read,
                                        generation |-> generation])
                  ELSE results
    /\ working' = None
    /\ UNCHANGED <<settings, strip, queued, owed>>

(* receiveThumbnail(). *)
ReceiveThumbnail ==
    /\ results # <<>>
    /\ results' = Tail(results)
    /\ LET result == Head(results)
       IN  pictures' = IF result.generation = generation /\ result.photo # live
                           /\ result.photo \in Listed
                       THEN [pictures EXCEPT ![result.photo] = result.picture]
                       ELSE pictures
    /\ UNCHANGED <<settings, generation, known, live, queued, working, owed>>

-----------------------------------------------------------------------------
Next ==
    \/ \E photo \in Photos :
        \/ ChangeSettings(photo)
        \/ HearOfChange(photo)
        \/ SetLiveThumbnail(photo)
        \/ TakeEmbedded(photo)
        \/ TakeDeveloped(photo)
    \/ ListFolder
    \/ \E some \in SUBSET Photos :
        \/ InsertRows(some)
        \/ \E subfolders \in BOOLEAN : RemoveRows(some, subfolders)
    \/ ReleaseLiveThumbnail
    \/ TakeUrgent
    \/ ReadSettings
    \/ \E made \in BOOLEAN : Deliver(made)
    \/ ReceiveThumbnail

Spec == Init /\ [][Next]_vars

-----------------------------------------------------------------------------
Versions == 0 .. SettingsBound

Shown == {NoPicture} \cup (Versions \X Versions)

Jobs == [photo : Photos, kind : {"embedded", "developed"}, generation : 0 .. ListingBound,
         read : Seq(Versions)]

TypeOK ==
    /\ settings \in [Photos -> Versions]
    /\ pictures \in [Photos -> Shown \cup {None}]
    /\ working \in Jobs \cup {None}
    /\ known \cup owed \cup queued.embedded \cup queued.developed \cup ToSet(queued.urgent)
           \subseteq Photos
    /\ live \in Photos \cup {None}

(* When the worker has nothing left to do, every row shows the picture developed with the settings
   that are saved, also when they changed while it was made, was on its way, or the photograph was
   being edited and the edits were abandoned; unless nobody told the worker of the change, or the
   row came back to a worker that had known it. *)
PicturesAgree ==
    queued = NothingQueued /\ working = None /\ results = <<>> =>
        \A photo \in Listed \ (owed \cup {live}) :
            pictures[photo] = <<settings[photo], settings[photo]>>
=============================================================================
