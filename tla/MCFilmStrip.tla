----------------------------- MODULE MCFilmStrip -----------------------------
(***************************************************************************)
(* Small instances of what the film strip has running, in one run: the     *)
(* rows and the folder on the disk, in two parts, and beside them the      *)
(* marks and the pictures of a photograph.  The first state decides which  *)
(* part runs.  The others stay as they are, so the states are those of the *)
(* four parts added up.                                                    *)
(*                                                                         *)
(* The folder (0) has subfolders (1, perhaps 3, and 2 in 1), and there is  *)
(* another (4).  "changes" is what changes after one walk with the         *)
(* subfolders, with a user interface that is not slow; "walks" is walks    *)
(* started one after the other, of either folder, with fewer watches and   *)
(* fewer changes.  In both, the reports of a second change, or of any with *)
(* more walks, come before the lister reads again.                         *)
(***************************************************************************)
EXTENDS FolderPipeline

CONSTANTS
    Photos, OwnStampsKept, WriteBound, ListingBound, JobBound,
    SettingsBound, ResultBound

ASSUME BoundsAssumption ==
    /\ IsFiniteSet(Photos) /\ None \notin Photos
    /\ {OwnStampsKept, WriteBound, ListingBound, JobBound, SettingsBound, ResultBound} \subseteq Nat

VARIABLES
    part,
    \* of the marks
    sidecar, writes, row, listing, jobs, loading, pending, ownStamps, saving, unread, ignored,
    untold,
    \* of the pictures
    settings, pictures, generation, known, queued, working, live, owed,
    \* of either
    results

Reads == INSTANCE ShotReads

Pictures == INSTANCE Thumbnails

(* "Nothing" is none of the things that may be there instead. *)
ASSUME NothingAssumption ==
    /\ None \notin Reads!Versions \cup Reads!Rows \cup Reads!Loads \cup Reads!Saves
    /\ None \notin Pictures!Shown \cup Pictures!Jobs

folderVars == <<disk, reports, lister, requests, incoming, changes, model, history>>
readVars == <<sidecar, writes, row, listing, jobs, loading, pending, ownStamps, saving, unread,
              ignored, untold>>
pictureVars == <<settings, pictures, generation, known, queued, working, live, owed>>
MCvars == <<part, folderVars, readVars, pictureVars, results>>

MCParent == [each \in 0 .. 4 |-> IF each \in {0, 4} THEN each ELSE IF each = 2 THEN 1 ELSE 0]

MCTrees == {{0, 1, 2, 4}, {0, 1, 2, 3, 4}}

MCInit ==
    /\ Init
    /\ Reads!Init
    /\ Pictures!Init
    /\ \/ part = "changes" /\ limit = 3
       \/ part = "walks" /\ limit = 2 /\ 3 \notin present
       \/ part \in {"marks", "pictures"} /\ limit = 2 /\ 3 \notin present

-----------------------------------------------------------------------------
InFolder == UNCHANGED <<part, readVars, pictureVars, results>>

OneWalk == walk' <= 1 /\ folder' \in {0, None} /\ recursive' = (folder' # None)

Prompt == incoming # <<>> => incoming' # incoming

Quiet == timer /\ ~timer' /\ Current => reports = {}

InChanges ==
    /\ part = "changes"
    /\ Next
    /\ OneWalk /\ Prompt
    /\ changes' = 2 => Quiet
    /\ changes' + errors' <= 2
    /\ InFolder

InWalks ==
    /\ part = "walks"
    /\ Next
    /\ changes' <= 1
    /\ Quiet
    /\ InFolder

InMarks == part = "marks" /\ Reads!Next /\ UNCHANGED <<part, folderVars, pictureVars>>

InPictures == part = "pictures" /\ Pictures!Next /\ UNCHANGED <<part, folderVars, readVars>>

MCNext == InChanges \/ InWalks \/ InMarks \/ InPictures

MCSpec == MCInit /\ [][MCNext]_MCvars

-----------------------------------------------------------------------------
(* Every variable of every part has its type, and the watches fit (see FolderPipeline). *)
StripFits == TypeOK /\ Reads!TypeOK /\ Pictures!TypeOK /\ WatchesFit

(* The properties of the marks and of the pictures: see ShotReads and Thumbnails. *)
ChangesAreSeen == Reads!ChangesAreSeen

PicturesAgree == Pictures!PicturesAgree
=============================================================================
