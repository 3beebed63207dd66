---------------------------- MODULE BatchExport ----------------------------
(***************************************************************************)
(* The export command: one process that exports the photographs its        *)
(* arguments name, one after the other, into one folder.  Folders among    *)
(* the arguments stand for their shots; a photograph that fails does not   *)
(* stop the rest; a device that fails is replaced by the CPU, unless the   *)
(* device was asked for by name.                                           *)
(*                                                                         *)
(* A path is a name, and two names may be of one file, as on a file system *)
(* that ignores case.  Settings, formats and what is written beside the    *)
(* pixels are left out: whatever goes wrong with them is a failure.        *)
(***************************************************************************)
EXTENDS Naturals, Sequences, FiniteSets, SequencesExt, Subsequences

CONSTANTS
    Names,        \* paths, as pathKey gives them
    FileOf,       \* the file each names
    Folders,
    Shots,        \* what listShots gives for each folder: primaries and their companions
    Outputs,      \* folders to export to
    Destination,  \* by output and photograph
    CommandLines, \* sequences of names and folders
    None

VARIABLES
    arguments,    \* the command line: its inputs,
    output,       \* --output,
    overwrite,    \* --overwrite,
    wants,        \* and --device
    disk,         \* what each file holds: None, "before", or the photograph it is an export of
    phase,        \* how far the command is
    photographs,  \* expanded.photographs that are left to export
    unreadable,   \* places of the folders that could not be listed
    batchFiles,   \* names of the files that must not become a destination
    written,      \* destinations written, by input
    device,       \* whether there is a context
    failures,
    code,         \* the exit code
    leftOut       \* photographs that the filter did not want

request == <<arguments, output, overwrite, wants>>
vars == <<request, disk, phase, photographs, unreadable, batchFiles, written, device, failures,
          code, leftOut>>

Files == Range(FileOf)

Photograph(path, companions) == [path |-> path, companions |-> companions]

(* The shot's primary and companions, for every shot of a folder; a file is kept as given. *)
Expansion(argument) ==
    IF argument \in Folders
    THEN [i \in DOMAIN Shots[argument] |->
             Photograph(Shots[argument][i].primary, Shots[argument][i].companions)]
    ELSE <<Photograph(argument, {})>>

(* What the photographs of the arguments that could be read are made of. *)
Sources == {arguments[i] : i \in DOMAIN arguments \ unreadable}

Named == UNION {{one.path : one \in Range(Expansion(argument))} : argument \in Sources}

Companions == UNION {UNION {one.companions : one \in Range(Expansion(argument))} :
                        argument \in Sources}

Init ==
    /\ arguments \in CommandLines
    /\ output \in Outputs
    /\ overwrite \in BOOLEAN
    /\ wants \in {"cpu", "auto", "gpu"}
    /\ disk \in [Files -> {None, "before"}]
    /\ \A argument \in Range(arguments) : \A one \in Range(Expansion(argument)) :
          \A name \in {one.path} \cup one.companions : disk[FileOf[name]] = "before"
    /\ phase = "device"
    /\ photographs = <<>>
    /\ unreadable = {}
    /\ batchFiles = {}
    /\ written = {}
    /\ device = FALSE
    /\ failures = 0
    /\ code = None
    /\ leftOut = {}

-----------------------------------------------------------------------------
(* The batch's one context; a device that was asked for and is not there ends the command. *)
CreateContext ==
    /\ phase = "device"
    /\ device' \in IF wants = "cpu" THEN {FALSE} ELSE BOOLEAN
    /\ IF wants = "gpu" /\ ~device'
       THEN phase' = "ended" /\ code' = "failed"
       ELSE phase' = "expand" /\ UNCHANGED code
    /\ UNCHANGED <<request, disk, photographs, unreadable, batchFiles, written, failures, leftOut>>

(* Of photographs with one path the first is kept. *)
WithoutRepeats(found) ==
    Subsequence(found, {i \in DOMAIN found : \A j \in 1 .. i - 1 : found[j].path # found[i].path})

(* Every file the batch reads, a shot's companions included. *)
FilesOf(found) == UNION {{found[i].path} \cup found[i].companions : i \in DOMAIN found}

ExpandInputs ==
    LET found == WithoutRepeats(FlattenSeq(
                     [i \in DOMAIN arguments |->
                         IF i \in unreadable' THEN <<>> ELSE Expansion(arguments[i])]))
    IN  /\ phase = "expand"
        /\ unreadable' \in SUBSET {i \in DOMAIN arguments : arguments[i] \in Folders}
        /\ photographs' = found
        /\ batchFiles' = FilesOf(found)
        /\ failures' = Cardinality(unreadable')
        /\ phase' = "photograph"
        /\ UNCHANGED <<request, disk, written, device, code, leftOut>>

-----------------------------------------------------------------------------
Current == Head(photographs).path

Target == Destination[output][Current]

Exists(name) == disk[FileOf[name]] # None

(* Mutant of SameFileIn: names are compared, not what they name. *)
SameNameIn(name, names) == name \in names

(* sameFileIn(): by name, and if there is such a file, by asking the file system. *)
SameFileIn(name, names) ==
    \/ name \in names
    \/ Exists(name) /\ \E other \in names : FileOf[other] = FileOf[name]

Refused ==
    \/ SameFileIn(Target, batchFiles)
    \/ SameFileIn(Target, {Destination[output][input] : input \in written})
    \/ ~overwrite /\ Exists(Target)

Done(failed) ==
    /\ photographs' = Tail(photographs)
    /\ phase' = "photograph"
    /\ failures' = failures + IF failed THEN 1 ELSE 0

LeaveOut ==
    /\ phase = "photograph"
    /\ photographs # <<>>
    /\ leftOut' = leftOut \cup {Current}
    /\ Done(FALSE)
    /\ UNCHANGED <<request, disk, unreadable, batchFiles, written, device, code>>

(* The destination is refused, or the photograph cannot be opened, decoded, planned or developed,
   or its export cannot be written. *)
Fail ==
    /\ \/ phase = "photograph" /\ photographs # <<>>
       \/ phase \in {"develop", "write"}
    /\ Done(TRUE)
    /\ UNCHANGED <<request, disk, unreadable, batchFiles, written, device, code, leftOut>>

Open ==
    /\ phase = "photograph"
    /\ photographs # <<>>
    /\ ~Refused
    /\ phase' = "develop"
    /\ UNCHANGED <<request, disk, photographs, unreadable, batchFiles, written, device, failures,
                   code, leftOut>>

(* The device may fail, for good or not, and then the CPU develops; but not when the device was
   asked for. *)
Develop ==
    /\ phase = "develop"
    /\ phase' = "write"
    /\ device' \in IF device /\ wants = "auto" THEN BOOLEAN ELSE {device}
    /\ UNCHANGED <<request, disk, photographs, unreadable, batchFiles, written, failures, code,
                   leftOut>>

(* exportImage() replaces what is there. *)
Write ==
    /\ phase = "write"
    /\ disk' = [disk EXCEPT ![FileOf[Target]] = Current]
    /\ written' = written \cup {Current}
    /\ Done(FALSE)
    /\ UNCHANGED <<request, unreadable, batchFiles, device, code, leftOut>>

End ==
    /\ phase = "photograph"
    /\ photographs = <<>>
    /\ phase' = "ended"
    /\ code' = IF failures > 0 THEN "failed" ELSE "success"
    /\ UNCHANGED <<request, disk, photographs, unreadable, batchFiles, written, device, failures,
                   leftOut>>

Next ==
    \/ CreateContext
    \/ ExpandInputs
    \/ LeaveOut
    \/ Fail
    \/ Open
    \/ Develop
    \/ Write
    \/ End

Spec == Init /\ [][Next]_vars

-----------------------------------------------------------------------------
(* The companions of a shot that an earlier argument names as a file: the folder's own entry for
   the shot is dropped as a repeat, and its companions with it. *)
Overlooked ==
    {companion \in Companions :
        \E i, j \in DOMAIN arguments :
            /\ i < j
            /\ \E one \in Range(Expansion(arguments[j])) :
                  one.path = arguments[i] /\ companion \in one.companions}

(* An export never replaces a photograph that the batch exports or a companion of one, nor the
   export of another photograph, and without --overwrite it replaces nothing, under whatever
   name the file system knows the file; the command says success only when every photograph was
   exported or left out by the filter.  Companions that are overlooked are excepted: see
   CompanionsAreKept. *)
NothingIsReplaced ==
    [][/\ \A each \in Files :
             disk'[each] # disk[each] =>
                 /\ \A name \in Named \cup (Companions \ Overlooked) : FileOf[name] # each
                 /\ disk[each] \in {None, "before"}
                 /\ ~overwrite => disk[each] = None
       /\ code' = "success" => unreadable = {} /\ Named = written \cup leftOut]_vars

(* "Replace outputs that already exist, but never a file this run reads (a shot's companions
   included) or has written": what the command says of --overwrite. *)
CompanionsAreKept == \A name \in Companions : disk[FileOf[name]] = "before"
=============================================================================
