----------------------------- MODULE MCRenders -----------------------------
(***************************************************************************)
(* Small instances of developing and exporting, in one run: what the       *)
(* preview renderer keeps between renders, the export command, and the     *)
(* file of export presets.  The first state decides which runs; the others *)
(* stay as they are.                                                       *)
(***************************************************************************)
EXTENDS RenderLadders, ExportFolders, Sequences

CONSTANTS
    RenderBound, SourceBound, EventBound,
    \* the export command's
    Names, FileOf, Folders, Shots, Outputs, Destination, CommandLines,
    \* the presets'
    Writers, Spellings, Fold, Nameless, BuiltIns, Settings, Strange, HandMade,
    AskBound, EditBound, CrashBound

ASSUME BoundsAssumption == {RenderBound, SourceBound, EventBound} \subseteq Nat

VARIABLES
    part,
    renders, sources,    \* renders begun, and sources given
    \* the export command's
    arguments, output, overwrite, wants, disk, phase, photographs, unreadable, batchFiles,
    written, context, failures, code, leftOut,
    \* the presets'
    file, aside, lock, stage, request, copy, overtaken, asked, edits, crashes

(* Denoising or none, a corrected geometry or none, and always the chain of each pixel. *)
MCPlans == {<<1, 0, 1, 0, 0, 0>>, <<1, 0, 1, 1, 0, 0>>, <<0, 0, 1, 1, 0, 0>>}

(* Two spellings of one name, another name, and one that a built-in preset has too. *)
MCFold == <<"web", "web", "print", "social">>

Preset(name, settings, extra) == [name |-> name, settings |-> settings, extra |-> extra]

(* Lists not in order, with two spellings of one name, with a preset of another arraw, with one
   that a built-in hides; a newer file, and one that cannot be read. *)
MCHandMade ==
    {[state |-> "read", entries |-> <<Preset(3, 1, TRUE), Preset(2, 2, FALSE)>>],
     [state |-> "read", entries |-> <<Preset(2, 1, FALSE), Preset(1, 2, TRUE),
                                      Preset(Nameless, Strange, FALSE)>>],
     [state |-> "read", entries |-> <<Preset(4, 1, FALSE), Preset(3, Strange, FALSE)>>],
     [state |-> "newer", entries |-> <<Preset(3, 1, FALSE)>>],
     [state |-> "unreadable", entries |-> <<>>]}

Command == INSTANCE BatchExport WITH device <- context

(* Folders have paths in them, paths are of files, the shots of one primary have the same
   companions, and no path is one of the values that say something else. *)
ASSUME CommandAssumption ==
    /\ None \notin Names \cup {"before", "success"}
    /\ DOMAIN FileOf = Names
    /\ CommandLines \subseteq Seq(Names \cup Folders)
    /\ \A folder \in Folders : Shots[folder] \in Seq([primary : Names, companions : SUBSET Names])
    /\ \A one, other \in UNION {{Shots[folder][i] : i \in DOMAIN Shots[folder]} :
                                  folder \in Folders} :
          one.primary = other.primary => one = other

Presets == INSTANCE ExportPresets

(* Nameless entries come after the others, "no preset" is no entry, and the files that others
   leave are files. *)
ASSUME PresetsAssumption ==
    /\ Spellings \subseteq Nat
    /\ Nameless \in Nat \ Spellings
    /\ None \notin Presets!Entries
    /\ \A left \in HandMade : /\ left.state \in {"missing", "read", "newer", "unreadable"}
                            /\ left.entries \in Seq(Presets!Entries)

commandVars == <<arguments, output, overwrite, wants, disk, phase, photographs, unreadable,
                 batchFiles, written, context, failures, code, leftOut>>

presetVars == <<file, aside, lock, stage, request, copy, overtaken, asked, edits, crashes>>

MCvars == <<part, vars, renders, sources, commandVars, presetVars>>

MCInit ==
    /\ part \in {"ladders", "command", "presets"}
    /\ Init
    /\ renders = 0
    /\ sources = 0
    /\ Command!Init
    /\ Presets!Init
    /\ part # "command" => arguments = <<Card>> /\ output = "o" /\ ~overwrite /\ wants = "cpu"
                              /\ \A path \in DOMAIN disk \ {Card} : disk[path] = None
    /\ part # "ladders" => device = "none"
    /\ part # "presets" => file = Presets!Missing

(* Of the renders only the first may be without denoising. *)
InLadders ==
    /\ part = "ladders"
    /\ Next
    /\ renders' = renders + IF place # "render" /\ place' = "render" THEN 1 ELSE 0
    /\ sources' = sources + IF given' # given THEN 1 ELSE 0
    /\ renders' <= RenderBound
    /\ sources' <= SourceBound
    /\ renders' + sources' <= EventBound
    /\ renders' > 1 /\ render' # None => render'.plan[Denoise] # Off
    /\ UNCHANGED <<part, commandVars, presetVars>>

InCommand ==
    part = "command" /\ Command!Next /\ UNCHANGED <<part, vars, renders, sources, presetVars>>

InPresets ==
    part = "presets" /\ Presets!Next /\ UNCHANGED <<part, vars, renders, sources, commandVars>>

MCNext == InLadders \/ InCommand \/ InPresets

MCSpec == MCInit /\ [][MCNext]_MCvars

-----------------------------------------------------------------------------
(* The properties of the export command and of the presets: see BatchExport, ExportPresets. *)
NothingIsReplaced == Command!NothingIsReplaced

CompanionsAreKept == Command!CompanionsAreKept

OneChangeAtATime == Presets!OneChangeAtATime
=============================================================================
