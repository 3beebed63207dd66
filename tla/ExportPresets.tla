--------------------------- MODULE ExportPresets ---------------------------
(***************************************************************************)
(* The file of export presets, and the processes that change it: dialogs   *)
(* and scripts.  A change takes the lock file, reads the list again,       *)
(* changes one entry of it and puts a new file in place of the old; a text *)
(* editor does none of this.  Readers take no lock and are left out.       *)
(*                                                                         *)
(* Spellings are numbers in the order the file is written in; names that fold  *)
(* alike are spellings of one.  The first entry of a name is the preset,   *)
(* later ones cannot be used.                                              *)
(***************************************************************************)
EXTENDS Naturals, Sequences, FiniteSets, FiniteSetsExt, SequencesExt, Subsequences

CONSTANTS
    Writers,
    Spellings,    \* numbers, in the order of entryBefore()
    Fold,         \* what each name folds to
    Nameless,     \* the name of an entry that has none, or no valid one: after every other
    BuiltIns,     \* folded names of the built-in presets
    Settings,
    Strange,      \* settings this arraw cannot use
    HandMade,     \* files that a text editor or a newer arraw may leave
    AskBound, EditBound, CrashBound,
    None

VARIABLES
    file,         \* its state and entries
    aside,        \* files that were set aside
    lock,         \* who holds the lock file
    stage,        \* how far each writer is
    request,      \* the change it is to make
    copy,         \* the list it will write
    overtaken,    \* writers that an editor wrote under (a ghost)
    asked, edits, crashes

vars == <<file, aside, lock, stage, request, copy, overtaken, asked, edits, crashes>>

Entries == [name : Spellings \cup {Nameless}, settings : Settings \cup {Strange}, extra : BOOLEAN]

(* "extra" says that the entry has keys this arraw does not know. *)
Entry(name, settings, extra) == [name |-> name, settings |-> settings, extra |-> extra]

File(state, entries) == [state |-> state, entries |-> entries]

Missing == File("missing", <<>>)

Saves == [kind : {"save"}, name : Spellings, settings : Settings]
Renames == [kind : {"rename"}, name : Spellings, to : Spellings]
Removals == [kind : {"remove"}, name : Spellings]
SettingAside == [kind |-> "setAside"]

TypeOK ==
    /\ file.state \in {"missing", "read", "newer", "unreadable"}
    /\ file.entries \in Seq(Entries)
    /\ lock \in Writers \cup {None}
    /\ \A w \in Writers :
          /\ stage[w] \in {"idle", "waiting", "locked", "writing", "moving", "done", "dead"}
          /\ request[w] \in Saves \cup Renames \cup Removals \cup {SettingAside, None}
          /\ copy[w] \in Seq(Entries)
    /\ overtaken \subseteq Writers

Init ==
    /\ file \in HandMade \cup {Missing}
    /\ aside = {}
    /\ lock = None
    /\ stage = [w \in Writers |-> "idle"]
    /\ request = [w \in Writers |-> None]
    /\ copy = [w \in Writers |-> <<>>]
    /\ overtaken = {}
    /\ asked = 0
    /\ edits = 0
    /\ crashes = 0

-----------------------------------------------------------------------------
(* A list of entries. *)

SameName(a, b) == Nameless \notin {a, b} /\ Fold[a] = Fold[b]

Named(entries, name) == {i \in DOMAIN entries : SameName(entries[i].name, name)}

(* findEntry() *)
First(entries, name) == Min(Named(entries, name))

Duplicate(entries, i) == \E j \in 1 .. i - 1 : SameName(entries[j].name, entries[i].name)

(* Refusals of save(), rename() and remove() that depend on the list. *)
Refused(change, entries) ==
    LET found == Named(entries, change.name)
        unusable == found # {} /\ entries[First(entries, change.name)].settings = Strange
    IN  CASE change.kind = "save" -> unusable
          [] change.kind = "remove" -> found = {}
          [] change.kind = "rename" ->
                \/ found = {}
                \/ unusable
                \/ \E i \in Named(entries, change.to) :
                      i # First(entries, change.name) /\ ~Duplicate(entries, i)

Changed(change, entries) ==
    LET found == Named(entries, change.name)
        first == First(entries, change.name)
    IN  CASE change.kind = "save" ->
                IF found = {}
                THEN Append(entries, Entry(change.name, change.settings, FALSE))
                ELSE ReplaceAt(entries, first,
                               Entry(change.name, change.settings, entries[first].extra))
          [] change.kind = "remove" -> RemoveAt(entries, first)
          [] change.kind = "rename" ->
                ReplaceAt(entries, first,
                          Entry(change.to, entries[first].settings, entries[first].extra))

(* writeExportPresets(): a stable sort by name. *)
InOrder(entries) ==
    LET Before(i, j) == \/ entries[i].name < entries[j].name
                        \/ entries[i].name = entries[j].name /\ i < j
        Place(i) == 1 + Cardinality({j \in DOMAIN entries : Before(j, i)})
    IN  [k \in DOMAIN entries |-> entries[CHOOSE i \in DOMAIN entries : Place(i) = k]]

-----------------------------------------------------------------------------
(* A built-in's name is refused at once, and so is setting aside a file that is not there. *)
Ask(w, change) ==
    /\ stage[w] = "idle"
    /\ asked < AskBound
    /\ change.kind = "save" => Fold[change.name] \notin BuiltIns
    /\ change.kind = "rename" => Fold[change.to] \notin BuiltIns
    /\ change.kind = "setAside" => file.state # "missing"
    /\ stage' = [stage EXCEPT ![w] = "waiting"]
    /\ request' = [request EXCEPT ![w] = change]
    /\ asked' = asked + 1
    /\ UNCHANGED <<file, aside, lock, copy, overtaken, edits, crashes>>

(* A lock whose owner is gone is broken, and no other. *)
Held == \E w \in Writers : lock = w /\ stage[w] # "dead"

(* Mutant of Lock: the lock of a live owner is broken too. *)
LockAnyhow(w) ==
    /\ stage[w] = "waiting"
    /\ lock' = w
    /\ stage' = [stage EXCEPT ![w] = "locked"]
    /\ UNCHANGED <<file, aside, request, copy, overtaken, asked, edits, crashes>>

Lock(w) ==
    /\ stage[w] = "waiting"
    /\ ~Held
    /\ lock' = w
    /\ stage' = [stage EXCEPT ![w] = "locked"]
    /\ UNCHANGED <<file, aside, request, copy, overtaken, asked, edits, crashes>>

(* Someone held the lock for two seconds, or the folder or the lock file cannot be made. *)
GiveUp(w) ==
    /\ stage[w] = "waiting"
    /\ stage' = [stage EXCEPT ![w] = "idle"]
    /\ request' = [request EXCEPT ![w] = None]
    /\ UNCHANGED <<file, aside, lock, copy, overtaken, asked, edits, crashes>>

(* What a change may be made to. *)
Changeable(change) ==
    /\ file.state \in {"missing", "read"}
    /\ ~Refused(change, file.entries)

Refuse(w) ==
    /\ stage[w] = "locked"
    /\ IF request[w] = SettingAside THEN file.state # "unreadable" ELSE ~Changeable(request[w])
    /\ stage' = [stage EXCEPT ![w] = "done"]
    /\ UNCHANGED <<file, aside, lock, request, copy, overtaken, asked, edits, crashes>>

Reread(w) ==
    /\ stage[w] = "locked"
    /\ request[w] # SettingAside
    /\ Changeable(request[w])
    /\ copy' = [copy EXCEPT ![w] = InOrder(Changed(request[w], file.entries))]
    /\ stage' = [stage EXCEPT ![w] = "writing"]
    /\ UNCHANGED <<file, aside, lock, request, overtaken, asked, edits, crashes>>

FindUnreadable(w) ==
    /\ stage[w] = "locked"
    /\ request[w] = SettingAside
    /\ file.state = "unreadable"
    /\ stage' = [stage EXCEPT ![w] = "moving"]
    /\ UNCHANGED <<file, aside, lock, request, copy, overtaken, asked, edits, crashes>>

(* QSaveFile::commit() *)
Replace(w) ==
    /\ stage[w] = "writing"
    /\ file' = File("read", copy[w])
    /\ stage' = [stage EXCEPT ![w] = "done"]
    /\ UNCHANGED <<aside, lock, request, copy, overtaken, asked, edits, crashes>>

Move(w) ==
    /\ stage[w] = "moving"
    /\ file # Missing
    /\ aside' = aside \cup {file}
    /\ file' = Missing
    /\ stage' = [stage EXCEPT ![w] = "done"]
    /\ UNCHANGED <<lock, request, copy, overtaken, asked, edits, crashes>>

(* The new file cannot be written, or the old one not moved. *)
Fail(w) ==
    /\ stage[w] \in {"writing", "moving"}
    /\ stage' = [stage EXCEPT ![w] = "done"]
    /\ UNCHANGED <<file, aside, lock, request, copy, overtaken, asked, edits, crashes>>

Unlock(w) ==
    /\ stage[w] = "done"
    /\ lock' = None
    /\ stage' = [stage EXCEPT ![w] = "idle"]
    /\ request' = [request EXCEPT ![w] = None]
    /\ copy' = [copy EXCEPT ![w] = <<>>]
    /\ overtaken' = overtaken \ {w}
    /\ UNCHANGED <<file, aside, asked, edits, crashes>>

Crash(w) ==
    /\ stage[w] \notin {"idle", "dead"}
    /\ crashes < CrashBound
    /\ stage' = [stage EXCEPT ![w] = "dead"]
    /\ crashes' = crashes + 1
    /\ UNCHANGED <<file, aside, lock, request, copy, overtaken, asked, edits>>

(* A text editor, or a tool that copies a newer arraw's file here: neither takes the lock. *)
Edit ==
    /\ edits < EditBound
    /\ file' \in (HandMade \cup {Missing}) \ {file}
    /\ edits' = edits + 1
    /\ overtaken' = {w \in Writers : stage[w] \in {"writing", "moving"}}
    /\ UNCHANGED <<aside, lock, stage, request, copy, asked, crashes>>

Next ==
    \/ \E w \in Writers :
          \/ \E change \in Saves \cup Renames \cup Removals \cup {SettingAside} : Ask(w, change)
          \/ Lock(w)
          \/ GiveUp(w)
          \/ Refuse(w)
          \/ Reread(w)
          \/ FindUnreadable(w)
          \/ Replace(w)
          \/ Move(w)
          \/ Fail(w)
          \/ Unlock(w)
          \/ Crash(w)
    \/ Edit

Spec == Init /\ [][Next]_vars

-----------------------------------------------------------------------------
(* What the file says of a name, every spelling and every duplicate. *)
SaidOf(entries, fold) ==
    {entries[i] : i \in {j \in DOMAIN entries :
                            entries[j].name # Nameless /\ Fold[entries[j].name] = fold}}

Unnamed(entries) == Subsequence(entries, {i \in DOMAIN entries : entries[i].name = Nameless})

(* The names a change is about. *)
Touched(change) ==
    {Fold[change.name]} \cup IF change.kind = "rename" THEN {Fold[change.to]} ELSE {}

(* The preset of a name, as a reader gets it. *)
Preset(entries, name) ==
    IF Named(entries, name) = {} THEN None ELSE entries[First(entries, name)]

(* What was asked for is what became of the name, unless there are duplicates of it: of those,
   another may be the first once the list is put in order. *)
Fulfilled(change, before, after) ==
    LET Alone(name) == Cardinality(Named(after, name)) = 1
        old == Preset(before, change.name)
    IN  CASE change.kind = "save" ->
                /\ Len(after) = Len(before) + IF old = None THEN 1 ELSE 0
                /\ Alone(change.name) =>
                      Preset(after, change.name) =
                          Entry(change.name, change.settings, old # None /\ old.extra)
          [] change.kind = "rename" ->
                /\ Len(after) = Len(before)
                /\ Alone(change.to) => Preset(after, change.to) = [old EXCEPT !.name = change.to]
          [] change.kind = "remove" -> Len(after) = Len(before) - 1

(* Writers never lose each other's changes: the file changes by one preset at a time, the one that
   was asked for, and whatever else it says, of presets this arraw cannot use, of duplicates and
   of entries without a name, stays.  A file that cannot be read, or that a newer arraw wrote, is
   never written over, and only one that cannot be read is set aside.  This holds whatever
   crashes, and but for an editor that writes between a writer's reading and its writing. *)
OneChangeAtATime ==
    [][/\ TypeOK'
       /\ \A w \in Writers \ overtaken :
             /\ stage[w] = "writing" /\ stage'[w] = "done" /\ file' # file =>
                   /\ file.state \in {"missing", "read"}
                   /\ file'.state = "read"
                   /\ \A fold \in Range(Fold) \ Touched(request[w]) :
                         SaidOf(file'.entries, fold) = SaidOf(file.entries, fold)
                   /\ Unnamed(file'.entries) = Unnamed(file.entries)
                   /\ Fulfilled(request[w], file.entries, file'.entries)
             /\ stage[w] = "moving" /\ stage'[w] = "done" /\ file' # file =>
                   /\ file.state = "unreadable"
                   /\ file \in aside']_vars
=============================================================================
