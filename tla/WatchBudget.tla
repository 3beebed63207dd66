---------------------------- MODULE WatchBudget ----------------------------
(***************************************************************************)
(* Which directories of a tree are watched when there are fewer watches    *)
(* than directories: the shallowest, and of one depth the first in folder  *)
(* order.  A directory is a number, in folder order: that of the rows,     *)
(* where a directory comes before those within it, and before its later    *)
(* siblings.  The budget only keeps the books.                             *)
(***************************************************************************)
EXTENDS Naturals, FiniteSetsExt

CONSTANTS
    Folders,
    Parent   \* of each directory; a root is its own

ASSUME FoldersAssumption ==
    /\ Folders \subseteq Nat
    /\ IsFiniteSet(Folders)
    /\ Parent \in [Folders -> Folders]
    /\ \A folder \in Folders : Parent[folder] <= folder

Depth[folder \in Folders] == IF Parent[folder] = folder THEN 0 ELSE 1 + Depth[Parent[folder]]

(* isWithin(), a directory being within itself. *)
Above[folder \in Folders] ==
    {folder} \cup IF Parent[folder] = folder THEN {} ELSE Above[Parent[folder]]

Within(folder) == {other \in Folders : folder \in Above[other]}

(* Key::operator<. *)
Precedes(folder, other) ==
    Depth[folder] < Depth[other] \/ (Depth[folder] = Depth[other] /\ folder < other)

(* How many of a set come before a directory; the first so many of a set; and all, in order. *)
Rank(folders, folder) == Cardinality({other \in folders : Precedes(other, folder)})

FirstOf(folders, number) == {folder \in folders : Rank(folders, folder) < number}

Ranked(folders) ==
    [k \in 1 .. Cardinality(folders) |-> CHOOSE folder \in folders : Rank(folders, folder) = k - 1]

Budgets ==
    [cap : Nat, watched : SUBSET Folders, waiting : SUBSET Folders, refused : SUBSET Folders]

EmptyBudget(cap) == [cap |-> cap, watched |-> {}, waiting |-> {}, refused |-> {}]

(* promote(). *)
Promote(budget) ==
    LET room == IF Cardinality(budget.watched) < budget.cap
                THEN budget.cap - Cardinality(budget.watched)
                ELSE 0
        promoted == FirstOf(budget.waiting, room)
    IN  [budget EXCEPT !.watched = @ \cup promoted, !.waiting = @ \ promoted]

(* add(): a place if there is room, or if one watched comes later, which loses it. *)
AddToBudget(budget, folder) ==
    IF folder \in budget.watched \cup budget.waiting \cup budget.refused
    THEN budget
    ELSE LET all == budget.watched \cup {folder}
             watched == FirstOf(all, budget.cap)
         IN  [budget EXCEPT !.watched = watched, !.waiting = @ \cup (all \ watched)]

(* remove(). *)
RemoveFromBudget(budget, folders) ==
    Promote([budget EXCEPT !.watched = @ \ folders,
                           !.waiting = @ \ folders,
                           !.refused = @ \ folders])

(* refused(): the system took as many as are watched, and no more. *)
RefuseInBudget(budget, folder) ==
    IF folder \notin budget.watched
    THEN budget
    ELSE [budget EXCEPT !.watched = @ \ {folder},
                        !.refused = @ \cup {folder},
                        !.cap = Cardinality(budget.watched) - 1]

(* setCap(): those refused are tried again. *)
SetCap(budget, cap) ==
    LET kept == FirstOf(budget.watched, cap)
    IN  Promote([cap |-> cap,
                 watched |-> kept,
                 waiting |-> budget.waiting \cup budget.refused \cup (budget.watched \ kept),
                 refused |-> {}])

(* "Every watched directory comes before every waiting one, and as many are watched as the cap
   allows" (WatchBudget.h). *)
InOrder(budget) ==
    /\ Cardinality(budget.watched) <= budget.cap
    /\ budget.waiting # {} => Cardinality(budget.watched) = budget.cap
    /\ \A folder \in budget.watched, other \in budget.waiting : Precedes(folder, other)
=============================================================================
