--------------------------- MODULE SnapshotReader ---------------------------
(***************************************************************************)
(* How the text of a sidecar becomes contents, and how each writer changes *)
(* the text.  A document keeps what a reader leaves out: entries it cannot *)
(* use, parents that are not there, cycles, a saved base that is gone, a   *)
(* counter that is missing.  The reader repairs all of them in the view it *)
(* gives and the writers leave them in the file.                           *)
(*                                                                         *)
(* A node of the list stands for one rdf:li.  Its fields other than the id *)
(* and the parent are readable together or not at all.                     *)
(***************************************************************************)
EXTENDS Snapshots, SequencesExt

CONSTANT NeutralState  \* DevelopState{}: what settings are read upon

ASSUME ReaderAssumption == NeutralState \in States

RawId == 0 .. MaximumId  \* 0: absent, or not a positive number

Node == [id : RawId, parent : RawId, readable : BOOLEAN,
         recipe : Recipe, name : Names, thumbnail : BOOLEAN]

NoVersion == 0
SidecarVersion == 2
NewerVersion == 3

Document ==
    [exists   : BOOLEAN,
     version  : {NoVersion, 1, SidecarVersion, NewerVersion},
     marker   : {"none", "True", "False"},  \* arraw:activeStatePresent
     keys     : BOOLEAN,                    \* any active develop property
     recipe   : Recipe,
     marks    : Marks,
     base     : RawId,                      \* arraw:savedBase
     revision : Nat,                        \* arraw:snapshotRevision
     nextId   : RawId,                      \* arraw:snapshotNextId
     usable   : BOOLEAN,                    \* the list is one sequence
     nodes    : Seq(Node)]

-----------------------------------------------------------------------------
(* The nodes that become snapshots: readable, within the limit, and the *)
(* first of their id.  kept[n] is what the first n nodes gave.          *)
UsableNodes(nodes) ==
    LET kept[n \in 0 .. Len(nodes)] ==
            IF n = 0 THEN {}
            ELSE IF /\ Cardinality(kept[n - 1]) < MaximumSnapshots
                    /\ nodes[n].readable
                    /\ nodes[n].id \in SnapshotId
                    /\ \A k \in kept[n - 1] : nodes[k].id # nodes[n].id
                 THEN kept[n - 1] \cup {n}
                 ELSE kept[n - 1]
    IN  kept[Len(nodes)]

(* A document whose list is not one sequence lists nothing. *)
ListedNodes(doc) == IF doc.usable THEN UsableNodes(doc.nodes) ELSE {}

ListedIds(doc) == {doc.nodes[k].id : k \in ListedNodes(doc)}

(* The parent a node names, when it is another snapshot that is listed. *)
NamedParent(doc, k) ==
    IF doc.nodes[k].parent \in ListedIds(doc) \ {doc.nodes[k].id}
    THEN doc.nodes[k].parent ELSE NoId

(* The one node an id is listed by. *)
NodeAt(doc, id) == CHOOSE k \in ListedNodes(doc) : doc.nodes[k].id = id

(***************************************************************************)
(* The walk up the parents from start, which stops at a root and where it  *)
(* would come back to itself; and the node where it does.                  *)
(***************************************************************************)
Climbed(parent, walk) ==
    IF parent[walk.at] \in walk.seen \cup {NoId} THEN walk
    ELSE [seen |-> walk.seen \cup {parent[walk.at]}, at |-> parent[walk.at]]

Climb(parent, start) ==
    LET steps == Cardinality(DOMAIN parent)
        walk[n \in 0 .. steps] ==
            IF n = 0 THEN [seen |-> {start}, at |-> start]
            ELSE Climbed(parent, walk[n - 1])
    IN  walk[steps]

(* A cycle is cut where the walk from start closes it. *)
Cut(parent, start) ==
    LET walk == Climb(parent, start)
    IN  IF parent[walk.at] \in walk.seen THEN [parent EXCEPT ![walk.at] = NoId]
        ELSE parent

(* The walks start from the entries in their order. *)
CutCycles(parent, order) ==
    LET cut[n \in 0 .. Len(order)] ==
            IF n = 0 THEN parent
            ELSE IF order[n] = NoId THEN cut[n - 1]
            ELSE Cut(cut[n - 1], order[n])
    IN  cut[Len(order)]

ReadParents(doc) ==
    CutCycles([id \in ListedIds(doc) |-> NamedParent(doc, NodeAt(doc, id))],
              [k \in 1 .. Len(doc.nodes) |->
                  IF k \in ListedNodes(doc) THEN doc.nodes[k].id ELSE NoId])

(* The counter lies above every id seen, used or not, and stops at the largest. *)
AtLeast(low, high) == IF low > high THEN low ELSE high

FloorAbove(ids) ==
    LET highest == Max(ids \cup {0})
    IN  IF highest = MaximumId THEN MaximumId ELSE highest + 1

RawIds(nodes) == {nodes[k].id : k \in 1 .. Len(nodes)}

ReadCollection(doc) ==
    LET NodeOf(id) == doc.nodes[NodeAt(doc, id)]
        parents == ReadParents(doc)
    IN  [revision |-> doc.revision,
         nextId   |-> AtLeast(AtLeast(doc.nextId, 1),
                              FloorAbove(IF doc.usable THEN RawIds(doc.nodes) ELSE {})),
         entries  |-> [id \in SnapshotId |->
                          IF id \in ListedIds(doc)
                          THEN [parent    |-> parents[id],
                                recipe    |-> NodeOf(id).recipe,
                                name      |-> NodeOf(id).name,
                                thumbnail |-> NodeOf(id).thumbnail]
                          ELSE NoSnapshot]]

UnreadableCount(doc) ==
    IF doc.usable THEN Len(doc.nodes) - Cardinality(ListedNodes(doc))
    ELSE AtLeast(1, Len(doc.nodes))

(***************************************************************************)
(* Whether the file records develop settings, by the rule of its version:  *)
(* before version 2 a version alone did; since, the marker does, and only  *)
(* the keys do when the marker cannot be read.                             *)
(***************************************************************************)
Presence(doc) ==
    IF doc.version >= SidecarVersion
    THEN IF doc.marker = "none" THEN doc.keys ELSE doc.marker = "True"
    ELSE doc.version # NoVersion \/ doc.keys

ReadSavedBase(doc) == IF doc.base \in ListedIds(doc) THEN doc.base ELSE NoId

(* What openDocument makes of a document. *)
View(doc) ==
    [recorded   |-> Presence(doc),
     recipe     |-> [doc.recipe EXCEPT
                        !.state = IF ~Presence(doc) THEN DefaultState
                                  ELSE IF doc.keys THEN @ ELSE NeutralState],
     savedBase  |-> ReadSavedBase(doc),
     marks      |-> doc.marks,
     unreadable |-> UnreadableCount(doc),
     snapshots  |-> ReadCollection(doc)]

-----------------------------------------------------------------------------
(* Mutant of Stamped: an old file is stamped as if it recorded no settings. *)
StampedWithoutPresence(before, doc, activeWrite) ==
    [doc EXCEPT !.exists = TRUE, !.version = SidecarVersion,
                !.marker = IF activeWrite THEN "True"
                           ELSE IF before.version >= SidecarVersion THEN @ ELSE "False"]

(***************************************************************************)
(* What a write stamps on every document: the version, and what the rule   *)
(* of the version it had said about the active settings.                   *)
(***************************************************************************)
Stamped(before, doc, activeWrite) ==
    [doc EXCEPT
        !.exists  = TRUE,
        !.version = SidecarVersion,
        !.marker  = IF activeWrite THEN "True"
                    ELSE IF before.version >= SidecarVersion THEN @
                    ELSE IF Presence(before) THEN "True" ELSE "False"]

PatchActive(doc, recipe, changes) ==
    [doc EXCEPT !.keys = TRUE, !.recipe = recipe, !.marks = WithMarks(@, changes)]

(* Mutant of EditedList: only what can be read is written back. *)
EditedReadable(doc, id, nodes) ==
    [doc EXCEPT
        !.nodes    = SelectSeq(nodes, LAMBDA node : node.readable),
        !.revision = @ + 1,
        !.nextId   = AtLeast(ReadCollection(doc).nextId, id + 1)]

(* A structural edit raises the revision, and the counter over the id it addressed. *)
EditedList(doc, id, nodes) ==
    [doc EXCEPT
        !.nodes    = nodes,
        !.revision = @ + 1,
        !.nextId   = AtLeast(ReadCollection(doc).nextId, id + 1)]

AddNode(doc, draft) ==
    LET id == ReadCollection(doc).nextId
    IN  EditedList(doc, id,
            Append(doc.nodes, [id |-> id, parent |-> draft.parent, readable |-> TRUE,
                               recipe |-> draft.recipe, name |-> draft.name,
                               thumbnail |-> draft.thumbnail]))

RenameNode(doc, id, name) ==
    EditedList(doc, id, [doc.nodes EXCEPT ![NodeAt(doc, id)].name = name])

(* Children, as the reader sees them, take the parent; so does the saved base. *)
DeleteNode(doc, id) ==
    LET heir == ReadParents(doc)[id]
        Children == {k \in ListedNodes(doc) : ReadParents(doc)[doc.nodes[k].id] = id}
        nodes == [k \in 1 .. Len(doc.nodes) |->
                     IF k \in Children THEN [doc.nodes[k] EXCEPT !.parent = heir]
                     ELSE doc.nodes[k]]
    IN  EditedList([doc EXCEPT !.base = IF ReadSavedBase(doc) = id THEN heir ELSE @],
                   id, RemoveAt(nodes, NodeAt(doc, id)))

SetNodeThumbnails(doc, ids) ==
    [doc EXCEPT !.nodes = [k \in 1 .. Len(doc.nodes) |->
        IF k \in ListedNodes(doc) /\ doc.nodes[k].id \in ids
        THEN [doc.nodes[k] EXCEPT !.thumbnail = TRUE] ELSE doc.nodes[k]]]

(* The i-th of some positions. *)
Nth(positions, i) ==
    CHOOSE k \in positions : Cardinality({j \in positions : j <= k}) = i

(***************************************************************************)
(* Discarding keeps the listed nodes with the parents the reader gave      *)
(* them, drops a saved base that is not there, and lifts the counter over  *)
(* every id the file held, even in a list that is no sequence.             *)
(***************************************************************************)
DiscardNodes(doc) ==
    LET kept == ListedNodes(doc)
        repaired == [k \in 1 .. Len(doc.nodes) |->
                        IF k \in kept
                        THEN [doc.nodes[k] EXCEPT !.parent = ReadParents(doc)[doc.nodes[k].id]]
                        ELSE doc.nodes[k]]
    IN  [doc EXCEPT
            !.usable   = TRUE,
            !.base     = ReadSavedBase(doc),
            !.revision = @ + 1,
            !.nextId   = AtLeast(ReadCollection(doc).nextId, FloorAbove(RawIds(doc.nodes))),
            !.nodes    = [i \in 1 .. Cardinality(kept) |-> repaired[Nth(kept, i)]]]
=============================================================================
