----------------------------- MODULE SidecarFile -----------------------------
(***************************************************************************)
(* The sidecar of one photograph and everyone who writes it: threads of    *)
(* the program, the command line, Python scripts, other instances.  Each   *)
(* write goes through updateSidecar: take the lock file, read the document *)
(* again, patch it, replace the file in one rename.  A writer may be       *)
(* refused, may fail to write, may give up waiting for the lock, and may   *)
(* die at any point; the lock of a dead writer is broken by the next one.  *)
(*                                                                         *)
(* A replacement is a step of the abstract SnapshotStore on the view a     *)
(* reader has of the document (Store!Spec).                                *)
(***************************************************************************)
EXTENDS SnapshotReader

CONSTANTS
    Writers,           \* threads and processes that write the sidecar
    Nobody,
    NoCopy,            \* a writer that holds no document
    InitialDocuments,
    RevisionBound,     \* cap on the revision
    CrashBound         \* cap on the writers that die

ASSUME FileAssumption ==
    /\ Nobody \notin Writers
    /\ RevisionBound \in Nat /\ CrashBound \in Nat
    /\ InitialDocuments \subseteq Document

VARIABLES
    disk,     \* the document the file holds
    shown,    \* what a reader makes of it, View(disk): derived, kept to be named
    lock,     \* the writer whose lock file stands
    pc,       \* where each writer is
    request,  \* what each writer has been asked to write
    copy,     \* the document each writer has read under the lock
    crashes

vars == <<disk, shown, lock, pc, request, copy, crashes>>

NoRequest == [op |-> "none"]

Init ==
    /\ disk \in InitialDocuments
    /\ shown = View(disk)
    /\ lock = Nobody
    /\ pc = [w \in Writers |-> "idle"]
    /\ request = [w \in Writers |-> NoRequest]
    /\ copy = [w \in Writers |-> NoCopy]
    /\ crashes = 0

-----------------------------------------------------------------------------
(***************************************************************************)
(* What a writer may be asked.  A structural edit carries the revision of  *)
(* the list its caller has read, which may be stale once the lock is held. *)
(* The look, name or marks it writes are chosen as it writes them, since   *)
(* nothing before depends on them.                                         *)
(***************************************************************************)
Requests(contents) ==
    LET held == contents.snapshots
        Listed == Ids(held)
        expected == {held.revision}
    IN  [op : {"add"}, parent : Listed \cup {NoId}, expected : expected]
        \cup [op : {"rename", "delete"}, id : Listed, expected : expected]
        \cup [op : {"discard"}, expected : expected]
        \cup [op : {"thumbnails"}, ids : SUBSET Listed \ {{}}]
        \cup [op : {"activeAndBase"}, base : Listed \cup {NoId}]
        \cup [op : {"active", "marks"}]

Structural(op) == op \in {"add", "rename", "delete", "discard"}

(* Mutant of Refused: the largest id may be given. *)
RefusedButForTheLast(doc, req) ==
    LET list == ReadCollection(doc)
    IN  \/ doc.version = NewerVersion
        \/ Structural(req.op) /\ req.expected # list.revision
        \/ req.op \in {"add", "rename", "delete", "thumbnails"} /\ ~doc.usable
        \/ req.op = "add" /\ Len(doc.nodes) >= MaximumSnapshots

(* editSnapshots and its callers refuse before they touch the document. *)
Refused(doc, req) ==
    LET list == ReadCollection(doc)
        Conflict == req.expected # list.revision
    IN  \/ doc.version = NewerVersion
        \/ Structural(req.op) /\ Conflict
        \/ req.op \in {"add", "rename", "delete", "thumbnails"} /\ ~doc.usable
        \/ /\ req.op = "add"
           /\ \/ Len(doc.nodes) >= MaximumSnapshots
              \/ req.parent \notin Ids(list) \cup {NoId}
              \/ list.nextId = MaximumId
        \/ req.op \in {"rename", "delete"} /\ req.id \notin Ids(list)
        \/ req.op = "activeAndBase" /\ req.base \notin Ids(list) \cup {NoId}

(* A discard that finds nothing unreadable, and thumbnails of snapshots that *)
(* are gone, leave the file as it is.                                        *)
NothingToWrite(doc, req) ==
    \/ req.op = "discard" /\ UnreadableCount(doc) = 0
    \/ req.op = "thumbnails" /\ req.ids \cap ListedIds(doc) = {}

(* The documents a request may leave. *)
Patched(doc, req) ==
    CASE req.op = "add" ->
            {AddNode(doc, draft) :
                draft \in {d \in Snapshot : d.parent = req.parent /\ ~d.thumbnail}}
      [] req.op = "rename" -> {RenameNode(doc, req.id, name) : name \in Names}
      [] req.op = "delete" -> {DeleteNode(doc, req.id)}
      [] req.op = "discard" -> {DiscardNodes(doc)}
      [] req.op = "thumbnails" -> {SetNodeThumbnails(doc, req.ids)}
      [] req.op = "marks" ->
            {[doc EXCEPT !.marks = WithMarks(@, changes)] :
                changes \in {named \in MarkChanges : DOMAIN named # {}}}
      [] req.op = "active" ->
            {PatchActive(doc, recipe, changes) : recipe \in Recipe, changes \in MarkChanges}
      [] req.op = "activeAndBase" ->
            {[PatchActive(doc, recipe, changes) EXCEPT !.base = req.base] :
                recipe \in Recipe, changes \in MarkChanges}

WritesActive(req) == req.op \in {"active", "activeAndBase"}

-----------------------------------------------------------------------------
(* The steps of a writer w. *)

Ask(w) ==
    /\ pc[w] = "idle"
    /\ \E req \in Requests(shown) :
          /\ Structural(req.op) => disk.revision < RevisionBound
          /\ request' = [request EXCEPT ![w] = req]
    /\ pc' = [pc EXCEPT ![w] = "locking"]
    /\ UNCHANGED <<disk, shown, lock, copy, crashes>>

(* Mutant of TakeLock: any lock is broken. *)
BreakLock(w) ==
    /\ pc[w] = "locking"
    /\ lock' = w
    /\ pc' = [pc EXCEPT ![w] = "locked"]
    /\ UNCHANGED <<disk, shown, request, copy, crashes>>

(* QLockFile: a lock is taken when there is none, or when its holder is dead.  The *)
(* lock of a live writer on this host is respected whatever its age.               *)
TakeLock(w) ==
    /\ pc[w] = "locking"
    /\ lock \in {Nobody} \cup {dead \in Writers : pc[dead] = "dead"}
    /\ lock' = w
    /\ pc' = [pc EXCEPT ![w] = "locked"]
    /\ UNCHANGED <<disk, shown, request, copy, crashes>>

Finish(w) ==
    /\ pc' = [pc EXCEPT ![w] = "idle"]
    /\ request' = [request EXCEPT ![w] = NoRequest]
    /\ copy' = [copy EXCEPT ![w] = NoCopy]

(* Mutant of GiveUp: a writer that has waited long enough goes on without the lock. *)
GoOnUnlocked(w) ==
    /\ pc[w] = "locking"
    /\ lock # Nobody
    /\ pc' = [pc EXCEPT ![w] = "locked"]
    /\ UNCHANGED <<disk, shown, lock, request, copy, crashes>>

(* SidecarLockTimeout. *)
GiveUp(w) ==
    /\ pc[w] = "locking"
    /\ lock # Nobody
    /\ Finish(w)
    /\ UNCHANGED <<disk, shown, lock, crashes>>

Reread(w) ==
    /\ pc[w] = "locked"
    /\ copy' = [copy EXCEPT ![w] = disk]
    /\ pc' = [pc EXCEPT ![w] = "patching"]
    /\ UNCHANGED <<disk, shown, lock, request, crashes>>

(* A refusal, or nothing to write: the lock goes with the scope that held it. *)
Leave(w) ==
    /\ pc[w] = "patching"
    /\ Refused(copy[w], request[w]) \/ NothingToWrite(copy[w], request[w])
    /\ lock' = Nobody
    /\ Finish(w)
    /\ UNCHANGED <<disk, shown, crashes>>

(* The replacement cannot be written: no room, no permission, a list past its size. *)
WriteFails(w) ==
    /\ pc[w] = "patching"
    /\ lock' = Nobody
    /\ Finish(w)
    /\ UNCHANGED <<disk, shown, crashes>>

(* QSaveFile::commit renames the new file over the old one. *)
Replace(w) ==
    /\ pc[w] = "patching"
    /\ ~Refused(copy[w], request[w])
    /\ ~NothingToWrite(copy[w], request[w])
    /\ \E doc \in Patched(copy[w], request[w]) :
          disk' = Stamped(copy[w], doc, WritesActive(request[w]))
    /\ shown' = View(disk')
    /\ pc' = [pc EXCEPT ![w] = "replaced"]
    /\ copy' = [copy EXCEPT ![w] = NoCopy]
    /\ UNCHANGED <<lock, request, crashes>>

Unlock(w) ==
    /\ pc[w] = "replaced"
    /\ lock' = Nobody
    /\ Finish(w)
    /\ UNCHANGED <<disk, shown, crashes>>

(* The writer's process ends; its lock file, if any, stays behind. *)
Crash(w) ==
    /\ pc[w] \notin {"idle", "dead"}
    /\ crashes < CrashBound
    /\ crashes' = crashes + 1
    /\ pc' = [pc EXCEPT ![w] = "dead"]
    /\ request' = [request EXCEPT ![w] = NoRequest]
    /\ copy' = [copy EXCEPT ![w] = NoCopy]
    /\ UNCHANGED <<disk, shown, lock>>

(* The program is started again, or another one takes its place; the lock file a dead *)
(* process left is known by that process, so it is still stale.                       *)
Restart(w) ==
    /\ pc[w] = "dead"
    /\ lock # w
    /\ Finish(w)
    /\ UNCHANGED <<disk, shown, lock, crashes>>

Step(w) ==
    \/ TakeLock(w) \/ GiveUp(w) \/ Reread(w) \/ Leave(w)
    \/ WriteFails(w) \/ Replace(w) \/ Unlock(w)

Next == \E w \in Writers : Ask(w) \/ Step(w) \/ Crash(w) \/ Restart(w)

Spec == Init /\ [][Next]_vars

-----------------------------------------------------------------------------
Inside == {w \in Writers : pc[w] \in {"locked", "patching", "replaced"}}

TypeOK ==
    /\ disk \in Document
    /\ lock \in Writers \cup {Nobody}
    /\ pc \in [Writers ->
                  {"idle", "locking", "locked", "patching", "replaced", "dead"}]
    /\ \A w \in Writers : copy[w] # NoCopy => copy[w] \in Document
    /\ crashes \in 0 .. CrashBound

(***************************************************************************)
(* A writer patches what the file holds now: nobody has replaced the file  *)
(* since it read it, even when the lock of a dead writer was broken.  This *)
(* is what makes a write keep every field it does not name (updateSidecar, *)
(* "rereads the latest file").                                             *)
(***************************************************************************)
CopyIsCurrent ==
    \A w \in Writers : pc[w] = "patching" => copy[w] = disk

(* At most one live writer is between lock and unlock, and the lock is its own. *)
OneWriterInside == \A w \in Inside : lock = w

(***************************************************************************)
(* Each replacement is one write of the abstract store upon the contents a *)
(* reader had before it, whatever damage the documents of a run carry:     *)
(* orphans, a cycle, entries that cannot be read, a marker or a counter    *)
(* that is missing, an older version.  Two kinds of damage are beyond it:  *)
(* deleting a snapshot that hangs on a cycle may cut the cycle elsewhere,  *)
(* and a parent whose id is still to be given is taken by the snapshot     *)
(* that gets it.  SidecarFile_proofs proves it of documents without them.  *)
(***************************************************************************)
Store == INSTANCE SnapshotStore
            WITH file <- shown,
                 InitialFiles <- {View(doc) : doc \in InitialDocuments}

ImplementsStore == Store!Spec

(***************************************************************************)
(* Nothing but a discard drops an entry this program cannot use, and       *)
(* nothing at all is written to a sidecar of a newer version               *)
(* (editSnapshots, "content the reader left out stays in the file").       *)
(***************************************************************************)
Unusable(doc) ==
    {doc.nodes[k] : k \in (1 .. Len(doc.nodes)) \ ListedNodes(doc)}

DamageIsKept ==
    [][ disk' # disk =>
          /\ disk.version # NewerVersion
          /\ \/ \E w \in Writers : pc[w] = "patching" /\ request[w].op = "discard"
             \/ Unusable(disk) \subseteq Unusable(disk') ]_vars

(***************************************************************************)
(* A snapshot that was deleted is gone: "Number; never reused after a      *)
(* snapshot is deleted" (SnapshotId::value).                               *)
(***************************************************************************)
DeletedIsGone ==
    [][ \A w \in Writers :
          /\ pc[w] = "patching" /\ pc'[w] = "replaced" /\ request[w].op = "delete"
          => request[w].id \notin Ids(shown'.snapshots) ]_vars

=============================================================================
