# A verification of arraw

arraw develops raw photographs. What a photographer does to one is kept in a
*sidecar*, an XMP file beside it: the active settings, the marks (rating and
label) and a tree of *snapshots*, looks that were kept. A window shows the
photograph while threads decode, render, count and export it; a film strip shows
the photographs of a folder that other programs change at the same time; a command
exports many photographs at once. This project models the stateful parts of arraw
in TLA+, checks them with TLC and proves the most important of their properties
with TLAPS.

## Inventory

The repository is a library (`src/src/core`, `src/include`), a Qt application
(`src/src/app`), a command line (`src/src/cli`), a GPU backend (`src/src/gpu`) and
Python bindings (`src/src/python`). Paths below start at the working copy (`src/`).

| Component | State | Operations | Hard behaviour | Status |
|---|---|---|---|---|
| Snapshot store (`Snapshots.*`, writers of `Sidecar.h`) | collection: revision, next id, entries; active settings, saved base, marks | add, rename, delete, discard unreadable, thumbnails, save, marks | references after deletes, id reuse, revisions as change detectors, limits | modelled |
| Sidecar file (`Sidecar.cpp`) | the document, the lock file | lock, reread, patch, replace | several processes, crashes, stale locks, old versions, damaged lists | partly |
| `EditSession` | look, open edit, history, saved look, marks, list held | edits, undo, redo, restore, save, structural edits, refresh | retry of refused saves, conflicts, remapping of every reference | partly |
| Window's snapshot workflow (`MainWindow.cpp`) | session, serial, structural ticket, dialogs | structural actions, results that land, watcher, opening, leaving | late results, reloads while a write is in flight, nested event loops | partly |
| `SnapshotWriter`, `SnapshotWrites` | queue of writes, delivery | submit, take, carry out, deliver | batches, dropped patches | partly |
| Crop, mask and brush editing | modes, gestures, sliders held or waiting, steps within the crop mode | begin, drag, accept, cancel, undo within the mode | one edit, many who may hold it | partly |
| Window of a photograph (`MainWindow.cpp`) | the photograph open, requests, what is on screen and beneath it, the busy indicator | open, reload, decode again, request, show, fail | results of what was left behind | partly |
| `PhotoLoader` | a queued and a running job | post, cancel, newest replaces queued | superseded answers already posted | partly |
| `PreviewRenderer` | request, source, interrupted job, fallback, count | render, count, replace source, stop | stand-ins, pauses, interrupted renders | partly |
| `HistogramCounter`, histogram panel | pending job, abandon flag, generation | submit, clear, count, deliver | the flag against a count under way | modelled |
| `ExportQueue` and the box at closing | queue, running job, the window's names | submit, cancel, report, close | names of jobs dropped, nested event loop | partly |
| Checkpoints of a render (`Develop.cpp`, GPU) | rungs, levels, copies on the device | resume, keep, release | cancelled passes, a lost device | partly |
| `FolderLister`, `FolderWatcher`, `ShotModel`, `WatchBudget`, `FolderDiff` | walks by generation, watches, rows, own stamps | watch, list, refresh, merge, sweep, load marks | changes while reading, outages, own writes against foreign ones | partly |
| `ThumbnailWorker` | three queues, two generations | request, forget, deliver | pictures of a folder or look that has passed | partly |
| Export command (`ExportCommand.cpp`) | outputs taken, files read | expand, check, export | what a batch must not overwrite | partly |
| Export presets | a JSON file and its lock | save, rename, remove, set aside | several writers, editors without a lock, unusable entries | partly |
| Models over a session, other widgets, Python bindings | none of their own | forward to the library | | not modelled |
| Develop pipeline, geometry, import, lens database, codecs, GPU shaders | none, or a device | functions on floating point | numerical | not modelled |

What makes each modelled component correct:

* **Store**: the list is always a forest within its limits; ids are given once; a
  revision tells whether a list changed.
* **File**: a write is one step of the store, on documents that are regular and on the
  damaged ones of the run; writers never lose one another's writes; what cannot be read
  is kept.
* **Session**: undo history, open edit and working look agree; nothing refers to a
  snapshot that is not listed; what it takes for saved is what was written.
* **Workflow**: a list never goes backwards and none is missed; the actions are off
  exactly while a structural write is under way, and come back; the look is said to
  be a snapshot's look only if it is.
* **Modes**: every open edit has one owner; the crop mode is one edit with steps of
  its own.
* **Photograph on screen**: it is of the photograph that is open and, at rest, of
  the newest request; the newest request of each thread is served or withdrawn; the
  busy indicator, the histogram and the names of queued files agree with what is owed.
* **Film strip**: at rest, rows, watches, marks and pictures are those of the disk;
  rows survive an outage.
* **Renders**: a render that resumes gives what a render from the start would give;
  nothing of a photograph that was left stays in memory or on the device.
* **Exports**: no photograph and no other export is overwritten; a change of the
  presets loses nothing else of the file.

How they interact: `MainWindow` owns an `EditSession`, calls its edits directly, and
prepares structural writes that `SnapshotWriter` carries out on its own thread with
the functions of `Sidecar.h`; each of these takes the sidecar's lock file, reads the
document again, patches it and renames a new file over it. Each thread (loader,
renderer, counter, exporter, lister, thumbnails) is fed through a mutex or the event
loop and answers by a callback posted to the event loop of the window, which also runs
inside dialogs. `FolderWatcher` reports sidecars others have changed, to the film strip
and to the open photograph. `EditSession` also writes by itself (save, marks, and the
synchronous structural calls used by scripts).

## Modules

Snapshots and sessions:

| Module | Models | Correspondence |
|---|---|---|
| `Snapshots` | data: `Snapshot`, `SnapshotCollection`, what each write does to the contents | one operator per writer of `Sidecar.h`; `Valid` is `validate(SnapshotCollection)`; `Survivor` is `EditSession::survivor` |
| `SnapshotStore` | the abstract store: one variable, one action per successful write | what every reader is promised |
| `SnapshotReader` | documents as text holds them, the reader's repairs, each writer's patch | `readSnapshotsIn`, `presenceBefore`, `editSnapshots`, the bodies of the writers |
| `SidecarFile` | writers as processes: ask, lock, reread, patch, rename, unlock, fail, time out, crash, restart | `SidecarLock`, `updateSidecar`, `QSaveFile`; implements `SnapshotStore` through `View` |
| `EditHistory` | the session's state and calls as operators | one operator per member function, with its name |
| `EditSession` | one session and a file that others write | one action per call; calls that read again after a refusal are split where others can come in between (`phase`); implements `SnapshotStore` |
| `SnapshotWorkflow` | window, writer thread, event loop, watcher, others | one action per handler; a dialog is a state in which only results, the watcher and the answer may happen |
| `EditingModes` | the modes, overlays and sliders of the window over the one edit of a session | one action per command, press, move, release, timer |

The photograph on screen:

| Module | Models | Correspondence |
|---|---|---|
| `NewestRequest` | the abstract lane: of requests only the newest counts, and it is answered or withdrawn for a `cause` | what the callers of each thread are promised |
| `PhotoLoader`, `PreviewRenderer`, `HistogramCounter` | one thread each, with its mutex-protected state and its posted answers | one action per public call and per step of the thread between two locks; each implements `NewestRequest` |
| `HistogramPanel` | the panel that asks for counts and shows them, with the counter | `HistogramPanel` slots |
| `Exports` | the queue, its thread, the window's names, the box at closing | `ExportQueue`, `MainWindow::closeEvent` |
| `PhotoWindow` | the window over loader and renderer | one action per handler: opening, reloading, decoding again, requests, results |

The film strip:

| Module | Models | Correspondence |
|---|---|---|
| `WatchBudget` | which directories are watched under a cap | `WatchBudget` by operator |
| `FolderLister` | the lister's thread: reads, watches, reports by generation, outages | one action per handler and step |
| `FolderPipeline` | the lister with the disk, the event loop and the rows of `ShotModel` | walks, merges and sweeps |
| `ShotReads` | the loader of marks with own stamps, the watcher of sidecars | `ShotModel`'s readings, `FolderWatcher::noteOwnWrite` |
| `Thumbnails` | the thumbnail worker, its generations, the live picture | `ThumbnailWorker` |

Renders and exports:

| Module | Models | Correspondence |
|---|---|---|
| `RenderLadders` | rungs kept between renders on CPU and GPU, levels, the device | `Develop.cpp`, `PreviewRenderer` |
| `BatchExport`, `ExportFolders` | the export command from expanded arguments to exit code | `ExportCommand.cpp` |
| `Subsequences` | parts of a list, in its order | first of each path (`exportAll`), entries in order (`writeExportPresets`), directories in order and queues without some (`FolderLister`, `ShotModel`, `ThumbnailWorker`) |
| `ExportPresets` | the file of presets, its lock, writers and an editor | `ExportPresetStore`, `ExportPresetsJson` |

`MC...` modules hold the constants for TLC. `Snapshots_proofs`,
`SnapshotStore_proofs`, `SidecarFile_proofs`, `EditSession_proofs`,
`SnapshotWorkflow_proofs`, `Renders_proofs`, `PhotoWindow_proofs` and
`FilmStrip_proofs` hold the theorems.

`EditSession` and `SnapshotWorkflow` write the file by the operators of `Snapshots`,
that is by steps of `SnapshotStore`; `SidecarFile` shows that the real protocol
amounts to such steps.

Several runs check systems that share nothing in one module (`MCPhotoWindow`,
`MCFilmStrip`, `MCRenders`, `MCEditSession`, `MCSnapshotWorkflow`). The first state
picks a *part*; the variables of the others keep their initial values. So the states
of the parts add up instead of multiplying, and each part is explored exactly as it
would be alone.

### What is abstracted

* A recipe (develop state and negative settings) is a model value plus the two things
  of the lens the code looks at: whether a correction is on, which lens is recorded.
  The lens database is the constant `Match`.
* A thumbnail is a flag. Marks are a function from names to small values. Names,
  dates and the encoding of text are left out.
* A node of the file's list is an id, a parent, and one flag that says whether the
  rest can be read; `RawId` 0 stands for an id that is absent or no number.
* `MaximumId` stands for 2^64 - 1, `MaximumSnapshots` for `maximumSnapshots`.
* In `SnapshotWorkflow` an edit is a begin followed by a `setState`; updating an
  open edit in place is checked in `EditSession`. `Leave` stands for leaving after a
  save or a discard. The watcher reports every foreign write sooner or later: the
  stamps by which it leaves out the program's own writes are in `ShotReads`.
* A lock is broken only when its holder is dead, as the test "A lock held by a live
  writer is respected whatever its age" says of writers on one host. On a share, where a
  process of another host cannot be looked up, Qt goes by the age of the lock
  (`sidecarStaleLockMilliseconds`), and a writer slower than that could be overtaken:
  that is not modelled, and the theorems on the lock do not speak of it.
* Hand-written counters, duplicate ids, overfull lists and most cycles in a document are
  repaired by the reader, but a write on them is no single store step in general, so
  they are left out of the refinement run's documents and of the refinement theorem
  (see *Regular documents* below). `sidecar_duplicate` looks at one of them.
* `EditingModes`: a look is a tone, a frame and an angle; mask gestures, the picker and
  the tone sliders share the tone. There is one mouse, and no nudge of the wheel while a
  button is down. A held slider that is disabled is let go, as Qt does. The geometry of
  a crop under rotation and commits that fail are left out.
* `PhotoWindow`: pixels are the request they were made for. Modes, previews of
  snapshots and the wait for the lens database are left out.
* `RenderLadders`: pixels are the image they come from and the blocks applied to them;
  the coverage of brushes kept beside the rungs is left out.
* `FolderPipeline` and `ShotReads`: a directory holds a photograph or not, and one
  sidecar; its contents are a stamp and a value. Reading of EXIF is left out. The
  system refuses watches below the cap as its own limit says.
* `Thumbnails`: the cache on the disk is left out, and the pictures of snapshots.
* `BatchExport`: paths that are the same file on a file system without case share a
  `FileOf`; an export replaces its file whole or not at all (`QSaveFile`), and may fail
  at any time.
* `ExportPresets`: names are numbers in the order of the file, `Fold` is the folding
  of case, `extra` what keys arraw does not know; the limit on the size of the file and
  the copy of the list that the dialog keeps are left out. What an editor without a lock
  overtakes is recorded by the ghost `overtaken` and exempted.

## Runs

| Run | Question | Bounds | Distinct states |
|---|---|---|---|
| `snapshot_store` | Do any writes break the forest, reuse an id, or change a list unnoticed? | 3 snapshots, ids to 5, revision to 5; starts bare, and from a chain with an unreadable entry | 24 757 |
| `sidecar_file` | Do two racing, failing, crashing writers implement the store on every kind of document? | 2 writers (symmetric), 1 crash, revision to 2, ids to 5; seven documents: absent, version 1, another tool's, orphans with an unreadable entry and no marker, a cycle with no counter, a list that is no sequence, a newer version | 493 440 |
| `edit_session` | Does a session stay consistent while others edit, through refused and retried saves, and do the modes of the window share its one edit soundly? | 3 snapshots, ids to 4, history of 2, revision to 4, over a chain or a damaged list; one lens, corrections on and off, marks 0 and 1 (530 920). Modes: two tones, frames and angles (209 816) | 740 736 |
| `workflow` | Are lists missed or reversed, tickets lost, anchors wrong? | 2 writes, 2 sessions, 1 look (336 886); 2 looks, a damaged list, 1 write (249 293); batches of 2, revision to 3, history of 2 | 586 179 |
| `photo_window` | Is what is shown of the open photograph and the newest request, and is every channel served? | window: 2 photographs, 3 decodes, 3 requests (276 285); renderer alone: 2 requests, 3 pictures (389 752); histogram: 2 clears, 5 submits, and 4 exports (24 615) | 690 652 |
| `film_strip` | Does the strip agree with a folder tree that others change? | 5 directories, 3 watched, the system's limit at 2 or 3, 1 error, 2 changes, 2 walks, 1 photograph, 2 writes | 1 595 942 |
| `renders_and_exports` | Are resumed renders whole, does a batch overwrite anything, is a change of presets one change? | 2 decodes, 2 levels, 3 plans, 3 renders; every short command line; 2 writers of presets, 1 crash, 1 edit of an editor | 1 961 659 |
| `can_undo` | Is undo offered only when there is something to undo? | one lens, a list that does not change | violated |
| `sidecar_duplicate` | Is a deleted snapshot gone? | one document with an id twice | violated |
| `workflow_reopen` | Is what the session takes for saved what the file holds? | 2 sessions, no writes in flight | violated |
| `close_when_idle` | Does a window that was told to wait close? | 2 exports | violated |
| `export_companions` | Are the companions of a photograph kept? | the command lines of `renders_and_exports` | violated |

Why the bounds are enough to be of use: a chain of two snapshots under a third is the
smallest list in which a delete in the middle moves both children and the saved base,
and in which a survivor is found two steps up. Ids reach `MaximumId` in the store and
file runs, and the limit on snapshots is met in all. Two writers are the smallest
number with a lost update, and one crash with one live writer is what a broken lock
takes. A history of two steps has an undo, a redo, and a tail to drop. Two sessions
and two writes are the smallest in which the result of one session's write lands on
the other while another write is queued, and in which patches batch
(`maximumBatch` = 2) or are dropped. Two photographs and three decodes give an answer
of the photograph left behind, one of the negative replaced and the newest; three
renders of three plans give a rung that is kept, one cancelled and one resumed from.
A root with two levels of directories, with one watch less than directories, has an
eviction, a promotion and a directory read without a watch.

Some parts narrow what happens so that they end in time; each restriction is a named
definition of an MC module or a constant of the cfg. `LastReloads`, `OneLook` and
`OneWrite` bound the second parts of `workflow`; `ResultBound`, `JobBound` and
`EventBound` bound queues of the event loop; `Quiet`, `Prompt` and `OneWalk` let the
disk rest, the loader answer or the lister walk once where the question is about another
actor; `PlainOnly` and `ShortList` bound the command lines and lists of presets.

Deadlock checking is off in `photo_window`, `film_strip` and `renders_and_exports`:
there the user and the disk have a bounded number of steps to take, or the command
ends. The other runs keep it on: nothing in those systems stops.

### The five violations

* `can_undo`: `canUndo()` compares an open edit with its baseline as it is;
  `undo()` first commits the edit, and the commit may record a lens. An edit that only
  cleared the recorded lens, with a correction on, makes undo available at the first
  step, and undo then throws.
* `sidecar_duplicate`: two nodes with one id: the reader lists the first and leaves
  the second out. Deleting the snapshot removes the first, so the second is listed
  under the id just deleted, with another look.
* `workflow_reopen`: `openFile` and `activateShot` read the document, then ask about
  unsaved edits, then show what they read. If the photograph is the one already open
  and the answer is to save, the session shows the settings from before the save.
* `close_when_idle`: `closeEvent` (`MainWindow.cpp:3301`) notes that the window is to
  close when the queue is empty only after its box has run the event loop, and does
  not look at the queue again. When the last export reported while the box was shown,
  nothing closes the window.
* `export_companions`: a raw file named as a file and then again through its folder
  keeps the first entry, which knows of no companions (`ExportCommand.cpp:1191`), so
  `--overwrite` exports over the JPEG beside it, which the help (`:853`) rules out.

### What else was met

These have no violated run of their own; where a property would fail for one of them it
exempts exactly that case, by a ghost variable named here.

* `Sidecar.cpp:1337`, `:2061`: the reader cuts a cycle where the walk from the earliest
  entry closes it, and a delete rewrites only the children of what it deletes. So
  deleting a snapshot that hangs on a cycle may move the cut: of nodes 3, 1 and 2 whose
  parents are 2, 2 and 1, the reader makes 1 the root; without 3, the walk starts from
  1 and 2 becomes the root. The list stays sound, but the tree of the rest changes
  under a delete that has nothing to do with it.
* `Sidecar.cpp:2008`: a node whose parent is not there is a root until an add is given
  just that id (the file lost its counter): it then becomes a child of the new one.
* `PreviewRenderer.cpp:846`, `MainWindow.cpp:3494`: an older fallback of another
  geometry may lie beneath a newer stand-in until the next result.
* `ThumbnailWorker.cpp:188`: a photograph that left a folder and comes back is still
  known to the worker and gets no picture until it is invalidated (`owed`).
* `FolderLister::step` passes `recovered`, not `recheck`, to the subfolders: after an
  outage only the root and its direct subfolders have their sidecars rechecked, while
  `FolderLister.h:75` speaks of the subtree (`outage`).
* A directory that does not open when its place in the budget comes free is skipped by
  `FolderLister::applyMoves` (`:483`), which queues only those that got their watch: it keeps
  the place and has no watch until something reads it again (`missed`).
* A batch that says a subfolder is gone is dropped as news of an older walk while the
  new walk cannot read the parent: its rows stay (`dropped`). A recheck waiting to be
  merged is forgotten when subfolders are switched on or off.
* Subfolders switched off and on again: the switch off lets the rows of a subfolder go, but
  a reading of it that was queued for a change (`FolderLister.cpp:571`) comes before the
  root's and is merged all the same (`ShotModel.cpp:500` does not ask whether subfolders are
  shown). Then the root's reading reports the subfolder gone; the switch on drops that news
  (`:365`) and starts a listing, whose end looks for no rows, as "a first listing made every
  span from what it read" (`:524`). If the subfolder was removed meanwhile, its rows stay
  until a refresh (`dropped`, with `Goings`).
* `ShotModel.cpp:905`: a row whose marks were set by hand ignores its first reading but
  takes its stamp, so marks that another program wrote in between are never shown
  (`ignored`).
* `FolderWatcher.cpp:136`: a foreign change followed by an own write, or one between an
  own write and the reading of its stamp, is never announced. A sidecar deleted
  while an earlier answer is on its way can be taken for unchanged.
* `ExportPresetsJson.cpp:445`: of entries whose names fold alike the first is the
  preset, and every write sorts the list by folded name and spelling: an unrelated save
  may swap which of two is usable, and removing the first brings its duplicate to life.
* `DevelopPanel.cpp:966`: each move of the straighten slider starts from the look its
  edit began with, so a turn, a swap or a drag of the crop made while the slider is held
  or waits is taken back by its next move; ADR 040 says "a command inside a slider's step
  joins it".
* A wheel edit that waits for its timer (`SettingSlider.cpp:141`) is not ended by the
  press of a mask gesture: the timer commits the gesture's edit, and the rest of the
  stroke is dropped.
* A result of an equal revision may bring back the count of unreadable entries that the
  watcher saw mended; a destination made by another process between the check and the
  export is replaced (`ExportCommand.cpp:1242`); a deleted and rewritten sidecar starts
  at revision 0 again (`EditSession.cpp:250`).
* In the other direction, the proofs show guards that are never needed: results
  of renders come in the order of their requests, so no result in the queue is ever
  behind what is shown.

## Fairness

* `TicketIsCleared` (`workflow`): the actions come back after every structural write.
  Weak fairness of `Take`, `CarryOut` and `snapshotWriteLanded`. The writer's thread
  loops for as long as the window exists and waits on a condition that each submission
  signals; each write ends, since the lock has a timeout and every error becomes a
  result; results are posted to the event loop, which runs also inside dialogs.
* `NewestIsServed` (`photo_window`): three lanes implement `NewestRequest`, whose
  liveness is that the newest request is answered or withdrawn. Weak fairness of the
  steps of each worker thread and of the delivery of what it posted.
* `WaitEnds`, `WaitCloses` (exports): the exporter's thread goes on while it has work,
  the event loop delivers, and a box that is shown is answered.

Nothing is assumed of other users' actions, the disk, the watcher or other processes.

## Proofs

All proofs are checked by TLAPS for every value of the constants that the named
assumptions admit; TLC evaluates those assumptions in each run.

* `Snapshots_proofs` holds lemmas about the operators of `Snapshots`: each write keeps
  contents in `Contents`, and keeps them `Sound`. The hard one is that `DeleteSnapshot`
  keeps the list acyclic: a set of snapshots closed under the new parents, enlarged by
  the deleted one where its parent lies inside, would have been closed under the old.
  Also the walk of a reference to its survivor: `WalkUp` is a recursive function,
  so its existence is proved first (well-founded definition over the steps left), and
  induction is cited in the form of sets (`AllOfNat`, from `WFMin`) since theorems
  that take an operator cannot be instantiated. From it follow `OnlySurvivor` and
  `HeirSurvives`: what the store makes of a saved base and what the session makes of
  it agree, over any chain of deletes. Its second half has, for each call of the
  session, one lemma for each of: it keeps the type, it keeps history and open edit in
  agreement, it refers to listed snapshots.
* `SnapshotStore_proofs`: `TypeCorrect`, `AlwaysSound`, `IdsGivenOnce` and
  `RevisionsTell`. The inductive invariant is `TypeOK /\ FileSound`. `TypeOK` alone
  is inductive; `FileSound` needs it, since an add is below the counter only when the
  counter is a number.
* `SidecarFile_proofs`: `WritersKeptApart` and `PatchesAreCurrent`, from the inductive
  invariant `LockInv`: a writer between lock and unlock is alive and holds the lock, and
  one that patches holds a copy of what the file holds. The second half is not inductive by
  itself: the file changes only by a writer inside, and only the first half says that no
  other writer is then patching. `TypeCorrect`: the file holds a document in every state,
  whatever document it started with; it needs that every patch of a document, for a
  request that was not refused, is a document (`PatchedType`), and that what is read of
  one is in `Contents` (`ViewType`). Both rest on what the recursive functions of the
  reader compute: `RecursionExists` gives each its steps, and then the nodes kept are
  usable and of distinct ids (`UsableAre`), and a list without a cycle is read with the
  parents it names (`NothingToCut`). `DamageStays` and `DeletedStaysAway` hold of files
  that start with documents in which no id is carried twice (`EachIdOnce`), whatever
  else is wrong with them. `RegularFilesAreTheStore` is the refinement
  (`Spec => ImplementsStore`) from documents that are `Regular`.
* `EditSession_proofs`: `AlwaysCoherent`, `ReferencesAreListed`, `HeldIsOfThePast`,
  `RedoGoesSomewhere`, `MarksAreLeftAlone`, `AgreementStaysKept` and
  `SessionKeepsTheStore` (`Spec => Store!Spec`). "The list held is one of the file's
  past" is not inductive: a list of an earlier revision may only be replaced soundly if
  its ids lie below its counter, its counter is not past the file's, and an id listed in
  both has one look and one parentage (`Lineage`). That strengthened invariant is checked
  by TLC and proved.
  The second half is about `EditingModes`: `NoEditIsLeftOpen` and `CropModeIsOneEdit`,
  for any tones, frames and angles and any photographs whose snapshots are looks
  (`ModesAssumption`). What the modes promise is not inductive, for handlers call one
  another and the promise is broken inside them. The invariant `InForm` has two parts:
  `Sane` holds between any two calls (the session is well formed, no two modes are on,
  an edit in the crop mode leads back to the geometry it was entered with), while
  `Owned` and `Balanced` hold between handlers only: the open edit has an owner, and the
  steps that the crop mode has open are those of who holds it. A slider that waits for
  another nudge always has its step open there; one that is held may have lost it to an
  undo. Each operator of the module has a lemma saying what it keeps of either.
* `SnapshotWorkflow_proofs`: `SessionStaysSound`, `TicketStaysOwed`, `NothingIsMissed`,
  `ListsGoForward` and `AnchorsAreTrue`. Each step leaves in the file a list that is later
  than the one before (`FileStep`), so whatever was a list of the past (held, in a
  dialog, in a result) stays one. A step of the session carries the session on or
  starts it afresh. Tickets rise from results through the write under way to the queue;
  only patches are dropped from it, so a structural write that is awaited is always in
  one of the three. What the file has beyond the list held is announced: by a result,
  by a write under way, or by the watcher. An attempt at the proof showed that the
  arms of a definition of the model (`Finished`) overlapped; it is now an ordered choice,
  as the code's is.
* `Renders_proofs`: `PicturesAreWhole`, `NothingOutlivesItsPhotograph`,
  `PresetsChangeOneAtATime` and `ExportsReplaceNothing`.
  The ladders: behind a rung stands every rung its plan keeps;
  what a render has done so far is all the ladder has beyond the last;
  with no other source given the worker holds only of the one it was given; and
  a render on the GPU has a device that is not given up.
  The presets: who has asked and is not done holds the lock, and what a writer has
  read is the file's list until an editor overtakes it (`PresetsInv`). The rest is about
  lists: putting one in order is a rearrangement that keeps the order of entries of one
  name (`InOrderRearranges`), so what it has of a name is the same list as before (`SamePick`),
  and appending, replacing or removing an entry leaves the picks of other names alone.
  The command: every photograph left and every file of the batch comes from an argument
  that could be read, what was opened is still allowed, what an export made is known as
  written, and no photograph is forgotten (`CommandInv`); where an element of the
  expanded list comes from is a fact about flattening (`ExpandedIs`).
  Of the constants it is assumed that paths are of files, that two shots of one primary
  have the same companions, and that the files others leave are lists of entries
  (`CommandAssumption`, `PresetsAssumption`).
* `PhotoWindow_proofs`: `ScreenIsOfOpenPhoto`, `NewestIsShown`, `InterruptedIsResumed`,
  `HistogramStaysOfShown`, `NamesStayOwed`, `WorkersServeInOrder` and `PartsAreTyped`. The argument of the first two runs along
  the way of a picture: decodes on their way are newer than all pixels held, and the one
  awaited is the newest; the pixels on screen are not newer than those in the queue of
  results, these not newer than the worker's, and these not than the window's; results
  come in the order of requests, each stand-in before its picture; and from
  the first request of the open photograph on (`firstRequest`) every result is of it,
  and no other is. The renderer's part (`RendererInv`): all it keeps is of one source,
  and a render is told to stop only for a newer request, another source or the end.
  The panel: counts of the present generation are of the open photograph, partial ones
  only of an earlier generation. The exports: the queue holds the last numbers given
  without a gap, and names are exactly the numbers that will still report.
  The three workers implement the safety part of `NewestRequest` (`AnswersRise`): each call
  and each step of a worker is a request, an answer, a withdrawal or nothing to those who
  wait. What that needs beyond the invariants above is that an answer given is older than
  whatever is at work or waits (`AnswersHold`), that another source is never the one the
  worker still has, and that a picture that waits to be counted is of the present generation
  (`PanelBounded`). `MCInv` says which of the four parts runs and that the others stay as
  they began; of the caps it is assumed that the renderer's own part stays within the
  window's (`BoundsAssumption`).

* `FilmStrip_proofs`: `PicturesOfWhatIsSaved` and `MarksOfTheSidecar`, each about the part
  of the composed strip that its operations touch, with the rest only as far as it calls it.
  The pictures: of every photograph the worker should have developed, the last picture to
  come is of what is saved. It is still to be made, or being made and has read nothing
  else, or is the last on its way, or it has come (`PicturesInv`); what waits for its
  embedded picture is also to be developed, and what is listed is known to the worker.
  The marks: readings of a photograph stand in one chain from the queue through the loader
  and its results to the row, and the last reading of a row sees the sidecar as it is
  then. Once the latest stamp was seen nothing earlier comes after it, and who has seen it
  has read its marks; marks set by hand are not newer than the sidecar; the stamps that the
  window notes as its own hide no change that was not told; and what the model counts as
  pending is what its listing is owed (`MarksInv`). Only their conjunction is inductive: a
  reading that is dropped as stale is harmless only when a later one is still in the chain.
  Of the constants it is assumed that photographs are finitely many (`BoundsAssumption`)
  and that `None` is none of the values (`NothingAssumption`).
  The watches: `WatchesFitTheBudget`, and `WatchesAlwaysFit` of the folder without the
  restrictions of the run. The inductive invariant (`PipelineFits`) says of the lister's books
  that what the watcher watches has a watch in the tree, what has one has a place in the
  budget, the budget knows exactly the directories followed, and no directory has two places
  (`BudgetFits`); `WatchesFit` is not inductive without the last, nor without the bound on the
  cap and the places refused, which is what lets a place be given up and taken again. A read
  that retries a watch is of a directory that has a place and no watch, and what is queued is
  of a root. One step of the lister follows many directories, drops many with all beneath them
  and promotes many, each by a fold over the ordered list of a set, which the code does as one
  loop. What a fold comes to cannot be proved by the library's induction theorems; here each
  fold is first shown to be the end of a chain of single steps (`TrackFoldIs`, `DropFoldIs`,
  `WatchFoldIs`, `EnqueueFoldIs`: the function it is defined by exists, by induction in the
  form of sets), and then each chain keeps what its single step keeps (`TrackAllIs`,
  `DropAllIs`, `ApplyMovesIs`, `EnqueueAllIs`). That the first so many directories are that many
  is a fact about ranks (`RankIs`), and that the order of directories is an order rests on
  every directory's depth being well defined (`DepthIs`). It is assumed of the constants that
  directories are numbered after their parents, that trees are of these directories and
  contain what is above what they contain (`FoldersAssumption`, `PipelineAssumption`), that
  limits are numbers, and that `None` is neither a directory nor what a step keeps while it
  reads one (`ListerAssumption`).
  The rows: `RowsSettleAtRest`, the first two parts of `RowsFollowDisk`. The invariant
  (`SettleInv`) says that the lister has been told of the walk the model waits for, or the call
  is on its way; that a walk that was begun has its next step queued until it is ended, and its
  end told; that messages come in the order of their walks, each of a directory that the lister
  follows or that a later message says is gone; and that every row with photographs is of a
  directory followed, of one whose going was dropped, or of one about to be reported gone.
  Which directories a dropped subtree takes along rests on facts about `Above`: a root has
  nothing above it (`RootsAreApart`), subdirectories of one directory have nothing below them
  in common (`SiblingsAreApart`), what is above what is above is above (`AboveJoins`).
  And `PlacesGetWatches`: a directory that is watched is there and one that has a place is
  watched, with the exceptions that `PlacesAreWatched` names. Its invariant (`PlaceInv`, with
  the two before it) accounts for each directory that has a place and no watch: it is known
  to have been away, there is a report of it, it cannot be read, or a look at it is still owed,
  which means that it, or a directory above it whose reading goes on below, is queued or being
  read. A watch that is lost is in a report until the lister has taken it; a watch refused
  during a read is tried again after it; and the books have the whole way from the root to each
  directory they have, without which a look owed from above would not arrive.

Each inductive invariant was checked by TLC before it was proved: on its run, or (the last
two) on smaller instances of the folder without the restrictions of the run.

### Regular documents

A document is `Regular` when its list is no sequence (and so lists nothing) or it lists
every node it can (no id twice, no more nodes than the limit), the parents its nodes
name and its saved base lie below the counter the reader gives it, and the parents form
no cycle. Entries that cannot be read, parents and bases that are not there, a missing
marker and old versions are all allowed, and so is a counter that is missing where it is
above the parents. The document of a photograph without a sidecar is regular, and so is
whatever a write of arraw makes of a regular one (`ReplaceIsWrite`). For each writer a
lemma relates the text it leaves to the store's operator (`AddBecomes`, `DeleteBecomes`,
...): the patched document is regular and is read as the operator's value; the stamp of
the version changes nothing of that (`StampedReads`). The three hypotheses are needed:
without them a write is not one of the store's, as `sidecar_duplicate` and the first two
entries of *What else was met* show.

### What is only model-checked

* Out of the prover's reach: liveness (`TicketIsCleared`, `WaitEnds`, and of
  `NewestIsServed` the part that no request is owed for ever, `Served`); where the reader cuts a cycle
  (`CutCycles` on a document that has one).
* That the rows show what is on the disk: of `RowsFollowDisk` the parts `NothingIsLeft`,
  `RowsAreFollowed` and `PlacesAreWatched` are proved, and that what is watched is there; that
  its rows, subdirectories and sidecars are those of the disk (the rest of `WatchedAreShown`)
  stays with the run. The inductive invariant would have to say, of every directory watched in
  every state, by which report, queue, read or message what changed is still owed to its rows.
  `UnavailableRowsStay` also holds only within what the run lets happen (`MCNext`).

## Plan

1. Done: every component above that is marked modelled or partly, with its run; proofs
   of the store, the file, the session and its modes, the workflow, the ladders, the
   export command, the presets, the window of a photograph, and the pictures, marks,
   watches and settling rows of the film strip.
2. Next: the inductive invariant of the rest of `RowsFollowDisk`.

Not modelled, and why: floating point code (develop, geometry, GPU shaders) has no useful
finite instance; import, metadata and codecs are wrappers over libraries; widgets and the
models over a session present state that is kept elsewhere; Python bindings forward to
the library, and what scripts write is among the foreign writes of the models. Smaller
gaps: the shutdown of `SnapshotWriter` (`:38`) and of the lister, documents that lost
their counter (`Sidecar.cpp:1395`), the age of a lock on a share (`Sidecar.cpp:1616`).
