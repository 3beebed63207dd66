--------------------------- MODULE Renders_proofs ---------------------------
(***************************************************************************)
(* Developing and exporting, for any photographs, command lines, lists of  *)
(* presets and bounds.  What the renderer keeps between renders never      *)
(* changes a picture, and nothing of a photograph outlives it, however     *)
(* renders, cancels, failures and lost devices interleave.  An export      *)
(* replaces nothing that the command reads.  A change to the presets       *)
(* changes one preset, whoever else changes them.                          *)
(***************************************************************************)
EXTENDS MCRenders, Subsequences, Integers, FiniteSetTheorems, SequenceTheorems,
        WellFoundedInduction, TLAPS


-----------------------------------------------------------------------------
(* The inductive invariant. *)

Ladders == [image : Images \cup {None}, rungs : [Stages -> Rungs \cup {None}]]

(* RungsAreWhole for one ladder, and what it does not say: behind a rung is every rung that its
   plan keeps.  A later render resumes from the rung and promises them all. *)
Whole(ladder) ==
    /\ ladder \in Ladders
    /\ \A depth \in Stages :
           ladder.rungs[depth] # None =>
               /\ ladder.image # None
               /\ ladder.rungs[depth].pixels =
                      Developed(ladder.image, ladder.rungs[depth].plan, depth)
    /\ \A depth, deeper \in Stages :
           depth < deeper /\ ladder.rungs[depth] # None /\ ladder.rungs[deeper] # None =>
               PrefixMatches(ladder.rungs[depth].plan, ladder.rungs[deeper].plan, depth)
    /\ \A depth, deeper \in Stages :
           depth < deeper /\ ladder.rungs[deeper] # None
                          /\ KeepsRung(depth, ladder.rungs[deeper].plan) =>
               ladder.rungs[depth] # None

(* A ladder holds what a render by this plan has done, and no more: whatever else it held was
   taken away when the render resumed. *)
Holds(ladder, plan, done) ==
    /\ \A depth \in Stages :
           ladder.rungs[depth] # None =>
               depth <= done /\ PrefixMatches(ladder.rungs[depth].plan, plan, depth)
    /\ \A depth \in 1 .. done : KeepsRung(depth, plan) => ladder.rungs[depth] # None

AllWhole == \A on \in Devices, layer \in Layers : Whole(ladders[on][layer])

RenderHolds ==
    render # None /\ render.at = "passes" =>
        LET ladder == ladders[render.on][render.layer]
        IN  /\ ladder.image = render.image
            /\ render.pixels = Developed(render.image, render.plan, render.done)
            /\ Holds(ladder, render.plan, render.done)

(* A pause, and the picture beneath the view, are of the photograph shown last. *)
ShownBefore ==
    place \in {"pause", "check"} \/ (render # None /\ render.layer = "background") =>
        lastOf \in Decodes

(* Wherever the worker is: as long as no other source was given, what it holds and what it
   renders is of the one it was given. *)
OnlyGiven ==
    ~givenAnew =>
        /\ {lastOf, levels.of, resident.of} \subseteq {given, None}
        /\ \A on \in Devices, layer \in Layers :
               ladders[on][layer].image # None => ladders[on][layer].image.of = given
        /\ render # None => render.image.of = given

(* A render on the GPU has a device that was ready, and that is not given up before it ends. *)
OnDevice ==
    render # None /\ render.at # "taken" /\ render.on = "gpu" =>
        device \in {"ready", "lost"} /\ ~resident.failed

NothingOnLostDevice ==
    device \in {"untried", "none"} \/ resident.failed =>
        resident.uploaded = {} /\ ladders["gpu"] = NoLadders

Inv ==
    /\ TypeOK
    /\ AllWhole
    /\ RenderHolds
    /\ ShownBefore
    /\ OnlyGiven
    /\ OnDevice
    /\ NothingOnLostDevice

-----------------------------------------------------------------------------
(* Pixels and plans. *)

(* Every plan gives every pass a block. *)
LEMMA PlanTypes == Plans \subseteq [Stages -> Blocks]
BY LaddersAssumption

(* Plans that agree up to a boundary give the same pixels there. *)
LEMMA SamePixels ==
    ASSUME NEW image, NEW left, NEW right, NEW boundary \in Int,
           PrefixMatches(left, right, boundary)
    PROVE  Developed(image, left, boundary) = Developed(image, right, boundary)
<1>1. \A depth \in Stages : depth <= boundary => left[depth] = right[depth]
  BY DEF PrefixMatches, Stages
<1> QED  BY <1>1 DEF Developed

(* A pass that runs turns the pixels at its boundary into those at the next; one that does not run
   leaves them the same. *)
LEMMA NextPixels ==
    ASSUME NEW image \in Images, NEW plan \in Plans, NEW done \in 0 .. Effects - 1
    PROVE  Developed(image, plan, done + 1) =
               IF Runs(done + 1, plan)
               THEN [Developed(image, plan, done) EXCEPT !.done[done + 1] = plan[done + 1]]
               ELSE Developed(image, plan, done)
<1> DEFINE next == done + 1
           before == Developed(image, plan, done)
           after == Developed(image, plan, next)
<1> HIDE DEF before
<1>1. /\ before = [image |-> image, done |-> before.done]
      /\ before.done = [depth \in Stages |-> IF depth <= done THEN plan[depth] ELSE Off]
      /\ after = [image |-> image, done |-> after.done]
      /\ after.done = [depth \in Stages |-> IF depth <= next THEN plan[depth] ELSE Off]
  BY DEF Developed, before
<1>2. next \in Stages /\ \A depth \in Stages : depth <= next <=> depth <= done \/ depth = next
  BY DEF Stages, Effects
<1>3. after.done = [before.done EXCEPT ![next] = plan[next]]
  BY <1>1, <1>2
<1>4. ASSUME ~Runs(next, plan) PROVE after.done = before.done
  <2>1. plan[next] = Off
    BY <1>4 DEF Runs
  <2> QED  BY <1>1, <1>2, <2>1
<1>5. [before EXCEPT !.done[next] = plan[next]] =
          [image |-> image, done |-> [before.done EXCEPT ![next] = plan[next]]]
  BY <1>1
<1> QED  BY <1>1, <1>3, <1>4, <1>5 DEF before

(* The pixels a plan gives have their type. *)
LEMMA DevelopedType ==
    ASSUME NEW image \in Images, NEW plan \in Plans, NEW boundary \in Int
    PROVE  Developed(image, plan, boundary) \in Pixels
BY PlanTypes, LaddersAssumption DEF Developed, Pixels

-----------------------------------------------------------------------------
(* Ladders. *)

(* A ladder with no rungs is whole, whatever its image. *)
LEMMA EmptyIsWhole ==
    ASSUME NEW image \in Images \cup {None}
    PROVE  Whole([EmptyLadder EXCEPT !.image = image])
<1> DEFINE bare == [EmptyLadder EXCEPT !.image = image]
<1>1. /\ bare = [image |-> image, rungs |-> NoRungs]
      /\ bare.rungs = NoRungs
      /\ \A depth \in Stages : NoRungs[depth] = None
      /\ NoRungs \in [Stages -> Rungs \cup {None}]
  BY DEF EmptyLadder, NoRungs
<1>2. bare \in Ladders
  BY <1>1 DEF Ladders
<1> HIDE DEF bare
<1>3. Whole(bare)
  BY <1>1, <1>2 DEF Whole
<1> QED  BY <1>3 DEF bare

(* The empty ladder is the one of no image. *)
LEMMA EmptyLadderIsWhole == Whole(EmptyLadder) /\ EmptyLadder.image = None
<1>1. [EmptyLadder EXCEPT !.image = None] = EmptyLadder
  BY DEF EmptyLadder
<1> QED  BY <1>1, EmptyIsWhole DEF EmptyLadder

(* bind() leaves a whole ladder, of the image it was asked for. *)
LEMMA BindIsWhole ==
    ASSUME NEW ladder, Whole(ladder), NEW image \in Images
    PROVE  /\ Whole(Bind(ladder, image))
           /\ Bind(ladder, image).image = image
BY EmptyIsWhole DEF Bind, EmptyLadder

(* A set of boundaries has a deepest one. *)
LEMMA DeepestExists ==
    ASSUME NEW ladder, NEW plan
    PROVE  /\ Deepest(ladder, plan) \in 0 .. 6
           /\ Deepest(ladder, plan) # 0 => Deepest(ladder, plan) \in Usable(ladder, plan)
<1> DEFINE usable == Usable(ladder, plan) \cup {0}
<1>1. usable \subseteq 0 .. 6 /\ 0 \in usable
  BY DEF Usable, Stages
<1> HIDE DEF usable
<1>2. \E deepest \in usable : \A other \in usable : deepest >= other
  <2>1. CASE 6 \in usable  BY <1>1, <2>1
  <2>2. CASE 6 \notin usable /\ 5 \in usable  BY <1>1, <2>2
  <2>3. CASE 6 \notin usable /\ 5 \notin usable /\ 4 \in usable  BY <1>1, <2>3
  <2>4. CASE 6 \notin usable /\ 5 \notin usable /\ 4 \notin usable /\ 3 \in usable
    BY <1>1, <2>4
  <2>5. CASE 6 \notin usable /\ 5 \notin usable /\ 4 \notin usable /\ 3 \notin usable
    BY <1>1, <2>5
  <2> QED  BY <2>1, <2>2, <2>3, <2>4, <2>5
<1>3. Sets!Max(usable) \in usable
  BY <1>2 DEF Sets!Max
<1> QED  BY <1>1, <1>3 DEF Deepest, usable

(* deepestUsable(): the ladder stays whole, holds what a render by the plan has done up to the
   boundary it resumes from, and the rung there has the pixels of the plan. *)
LEMMA PrunedIsWhole ==
    ASSUME NEW ladder, Whole(ladder), NEW plan \in Plans
    PROVE  /\ Whole(Pruned(ladder, plan))
           /\ Pruned(ladder, plan).image = ladder.image
           /\ Holds(Pruned(ladder, plan), plan, Deepest(ladder, plan))
           /\ Deepest(ladder, plan) # 0 =>
                  ladder.rungs[Deepest(ladder, plan)].pixels =
                      Developed(ladder.image, plan, Deepest(ladder, plan))
<1> DEFINE from == Deepest(ladder, plan)
           pruned == Pruned(ladder, plan)
<1>1. /\ from \in 0 .. 6 /\ from \in Int
      /\ from # 0 => /\ from \in Stages
                     /\ ladder.rungs[from] # None
                     /\ PrefixMatches(ladder.rungs[from].plan, plan, from)
  BY DeepestExists DEF Usable
<1>2. /\ pruned = [image |-> ladder.image, rungs |-> pruned.rungs]
      /\ pruned.rungs = [depth \in Stages |-> IF depth <= from THEN ladder.rungs[depth] ELSE None]
  BY DEF Pruned, Whole, Ladders
<1>3. /\ ladder.image \in Images \cup {None}
      /\ ladder.rungs \in [Stages -> Rungs \cup {None}]
  BY DEF Whole, Ladders
<1> HIDE DEF from, pruned
<1>4. \A depth \in Stages : pruned.rungs[depth] # None =>
         depth <= from /\ pruned.rungs[depth] = ladder.rungs[depth] /\ ladder.rungs[depth] # None
  BY <1>2
<1>5. \A depth \in Stages : depth <= from => pruned.rungs[depth] = ladder.rungs[depth]
  BY <1>2
<1>6. \A depth \in Stages : pruned.rungs[depth] \in Rungs \cup {None}
  BY <1>2, <1>3
<1>7. pruned \in Ladders /\ pruned.image = ladder.image
  BY <1>2, <1>3, <1>6 DEF Ladders
<1>8. Whole(pruned)
  BY <1>1, <1>4, <1>5, <1>7 DEF Whole, Stages
<1>9. Holds(pruned, plan, from)
  <2>1. ASSUME NEW depth \in Stages, pruned.rungs[depth] # None
        PROVE  depth <= from /\ PrefixMatches(pruned.rungs[depth].plan, plan, depth)
    <3>1. depth <= from /\ pruned.rungs[depth] = ladder.rungs[depth] /\ ladder.rungs[depth] # None
      BY <1>4, <2>1
    <3>2. from \in Stages /\ ladder.rungs[from] # None
          /\ PrefixMatches(ladder.rungs[from].plan, plan, from)
      BY <1>1, <3>1 DEF Stages
    <3>3. depth = from \/ PrefixMatches(ladder.rungs[depth].plan, ladder.rungs[from].plan, depth)
      BY <1>1, <3>1, <3>2 DEF Whole, Stages
    <3>4. PrefixMatches(ladder.rungs[depth].plan, plan, depth)
      BY <1>1, <3>1, <3>2, <3>3 DEF PrefixMatches, Stages
    <3> QED  BY <3>1, <3>4
  <2>2. ASSUME NEW depth \in 1 .. from, KeepsRung(depth, plan)
        PROVE  pruned.rungs[depth] # None
    <3>1. from \in Stages /\ ladder.rungs[from] # None
          /\ PrefixMatches(ladder.rungs[from].plan, plan, from)
      BY <1>1
    <3>2. depth \in Stages /\ depth <= from /\ ladder.rungs[from].plan[depth] = plan[depth]
      BY <1>1, <3>1 DEF PrefixMatches, Stages
    <3>3. KeepsRung(depth, ladder.rungs[from].plan)
      BY <2>2, <3>2 DEF KeepsRung, Runs
    <3>4. depth = from \/ depth < from
      BY <1>1, <3>2 DEF Stages
    <3>5. ladder.rungs[depth] # None
      BY <3>1, <3>2, <3>3, <3>4 DEF Whole
    <3> QED  BY <1>5, <3>2, <3>5
  <2> QED  BY <2>1, <2>2 DEF Holds
<1>10. from # 0 => ladder.rungs[from].pixels = Developed(ladder.image, plan, from)
  <2> SUFFICES ASSUME from # 0 PROVE ladder.rungs[from].pixels = Developed(ladder.image, plan, from)
    OBVIOUS
  <2>1. ladder.rungs[from].pixels = Developed(ladder.image, ladder.rungs[from].plan, from)
    BY <1>1 DEF Whole
  <2> QED  BY <1>1, <2>1, SamePixels
<1> QED  BY <1>7, <1>8, <1>9, <1>10 DEF from, pruned

(* A pass, with the rung after it if the plan keeps one: the ladder stays whole and holds one pass
   more. *)
Stored(ladder, plan, next, pixels) ==
    IF KeepsRung(next, plan)
    THEN [ladder EXCEPT !.rungs[next] = [plan |-> plan, pixels |-> pixels]]
    ELSE ladder

LEMMA StoredIsWhole ==
    ASSUME NEW ladder, Whole(ladder), NEW plan \in Plans, ladder.image \in Images,
           NEW done \in 0 .. Effects - 1, Holds(ladder, plan, done)
    PROVE  LET after == Stored(ladder, plan, done + 1, Developed(ladder.image, plan, done + 1))
           IN  /\ Whole(after)
               /\ after.image = ladder.image
               /\ Holds(after, plan, done + 1)
<1> DEFINE next == done + 1
           rung == [plan |-> plan, pixels |-> Developed(ladder.image, plan, next)]
           after == Stored(ladder, plan, next, Developed(ladder.image, plan, next))
<1>1. /\ next \in Stages /\ next \in Int /\ done \in Int
      /\ rung.plan = plan /\ rung.pixels = Developed(ladder.image, plan, next)
      /\ ladder.image \in Images \cup {None}
      /\ ladder.rungs \in [Stages -> Rungs \cup {None}]
      /\ ladder = [image |-> ladder.image, rungs |-> ladder.rungs]
  BY DEF Stages, Effects, Whole, Ladders
<1>2. rung \in Rungs /\ rung # None /\ ladder.image # None
  <2>1. rung \in Rungs
    BY <1>1, DevelopedType DEF Rungs
  <2> QED  BY <2>1, LaddersAssumption
<1>3. CASE ~KeepsRung(next, plan)
  <2>1. after = ladder
    BY <1>3 DEF Stored
  <2>2. Holds(ladder, plan, next)
    BY <1>1, <1>3 DEF Holds, Stages
  <2> QED  BY <2>1, <2>2
<1>4. CASE KeepsRung(next, plan)
  <2>1. /\ after = [image |-> ladder.image, rungs |-> after.rungs]
        /\ after.rungs = [ladder.rungs EXCEPT ![next] = rung]
    BY <1>1, <1>4 DEF Stored
  <2> HIDE DEF after, rung
  <2>2. /\ after.rungs[next] = rung
        /\ \A depth \in Stages : depth # next => after.rungs[depth] = ladder.rungs[depth]
        /\ after.rungs \in [Stages -> Rungs \cup {None}]
        /\ after.image = ladder.image
    BY <1>1, <1>2, <2>1
  <2>3. after \in Ladders
    BY <1>1, <2>1, <2>2 DEF Ladders
  <2>4. \A depth \in Stages : ladder.rungs[depth] # None =>
           depth <= done /\ PrefixMatches(ladder.rungs[depth].plan, plan, depth)
    BY DEF Holds
  <2>5. \A depth \in Stages : after.rungs[depth] # None =>
           depth <= next /\ PrefixMatches(after.rungs[depth].plan, plan, depth)
    <3> SUFFICES ASSUME NEW depth \in Stages, after.rungs[depth] # None
                 PROVE  depth <= next /\ PrefixMatches(after.rungs[depth].plan, plan, depth)
      OBVIOUS
    <3>1. CASE depth = next
      BY <1>1, <2>2, <3>1 DEF PrefixMatches
    <3>2. CASE depth # next
      BY <1>1, <2>2, <2>4, <3>2 DEF Stages
    <3> QED  BY <3>1, <3>2
  <2>6. \A depth \in 1 .. next : KeepsRung(depth, plan) => after.rungs[depth] # None
    BY <1>1, <1>2, <2>2 DEF Holds, Stages
  <2>7. Holds(after, plan, next)
    BY <2>5, <2>6 DEF Holds
  <2>8. \A depth \in Stages : after.rungs[depth] # None =>
           /\ after.image # None
           /\ after.rungs[depth].pixels = Developed(after.image, after.rungs[depth].plan, depth)
    BY <1>1, <1>2, <2>2 DEF Whole
  <2>9. ASSUME NEW depth \in Stages, NEW deeper \in Stages, depth < deeper,
               after.rungs[depth] # None, after.rungs[deeper] # None
        PROVE  PrefixMatches(after.rungs[depth].plan, after.rungs[deeper].plan, depth)
    <3>1. \A block \in 1 .. depth : after.rungs[depth].plan[block] = plan[block]
      BY <2>5, <2>9 DEF PrefixMatches
    <3>2. \A block \in 1 .. deeper : after.rungs[deeper].plan[block] = plan[block]
      BY <2>5, <2>9 DEF PrefixMatches
    <3> QED  BY <2>9, <3>1, <3>2 DEF PrefixMatches, Stages
  <2>10. ASSUME NEW depth \in Stages, NEW deeper \in Stages, depth < deeper,
                after.rungs[deeper] # None, KeepsRung(depth, after.rungs[deeper].plan)
         PROVE  after.rungs[depth] # None
    <3>1. /\ deeper <= next
          /\ depth \in 1 .. deeper
          /\ after.rungs[deeper].plan[depth] = plan[depth]
      BY <1>1, <2>5, <2>10 DEF PrefixMatches, Stages
    <3>2. KeepsRung(depth, plan)
      BY <2>10, <3>1 DEF KeepsRung, Runs
    <3>3. depth \in 1 .. next
      BY <1>1, <3>1 DEF Stages
    <3> QED  BY <2>6, <3>2, <3>3
  <2>11. Whole(after)
    BY <2>3, <2>8, <2>9, <2>10 DEF Whole
  <2> QED  BY <2>2, <2>7, <2>11 DEF after
<1> QED  BY <1>3, <1>4

-----------------------------------------------------------------------------
(* What the steps do to the ladders. *)

(* The types of what is held, in the names of this module. *)
LEMMA HeldTypes ==
    ASSUME TypeOK
    PROVE  /\ ladders \in [Devices -> [Layers -> Ladders]]
           /\ lastOf \in Decodes \cup {None} /\ given \in Decodes \cup {None}
           /\ givenAnew \in BOOLEAN
           /\ levels \in [of : Decodes \cup {None}, built : SUBSET Levels]
           /\ resident \in [of : Decodes \cup {None}, uploaded : SUBSET Levels, failed : BOOLEAN]
           /\ device \in {"untried", "none", "ready", "lost"}
           /\ render \in Renders \cup {None}
           /\ place \in {"loop", "render", "pause", "check"}
           /\ render = None <=> place # "render"
BY DEF TypeOK, Ladders

(* No ladder at all. *)
LEMMA NoLaddersAreWhole ==
    /\ NoLadders \in [Layers -> Ladders]
    /\ \A layer \in Layers : Whole(NoLadders[layer]) /\ NoLadders[layer].image = None
<1>1. \A layer \in Layers : NoLadders[layer] = EmptyLadder
  BY DEF NoLadders
<1>2. EmptyLadder \in Ladders
  BY EmptyLadderIsWhole DEF Whole
<1> QED  BY <1>1, <1>2, EmptyLadderIsWhole DEF NoLadders

(* One ladder is replaced by another that is whole. *)
LEMMA OneLadder ==
    ASSUME TypeOK, AllWhole, NEW on \in Devices, NEW layer \in Layers, NEW new, Whole(new),
           ladders' = [ladders EXCEPT ![on][layer] = new]
    PROVE  /\ ladders' \in [Devices -> [Layers -> Ladders]]
           /\ ladders'[on][layer] = new
           /\ \A other \in Devices, beneath \in Layers :
                  other # on \/ beneath # layer => ladders'[other][beneath] = ladders[other][beneath]
           /\ \A other \in Devices : other # on => ladders'[other] = ladders[other]
           /\ AllWhole'
<1>1. ladders \in [Devices -> [Layers -> Ladders]] /\ new \in Ladders
  BY HeldTypes DEF Whole
<1>2. /\ ladders' \in [Devices -> [Layers -> Ladders]]
      /\ ladders'[on][layer] = new
      /\ \A other \in Devices, beneath \in Layers :
             other # on \/ beneath # layer => ladders'[other][beneath] = ladders[other][beneath]
      /\ \A other \in Devices : other # on => ladders'[other] = ladders[other]
  BY <1>1
<1>3. AllWhole'
  <2> SUFFICES ASSUME NEW other \in Devices, NEW beneath \in Layers
               PROVE  Whole(ladders'[other][beneath])
    BY DEF AllWhole
  <2>1. CASE other = on /\ beneath = layer  BY <1>2, <2>1
  <2>2. CASE other # on \/ beneath # layer  BY <1>2, <2>2 DEF AllWhole
  <2> QED  BY <2>1, <2>2
<1> QED  BY <1>2, <1>3

(* The ladders of a device go. *)
LEMMA DeviceLetGo ==
    ASSUME TypeOK, AllWhole, ladders' = [ladders EXCEPT !["gpu"] = NoLadders]
    PROVE  /\ ladders' \in [Devices -> [Layers -> Ladders]]
           /\ ladders'["gpu"] = NoLadders /\ ladders'["cpu"] = ladders["cpu"]
           /\ AllWhole'
<1>1. ladders \in [Devices -> [Layers -> Ladders]]
  BY HeldTypes
<1>2. /\ ladders' \in [Devices -> [Layers -> Ladders]]
      /\ ladders'["gpu"] = NoLadders /\ ladders'["cpu"] = ladders["cpu"]
  BY <1>1, NoLaddersAreWhole DEF Devices
<1>3. AllWhole'
  BY <1>2, NoLaddersAreWhole DEF AllWhole, Devices
<1> QED  BY <1>2, <1>3

(* After letGo() nothing is held at all. *)
LEMMA LetGoEmpties ==
    ASSUME LetGo
    PROVE  /\ lastOf' = None
           /\ levels' \in [of : Decodes \cup {None}, built : SUBSET Levels] /\ levels'.of = None
           /\ resident' \in [of : Decodes \cup {None}, uploaded : SUBSET Levels, failed : BOOLEAN]
           /\ resident'.of = None /\ resident'.uploaded = {} /\ ~resident'.failed
           /\ ladders' \in [Devices -> [Layers -> Ladders]]
           /\ ladders'["gpu"] = NoLadders
           /\ \A on \in Devices, layer \in Layers : ladders'[on][layer].image = None
           /\ AllWhole'
<1>1. \A on \in Devices : ladders'[on] = NoLadders
  BY DEF LetGo
<1>2. ladders' \in [Devices -> [Layers -> Ladders]]
  BY <1>1, NoLaddersAreWhole DEF LetGo
<1>3. AllWhole' /\ \A on \in Devices, layer \in Layers : ladders'[on][layer].image = None
  BY <1>1, NoLaddersAreWhole DEF AllWhole
<1>4. /\ levels' = [of |-> None, built |-> {}]
      /\ resident' = [of |-> None, uploaded |-> {}, failed |-> FALSE]
      /\ lastOf' = None
  BY DEF LetGo, NoLevels, NothingResident
<1>5. /\ levels' \in [of : Decodes \cup {None}, built : SUBSET Levels]
      /\ resident' \in [of : Decodes \cup {None}, uploaded : SUBSET Levels, failed : BOOLEAN]
  BY <1>4
<1>6. levels'.of = None /\ resident'.of = None /\ resident'.uploaded = {} /\ resident'.failed = FALSE
  BY <1>4
<1> QED  BY <1>1, <1>2, <1>3, <1>4, <1>5, <1>6 DEF Devices

(* A level is built for a source: the levels are of that source. *)
LEMMA LevelsAreTyped ==
    ASSUME TypeOK, NEW source \in Decodes, NEW level \in Levels,
           levels' = WithLevel(source, level)
    PROVE  /\ levels' \in [of : Decodes \cup {None}, built : SUBSET Levels]
           /\ levels'.of = source
<1>1. 0 .. level \subseteq Levels
  BY LaddersAssumption DEF Levels
<1>2. levels.built \in SUBSET Levels
  BY HeldTypes
<1> QED  BY <1>1, <1>2 DEF WithLevel

(* prepare(): the device is tried once, what was held of another source goes, and nothing is
   found on a device that is not there. *)
LEMMA PrepareKeeps ==
    ASSUME Inv, NEW source \in Decodes, Prepare(source), NEW uploaded \in SUBSET Levels,
           \/ resident' = Prepared(source)
           \/ /\ device' = "ready"
              /\ ~Prepared(source).failed
              /\ resident' = [Prepared(source) EXCEPT !.uploaded = @ \cup uploaded]
    PROVE  /\ device' \in {"none", "ready", "lost"}
           /\ resident' \in [of : Decodes \cup {None}, uploaded : SUBSET Levels, failed : BOOLEAN]
           /\ resident'.of \in {resident.of, source}
           /\ ladders' \in [Devices -> [Layers -> Ladders]]
           /\ \A on \in Devices, layer \in Layers :
                  ladders'[on][layer].image # None =>
                      ladders'[on][layer].image = ladders[on][layer].image
           /\ AllWhole'
           /\ NothingOnLostDevice'
<1>1. /\ ladders \in [Devices -> [Layers -> Ladders]]
      /\ resident \in [of : Decodes \cup {None}, uploaded : SUBSET Levels, failed : BOOLEAN]
      /\ device \in {"untried", "none", "ready", "lost"}
  BY HeldTypes DEF Inv
<1>2. device' \in {"none", "ready", "lost"}
  BY <1>1 DEF Prepare
<1>3. device' = "none" => device \in {"untried", "none"}
  BY <1>1 DEF Prepare
<1>4. CASE device' = "none" \/ resident.of = source
  <2>1. ladders' = ladders /\ Prepared(source) = resident
    BY <1>4 DEF Prepare, Prepared
  <2>2. /\ resident' \in [of : Decodes \cup {None}, uploaded : SUBSET Levels, failed : BOOLEAN]
        /\ resident'.of = resident.of /\ resident'.failed = resident.failed
        /\ (device' \notin {"untried", "none"} /\ ~resident.failed) \/ resident' = resident
    BY <1>1, <1>2, <2>1
  <2>3. NothingOnLostDevice'
    BY <1>2, <1>3, <2>1, <2>2 DEF Inv, NothingOnLostDevice
  <2> QED  BY <1>1, <1>2, <2>1, <2>2, <2>3 DEF Inv, AllWhole
<1>5. CASE ~(device' = "none" \/ resident.of = source)
  <2>1. /\ ladders' = [ladders EXCEPT !["gpu"] = NoLadders]
        /\ Prepared(source) = [of |-> source, uploaded |-> {}, failed |-> FALSE]
    BY <1>5 DEF Prepare, Prepared, NothingResident
  <2>2. /\ resident' \in [of : Decodes \cup {None}, uploaded : SUBSET Levels, failed : BOOLEAN]
        /\ resident'.of = source /\ resident'.failed = FALSE
    <3>1. CASE resident' = Prepared(source)
      BY <2>1, <3>1
    <3>2. CASE resident' = [Prepared(source) EXCEPT !.uploaded = @ \cup uploaded]
      <4> DEFINE fresh == [of |-> source, uploaded |-> {}, failed |-> FALSE]
      <4>1. resident' = [fresh EXCEPT !.uploaded = fresh.uploaded \cup uploaded]
        BY <2>1, <3>2
      <4>2. {} \cup uploaded \in SUBSET Levels
        OBVIOUS
      <4> QED  BY <4>1, <4>2
    <3> QED  BY <3>1, <3>2
  <2>3. /\ ladders' \in [Devices -> [Layers -> Ladders]]
        /\ ladders'["gpu"] = NoLadders /\ ladders'["cpu"] = ladders["cpu"]
        /\ AllWhole'
    BY <2>1, DeviceLetGo DEF Inv
  <2>4. \A on \in Devices, layer \in Layers :
           ladders'[on][layer].image # None => ladders'[on][layer].image = ladders[on][layer].image
    BY <2>3, NoLaddersAreWhole DEF Devices
  <2>5. NothingOnLostDevice'
    BY <1>2, <1>5, <2>2 DEF NothingOnLostDevice
  <2> QED  BY <1>2, <2>2, <2>3, <2>4, <2>5
<1> QED  BY <1>4, <1>5

-----------------------------------------------------------------------------
(* The steps, in the order of Next. *)

(* Before anything was given nothing is held. *)
LEMMA InitHolds == Init => Inv
<1> SUFFICES ASSUME Init PROVE Inv
  OBVIOUS
<1>1. /\ \A on \in Devices : ladders[on] = NoLadders
      /\ ladders \in [Devices -> [Layers -> Ladders]]
  BY NoLaddersAreWhole DEF Init
<1>2. TypeOK
  BY <1>1 DEF Init, TypeOK, Ladders, NoLevels, NothingResident
<1>3. AllWhole /\ \A on \in Devices, layer \in Layers : ladders[on][layer].image = None
  BY <1>1, NoLaddersAreWhole DEF AllWhole
<1>4. RenderHolds /\ ShownBefore /\ OnDevice
  BY DEF Init, RenderHolds, ShownBefore, OnDevice
<1>5. OnlyGiven
  BY <1>3 DEF Init, OnlyGiven, NoLevels, NothingResident
<1>6. NothingOnLostDevice
  BY <1>1 DEF Init, NothingOnLostDevice, NothingResident, Devices
<1> QED  BY <1>2, <1>3, <1>4, <1>5, <1>6 DEF Inv

(* What is held and rendered stays as it is: only the place of the worker, or the source it was
   given, is another. *)
LEMMA HeldStays ==
    ASSUME Inv, UNCHANGED held,
           given' \in Decodes \cup {None}, givenAnew' \in BOOLEAN,
           place' \in {"loop", "render", "pause", "check"},
           render' = render \/ render' = None,
           render' = None <=> place' # "render",
           ~givenAnew' => ~givenAnew /\ given' = given,
           place' \in {"pause", "check"} => lastOf \in Decodes
    PROVE  Inv'
<1>1. TypeOK'
  BY DEF Inv, TypeOK, held
<1>2. AllWhole' /\ RenderHolds'
  BY DEF Inv, AllWhole, RenderHolds, held
<1>3. ShownBefore' /\ OnlyGiven'
  BY DEF Inv, ShownBefore, OnlyGiven, held
<1>4. OnDevice' /\ NothingOnLostDevice'
  BY DEF Inv, OnDevice, NothingOnLostDevice, held
<1> QED  BY <1>1, <1>2, <1>3, <1>4 DEF Inv

(* setSource() marks a change of the source, even back to the one before. *)
LEMMA SetSourceKeeps ==
    ASSUME Inv, NEW source \in Decodes \cup {None}, SetSource(source)
    PROVE  Inv'
<1>1. /\ given' \in Decodes \cup {None} /\ givenAnew' \in BOOLEAN
      /\ ~givenAnew' => ~givenAnew /\ given' = given
  BY HeldTypes DEF Inv, SetSource
<1>2. place' = place /\ render' = render /\ UNCHANGED held
  BY DEF SetSource
<1>3. place' \in {"pause", "check"} => lastOf \in Decodes
  BY <1>2 DEF Inv, ShownBefore
<1> QED  BY <1>1, <1>2, <1>3, HeldStays, HeldTypes DEF Inv

(* The worker lets everything go when it finds another source. *)
LEMMA ForgetKeeps ==
    ASSUME Inv, Forget
    PROVE  Inv'
<1>1. /\ place' = "loop" /\ render' = None /\ given' = given /\ givenAnew' = FALSE
      /\ device' = device
  BY HeldTypes DEF Inv, Forget
<1>2. LetGo
  BY DEF Forget
<1>3. TypeOK'
  BY <1>1, <1>2, LetGoEmpties, HeldTypes DEF Inv, TypeOK, Ladders
<1>4. AllWhole'
  BY <1>2, LetGoEmpties
<1>5. RenderHolds' /\ ShownBefore' /\ OnDevice'
  BY <1>1 DEF RenderHolds, ShownBefore, OnDevice
<1>6. OnlyGiven' /\ NothingOnLostDevice'
  BY <1>1, <1>2, LetGoEmpties DEF OnlyGiven, NothingOnLostDevice
<1> QED  BY <1>3, <1>4, <1>5, <1>6 DEF Inv

(* What a request is when the worker takes it. *)
LEMMA TakenTypes ==
    ASSUME NEW layer \in Layers, NEW level \in Levels, NEW plan \in Plans, NEW source \in Decodes
    PROVE  LET taken == Taken(layer, level, plan, source)
           IN  /\ taken \in Renders /\ taken # None
               /\ taken.at = "taken" /\ taken.layer = layer /\ taken.image.of = source
<1>1. Taken(layer, level, plan, source) \in Renders
  BY DEF Taken, Renders, Images, Devices, Effects
<1> QED  BY <1>1, LaddersAssumption DEF Taken

(* A request is taken with the source there is, after what was held of another is gone. *)
LEMMA TakeRequestKeeps ==
    ASSUME Inv, NEW level \in Levels, NEW plan \in Plans, TakeRequest(level, plan)
    PROVE  Inv'
<1>1. /\ given \in Decodes /\ given' = given /\ device' = device /\ givenAnew' = FALSE
      /\ place' = "render" /\ place = "loop"
      /\ render' \in Renders /\ render' # None
      /\ render'.at = "taken" /\ render'.layer = "shown" /\ render'.image.of = given
  BY HeldTypes, TakenTypes DEF Inv, TakeRequest, Layers
<1>2. RenderHolds' /\ ShownBefore' /\ OnDevice'
  BY <1>1 DEF RenderHolds, ShownBefore, OnDevice
<1>3. CASE givenAnew
  <2>1. LetGo
    BY <1>3 DEF TakeRequest
  <2>2. TypeOK'
    BY <1>1, <2>1, LetGoEmpties, HeldTypes DEF Inv, TypeOK, Ladders
  <2>3. AllWhole' /\ OnlyGiven' /\ NothingOnLostDevice'
    BY <1>1, <2>1, LetGoEmpties DEF OnlyGiven, NothingOnLostDevice
  <2> QED  BY <1>2, <2>2, <2>3 DEF Inv
<1>4. CASE ~givenAnew
  <2>1. UNCHANGED <<lastOf, levels, ladders, resident>>
    BY <1>4 DEF TakeRequest
  <2>2. TypeOK'
    BY <1>1, <2>1 DEF Inv, TypeOK
  <2>3. AllWhole' /\ OnlyGiven' /\ NothingOnLostDevice'
    BY <1>1, <1>4, <2>1 DEF Inv, AllWhole, OnlyGiven, NothingOnLostDevice
  <2> QED  BY <1>2, <2>2, <2>3 DEF Inv
<1> QED  BY <1>3, <1>4

(* Without a photograph, whatever a request finds goes. *)
LEMMA TakeNothingKeeps ==
    ASSUME Inv, TakeNothing
    PROVE  Inv'
<1>1. /\ given = None /\ given' = None /\ device' = device /\ givenAnew' = FALSE
      /\ place' = "loop" /\ render' = None
  BY HeldTypes DEF Inv, TakeNothing
<1>2. RenderHolds' /\ ShownBefore' /\ OnDevice'
  BY <1>1 DEF RenderHolds, ShownBefore, OnDevice
<1>3. CASE givenAnew
  <2>1. LetGo
    BY <1>3 DEF TakeNothing
  <2>2. TypeOK'
    BY <1>1, <2>1, LetGoEmpties, HeldTypes DEF Inv, TypeOK, Ladders
  <2>3. AllWhole' /\ OnlyGiven' /\ NothingOnLostDevice'
    BY <1>1, <2>1, LetGoEmpties DEF OnlyGiven, NothingOnLostDevice
  <2> QED  BY <1>2, <2>2, <2>3 DEF Inv
<1>4. CASE ~givenAnew
  <2>1. /\ lastOf' = lastOf
        /\ levels' = [of |-> None, built |-> {}]
        /\ resident' = [of |-> None, uploaded |-> {}, failed |-> FALSE]
        /\ ladders' = [ladders EXCEPT !["cpu"]["shown"] = EmptyLadder, !["gpu"] = NoLadders]
    BY <1>4 DEF TakeNothing, NoLevels, NothingResident
  <2>2. ladders \in [Devices -> [Layers -> Ladders]] /\ EmptyLadder \in Ladders
    BY HeldTypes, EmptyLadderIsWhole DEF Inv, Whole
  <2>3. /\ ladders' \in [Devices -> [Layers -> Ladders]]
        /\ ladders'["gpu"] = NoLadders
        /\ ladders'["cpu"]["shown"] = EmptyLadder
        /\ ladders'["cpu"]["background"] = ladders["cpu"]["background"]
    BY <2>1, <2>2, NoLaddersAreWhole DEF Devices, Layers
  <2>4. AllWhole'
    BY <2>3, EmptyLadderIsWhole, NoLaddersAreWhole DEF Inv, AllWhole, Devices, Layers
  <2>5. levels'.of = None /\ resident'.of = None /\ resident'.uploaded = {}
    BY <2>1
  <2>6. TypeOK'
    BY <1>1, <2>1, <2>3, HeldTypes DEF Inv, TypeOK, Ladders
  <2>7. \A on \in Devices, layer \in Layers :
           ladders'[on][layer].image # None => ladders'[on][layer].image.of = given
    BY <1>4, <2>3, EmptyLadderIsWhole, NoLaddersAreWhole DEF Inv, OnlyGiven, Devices, Layers
  <2>8. OnlyGiven' /\ NothingOnLostDevice'
    BY <1>1, <1>4, <2>1, <2>3, <2>5, <2>7 DEF Inv, OnlyGiven, NothingOnLostDevice
  <2> QED  BY <1>2, <2>4, <2>6, <2>8 DEF Inv
<1> QED  BY <1>3, <1>4

(* Nothing but the place changes at a recount that is taken, when a pause is left, and when a render
   ends without a picture. *)
LEMMA PlaceMoves ==
    ASSUME Inv, TakeRecount \/ Leave \/ Cancelled \/ RequestFails
    PROVE  Inv'
<1>1. given' = given /\ givenAnew' = givenAnew /\ UNCHANGED held
  BY DEF TakeRecount, Leave, Cancelled, RequestFails
<1>2. /\ place' \in {"loop", "render", "pause", "check"}
      /\ render' = render \/ render' = None
      /\ render' = None <=> place' # "render"
      /\ place' \in {"pause", "check"} => lastOf \in Decodes
  <2>1. CASE TakeRecount
    BY <2>1, HeldTypes DEF Inv, TakeRecount
  <2>2. CASE Leave
    BY <2>2, HeldTypes DEF Inv, Leave
  <2>3. CASE Cancelled
    BY <2>3, HeldTypes DEF Inv, Cancelled, Ended
  <2>4. CASE RequestFails
    BY <2>4, HeldTypes, LaddersAssumption
    DEF Inv, RequestFails, Ended, ShownBefore, Renders, Layers
  <2> QED  BY <2>1, <2>2, <2>3, <2>4
<1> QED  BY <1>1, <1>2, HeldStays, HeldTypes DEF Inv

(* The picture beneath the view is of the photograph shown last, which is the one given. *)
LEMMA TakeBackgroundKeeps ==
    ASSUME Inv, NEW plan \in Plans, TakeBackground(plan)
    PROVE  Inv'
<1>1. lastOf \in Decodes /\ lastOf = given
  BY DEF Inv, ShownBefore, TakeBackground
<1>2. HighestLevel \in Levels
  BY LaddersAssumption DEF Levels
<1>3. /\ given' = given /\ givenAnew' = givenAnew /\ UNCHANGED held /\ place' = "render"
      /\ render' \in Renders /\ render' # None
      /\ render'.at = "taken" /\ render'.image.of = given
  BY <1>1, <1>2, TakenTypes DEF TakeBackground, Layers
<1>4. TypeOK' /\ AllWhole' /\ RenderHolds' /\ OnDevice'
  BY <1>3 DEF Inv, TypeOK, AllWhole, RenderHolds, OnDevice, held
<1>5. ShownBefore' /\ OnlyGiven' /\ NothingOnLostDevice'
  BY <1>1, <1>3 DEF Inv, ShownBefore, OnlyGiven, NothingOnLostDevice, held
<1> QED  BY <1>4, <1>5 DEF Inv

(* A render starts on the device that prepare() finds. *)
LEMMA StartKeeps ==
    ASSUME Inv, Start
    PROVE  Inv'
<1>1. /\ render \in Renders /\ place' = "render" /\ given' = given /\ givenAnew' = givenAnew
      /\ lastOf' = lastOf
      /\ render.image.of \in Decodes /\ render.image.level \in Levels
  BY HeldTypes DEF Inv, Start, Renders, Images
<1>2. /\ Prepare(render.image.of) /\ resident' = Prepared(render.image.of)
      /\ levels' = WithLevel(render.image.of, render.image.level)
  BY DEF Start
<1>3. /\ device' \in {"none", "ready", "lost"}
      /\ resident' \in [of : Decodes \cup {None}, uploaded : SUBSET Levels, failed : BOOLEAN]
      /\ resident'.of \in {resident.of, render.image.of}
      /\ ladders' \in [Devices -> [Layers -> Ladders]]
      /\ \A on \in Devices, layer \in Layers :
             ladders'[on][layer].image # None =>
                 ladders'[on][layer].image = ladders[on][layer].image
      /\ AllWhole'
      /\ NothingOnLostDevice'
  <2>1. {} \in SUBSET Levels
    OBVIOUS
  <2> QED  BY <1>1, <1>2, <2>1, PrepareKeeps
<1>4. /\ levels' \in [of : Decodes \cup {None}, built : SUBSET Levels]
      /\ levels'.of = render.image.of
  BY <1>1, <1>2, LevelsAreTyped DEF Inv
<1>5. /\ render' \in Renders /\ render' # None
      /\ render'.at \in {"standIn", "ladder"} /\ render'.layer = render.layer
      /\ render'.image = render.image
      /\ render'.on = IF device' # "none" /\ ~resident'.failed THEN "gpu" ELSE "cpu"
  <2>1. render' = [render EXCEPT !.at = IF render.layer = "shown" THEN "standIn" ELSE "ladder",
                                 !.on = IF device' # "none" /\ ~resident'.failed THEN "gpu"
                                                                                ELSE "cpu"]
    BY DEF Start
  <2>2. render' \in Renders
    BY <1>1, <2>1 DEF Renders, Devices
  <2> QED  BY <1>1, <2>1, <2>2, LaddersAssumption DEF Renders
<1>6. TypeOK'
  BY <1>1, <1>3, <1>4, <1>5, HeldTypes DEF Inv, TypeOK, Ladders
<1>7. RenderHolds' /\ OnDevice'
  BY <1>3, <1>5 DEF RenderHolds, OnDevice
<1>8. render # None
  BY <1>1, LaddersAssumption
<1>9. ShownBefore' /\ OnlyGiven'
  BY <1>1, <1>3, <1>4, <1>5, <1>8 DEF Inv, ShownBefore, OnlyGiven
<1> QED  BY <1>3, <1>6, <1>7, <1>9 DEF Inv

(* A level goes up only to a device that is there. *)
LEMMA UploadKeeps ==
    ASSUME Inv, render # None, render.at # "taken", render.on = "gpu",
           NEW level \in Levels, Upload(level)
    PROVE  /\ resident' \in [of : Decodes \cup {None}, uploaded : SUBSET Levels, failed : BOOLEAN]
           /\ resident'.of = resident.of /\ resident'.failed = FALSE
           /\ resident.failed = FALSE /\ device \in {"ready", "lost"}
<1>1. resident \in [of : Decodes \cup {None}, uploaded : SUBSET Levels, failed : BOOLEAN]
  BY HeldTypes DEF Inv
<1>2. resident.failed = FALSE /\ device \in {"ready", "lost"}
  BY <1>1 DEF Inv, OnDevice
<1>3. resident' = [resident EXCEPT !.uploaded = resident.uploaded \cup {level}]
  BY DEF Upload
<1>4. resident.uploaded \cup {level} \in SUBSET Levels
  BY <1>1
<1> QED  BY <1>1, <1>2, <1>3, <1>4

(* The stand-in builds a level, and no ladder. *)
LEMMA StandInKeeps ==
    ASSUME Inv, StandIn
    PROVE  Inv'
<1>1. /\ render \in Renders /\ place' = "render" /\ given' = given /\ givenAnew' = givenAnew
      /\ lastOf' = lastOf /\ ladders' = ladders /\ device' = device
      /\ render.image.of \in Decodes /\ render # None /\ render.at # "taken"
  BY HeldTypes, LaddersAssumption DEF Inv, StandIn, Renders, Images
<1>2. /\ render' \in Renders /\ render' # None /\ render'.at = "ladder"
      /\ render'.layer = render.layer /\ render'.image = render.image /\ render'.on = render.on
  <2>1. render' = [render EXCEPT !.at = "ladder"]
    BY DEF StandIn
  <2> QED  BY <1>1, <2>1, LaddersAssumption DEF Renders
<1>3. /\ levels' \in [of : Decodes \cup {None}, built : SUBSET Levels]
      /\ levels'.of \in {levels.of, render.image.of}
  <2>1. CASE levels' = levels
    BY <2>1, HeldTypes DEF Inv
  <2>2. CASE levels' = WithLevel(render.image.of, 1) /\ HighestLevel >= 1
    <3>1. 1 \in Levels
      BY <2>2, LaddersAssumption DEF Levels
    <3> QED  BY <1>1, <2>2, <3>1, LevelsAreTyped DEF Inv
  <2> QED  BY <2>1, <2>2 DEF StandIn
<1>4. /\ resident' \in [of : Decodes \cup {None}, uploaded : SUBSET Levels, failed : BOOLEAN]
      /\ resident'.of = resident.of /\ resident'.failed = resident.failed
      /\ resident' = resident \/ (~resident.failed /\ device \in {"ready", "lost"})
  <2>1. CASE resident' = resident
    BY <2>1, HeldTypes DEF Inv
  <2>2. CASE render.on = "gpu" /\ Upload(1) /\ HighestLevel >= 1
    <3>1. 1 \in Levels
      BY <2>2, LaddersAssumption DEF Levels
    <3> QED  BY <1>1, <2>2, <3>1, UploadKeeps
  <2> QED  BY <2>1, <2>2 DEF StandIn
<1>5. TypeOK'
  BY <1>1, <1>2, <1>3, <1>4, HeldTypes DEF Inv, TypeOK, Ladders
<1>6. AllWhole' /\ RenderHolds'
  BY <1>1, <1>2 DEF Inv, AllWhole, RenderHolds
<1>7. ShownBefore' /\ OnlyGiven'
  BY <1>1, <1>2, <1>3, <1>4 DEF Inv, ShownBefore, OnlyGiven
<1>8. OnDevice' /\ NothingOnLostDevice'
  BY <1>1, <1>2, <1>4 DEF Inv, OnDevice, NothingOnLostDevice
<1> QED  BY <1>5, <1>6, <1>7, <1>8 DEF Inv

(* The render binds its ladder, drops the rungs its plan would not have made, and takes the pixels
   of the deepest one that is left. *)
LEMMA ResumeKeeps ==
    ASSUME Inv, Resume
    PROVE  Inv'
<1> DEFINE ladder == Bind(ladders[render.on][render.layer], render.image)
           from == Deepest(ladder, render.plan)
           pruned == Pruned(ladder, render.plan)
<1>1. /\ render \in Renders /\ render # None /\ render.at = "ladder"
      /\ place' = "render" /\ given' = given /\ givenAnew' = givenAnew
      /\ lastOf' = lastOf /\ levels' = levels /\ device' = device
      /\ render.on \in Devices /\ render.layer \in Layers /\ render.plan \in Plans
      /\ render.image \in Images /\ render.image.level \in Levels
  BY HeldTypes, LaddersAssumption DEF Inv, Resume, Renders, Images
<1>2. Whole(ladders[render.on][render.layer])
  BY <1>1 DEF Inv, AllWhole
<1>3. Whole(ladder) /\ ladder.image = render.image
  BY <1>1, <1>2, BindIsWhole
<1>4. /\ ladders' = [ladders EXCEPT ![render.on][render.layer] = pruned]
      /\ render' = [render EXCEPT !.at = "passes",
                                  !.done = from,
                                  !.pixels = IF from = 0
                                             THEN Developed(render.image, render.plan, 0)
                                             ELSE ladder.rungs[from].pixels]
      /\ IF render.on = "gpu" THEN Upload(render.image.level) ELSE UNCHANGED resident
  BY DEF Resume
<1> HIDE DEF ladder
<1>5. /\ Whole(pruned) /\ pruned.image = render.image
      /\ Holds(pruned, render.plan, from)
      /\ from \in 0 .. 6
      /\ from # 0 => ladder.rungs[from].pixels = Developed(render.image, render.plan, from)
  BY <1>1, <1>3, PrunedIsWhole, DeepestExists
<1> HIDE DEF from, pruned
<1>6. /\ ladders' \in [Devices -> [Layers -> Ladders]]
      /\ ladders'[render.on][render.layer] = pruned
      /\ \A other \in Devices, beneath \in Layers :
             other # render.on \/ beneath # render.layer =>
                 ladders'[other][beneath] = ladders[other][beneath]
      /\ \A other \in Devices : other # render.on => ladders'[other] = ladders[other]
      /\ AllWhole'
  BY <1>1, <1>4, <1>5, OneLadder DEF Inv
<1>7. /\ render' \in Renders /\ render' # None
      /\ render'.layer = render.layer /\ render'.image = render.image /\ render'.on = render.on
      /\ render'.plan = render.plan /\ render'.done = from
      /\ render'.pixels = Developed(render.image, render.plan, from)
  <2>1. render' = [render EXCEPT !.at = "passes", !.done = from,
                                 !.pixels = Developed(render.image, render.plan, from)]
    BY <1>4, <1>5
  <2>2. Developed(render.image, render.plan, from) \in Pixels /\ from \in 0 .. Effects
    BY <1>1, <1>5, DevelopedType DEF Effects
  <2>3. render' \in Renders
    BY <1>1, <2>1, <2>2 DEF Renders
  <2> QED  BY <1>1, <2>1, <2>3, LaddersAssumption DEF Renders
<1>8. /\ resident' \in [of : Decodes \cup {None}, uploaded : SUBSET Levels, failed : BOOLEAN]
      /\ resident'.of = resident.of /\ resident'.failed = resident.failed
      /\ \/ resident' = resident /\ render.on = "cpu"
         \/ ~resident.failed /\ device \in {"ready", "lost"}
  <2>1. CASE render.on = "gpu"
    BY <1>1, <1>4, <2>1, UploadKeeps
  <2>2. CASE render.on # "gpu"
    BY <1>1, <1>4, <2>2, HeldTypes DEF Inv, Devices
  <2> QED  BY <2>1, <2>2
<1>9. TypeOK'
  BY <1>1, <1>6, <1>7, <1>8, HeldTypes DEF Inv, TypeOK, Ladders
<1>10. RenderHolds'
  BY <1>5, <1>6, <1>7 DEF RenderHolds
<1>11. ~givenAnew => render.image.of = given
  BY <1>1 DEF Inv, OnlyGiven
<1>12. ShownBefore' /\ OnlyGiven'
  <2>1. ShownBefore'
    BY <1>1, <1>7 DEF Inv, ShownBefore
  <2>2. ASSUME ~givenAnew, NEW on \in Devices, NEW layer \in Layers,
               ladders'[on][layer].image # None
        PROVE  ladders'[on][layer].image.of = given
    <3>1. CASE on = render.on /\ layer = render.layer
      BY <1>5, <1>6, <1>11, <2>2, <3>1
    <3>2. CASE on # render.on \/ layer # render.layer
      BY <1>6, <2>2, <3>2 DEF Inv, OnlyGiven
    <3> QED  BY <3>1, <3>2
  <2>3. OnlyGiven'
    BY <1>1, <1>7, <1>8, <1>11, <2>2 DEF Inv, OnlyGiven
  <2> QED  BY <2>1, <2>3
<1>13. OnDevice' /\ NothingOnLostDevice'
  <2>1. OnDevice'
    BY <1>1, <1>7, <1>8 DEF Inv, OnDevice
  <2>2. "gpu" \in Devices
    BY DEF Devices
  <2>3. NothingOnLostDevice'
    BY <1>1, <1>6, <1>8, <2>2 DEF Inv, NothingOnLostDevice
  <2> QED  BY <2>1, <2>3
<1> QED  BY <1>6, <1>9, <1>10, <1>12, <1>13 DEF Inv

(* A pass turns the pixels at its boundary into those at the next, and leaves a rung there. *)
LEMMA PassKeeps ==
    ASSUME Inv, Pass
    PROVE  Inv'
<1> DEFINE ladder == ladders[render.on][render.layer]
           next == render.done + 1
           pixels == Developed(render.image, render.plan, next)
           stored == Stored(ladder, render.plan, next, pixels)
<1>1. /\ render \in Renders /\ render # None /\ render.at = "passes"
      /\ place' = "render" /\ given' = given /\ givenAnew' = givenAnew
      /\ lastOf' = lastOf /\ levels' = levels /\ device' = device /\ resident' = resident
      /\ render.on \in Devices /\ render.layer \in Layers /\ render.plan \in Plans
      /\ render.image \in Images /\ render.done \in 0 .. Effects - 1 /\ next \in Stages
  BY HeldTypes, LaddersAssumption DEF Inv, Pass, Renders, Effects, Stages
<1>2. /\ Whole(ladder) /\ ladder.image = render.image
      /\ render.pixels = Developed(render.image, render.plan, render.done)
      /\ Holds(ladder, render.plan, render.done)
  BY <1>1 DEF Inv, AllWhole, RenderHolds
<1>3. pixels = IF Runs(next, render.plan)
               THEN [render.pixels EXCEPT !.done[next] = render.plan[next]]
               ELSE render.pixels
  BY <1>1, <1>2, NextPixels
<1>4. render' = [render EXCEPT !.done = next, !.pixels = pixels]
  BY <1>3 DEF Pass
<1>5. ladders' = [ladders EXCEPT ![render.on][render.layer] = stored]
  <2>1. ladders \in [Devices -> [Layers -> Ladders]]
    BY HeldTypes DEF Inv
  <2>2. ladders' = IF KeepsRung(next, render.plan)
                   THEN [ladders EXCEPT ![render.on][render.layer].rungs[next] =
                             [plan |-> render.plan, pixels |-> pixels]]
                   ELSE ladders
    BY <1>3 DEF Pass
  <2>3. CASE KeepsRung(next, render.plan)
    <3>1. stored = [ladder EXCEPT !.rungs[next] = [plan |-> render.plan, pixels |-> pixels]]
      BY <2>3 DEF Stored
    <3> QED  BY <2>2, <2>3, <3>1
  <2>4. CASE ~KeepsRung(next, render.plan)
    <3>1. stored = ladder
      BY <2>4 DEF Stored
    <3> QED  BY <1>1, <2>1, <2>2, <2>4, <3>1
  <2> QED  BY <2>3, <2>4
<1>6. Whole(stored) /\ stored.image = render.image /\ Holds(stored, render.plan, next)
  BY <1>1, <1>2, StoredIsWhole
<1>7. pixels \in Pixels /\ next \in 0 .. Effects
  BY <1>1, DevelopedType DEF Stages, Effects
<1> HIDE DEF ladder, next, pixels, stored
<1>8. /\ ladders' \in [Devices -> [Layers -> Ladders]]
      /\ ladders'[render.on][render.layer] = stored
      /\ \A other \in Devices, beneath \in Layers :
             other # render.on \/ beneath # render.layer =>
                 ladders'[other][beneath] = ladders[other][beneath]
      /\ \A other \in Devices : other # render.on => ladders'[other] = ladders[other]
      /\ AllWhole'
  BY <1>1, <1>5, <1>6, OneLadder DEF Inv
<1>9. /\ render' \in Renders /\ render' # None
      /\ render'.layer = render.layer /\ render'.image = render.image /\ render'.on = render.on
      /\ render'.plan = render.plan /\ render'.done = next /\ render'.pixels = pixels
      /\ render'.at = "passes"
  <2>1. render' \in Renders
    BY <1>1, <1>4, <1>7 DEF Renders
  <2> QED  BY <1>1, <1>4, <2>1, LaddersAssumption DEF Renders
<1>10. TypeOK'
  BY <1>1, <1>8, <1>9, HeldTypes DEF Inv, TypeOK, Ladders
<1>11. RenderHolds'
  BY <1>6, <1>8, <1>9 DEF RenderHolds, pixels
<1>12. ~givenAnew => render.image.of = given
  BY <1>1 DEF Inv, OnlyGiven
<1>13. ShownBefore' /\ OnlyGiven'
  <2>1. ShownBefore'
    BY <1>1, <1>9 DEF Inv, ShownBefore
  <2>2. ASSUME ~givenAnew, NEW on \in Devices, NEW layer \in Layers,
               ladders'[on][layer].image # None
        PROVE  ladders'[on][layer].image.of = given
    <3>1. CASE on = render.on /\ layer = render.layer
      BY <1>6, <1>8, <1>12, <2>2, <3>1
    <3>2. CASE on # render.on \/ layer # render.layer
      BY <1>8, <2>2, <3>2 DEF Inv, OnlyGiven
    <3> QED  BY <3>1, <3>2
  <2>3. OnlyGiven'
    BY <1>1, <1>9, <1>12, <2>2 DEF Inv, OnlyGiven
  <2> QED  BY <2>1, <2>3
<1>14. OnDevice' /\ NothingOnLostDevice'
  <2>1. OnDevice'
    BY <1>1, <1>9 DEF Inv, OnDevice
  <2>2. "gpu" \in Devices
    BY DEF Devices
  <2>3. render.on = "gpu" => ~(device \in {"untried", "none"} \/ resident.failed)
    BY <1>1 DEF Inv, OnDevice
  <2>4. NothingOnLostDevice'
    BY <1>1, <1>8, <2>2, <2>3 DEF Inv, NothingOnLostDevice
  <2> QED  BY <2>1, <2>4
<1> QED  BY <1>8, <1>10, <1>11, <1>13, <1>14 DEF Inv

(* A device that fails is given up only when the CPU has rendered after it. *)
LEMMA GpuFailsKeeps ==
    ASSUME Inv, GpuFails
    PROVE  Inv'
<1>1. /\ render \in Renders /\ render # None /\ render.at # "taken" /\ render.on = "gpu"
      /\ place' = "render" /\ given' = given /\ givenAnew' = givenAnew
      /\ lastOf' = lastOf /\ levels' = levels /\ ladders' = ladders /\ resident' = resident
      /\ device' \in {device, "lost"}
  BY HeldTypes, LaddersAssumption DEF Inv, GpuFails, Under
<1>2. device \in {"ready", "lost"} /\ ~resident.failed
  BY <1>1 DEF Inv, OnDevice
<1>3. /\ render' \in Renders /\ render' # None
      /\ render'.layer = render.layer /\ render'.image = render.image
      /\ render'.on = "cpu" /\ render'.at = "ladder"
  <2>1. render' = [render EXCEPT !.on = "cpu", !.at = "ladder", !.gpuFailed = TRUE]
    BY DEF GpuFails
  <2>2. render' \in Renders
    BY <1>1, <2>1 DEF Renders, Devices
  <2> QED  BY <1>1, <2>1, <2>2, LaddersAssumption DEF Renders
<1>4. TypeOK'
  BY <1>1, <1>2, <1>3 DEF Inv, TypeOK
<1>5. AllWhole' /\ RenderHolds' /\ OnDevice'
  BY <1>1, <1>3 DEF Inv, AllWhole, RenderHolds, OnDevice
<1>6. ShownBefore' /\ OnlyGiven'
  BY <1>1, <1>3 DEF Inv, ShownBefore, OnlyGiven
<1>7. NothingOnLostDevice'
  BY <1>1, <1>2 DEF NothingOnLostDevice
<1> QED  BY <1>4, <1>5, <1>6, <1>7 DEF Inv

(* A picture is done; what failed on the way is given up, and nothing stays there. *)
LEMMA FinishKeeps ==
    ASSUME Inv, Finish
    PROVE  Inv'
<1>1. /\ render \in Renders /\ render # None /\ render' = None
      /\ place' \in {"pause", "check"} /\ given' = given /\ givenAnew' = givenAnew
      /\ levels' = levels
      /\ place' = "check" => render.layer = "background"
      /\ lastOf' = IF render.layer = "shown" THEN render.image.of ELSE lastOf
      /\ render.image.of \in Decodes /\ render.layer \in Layers
  BY HeldTypes, LaddersAssumption DEF Inv, Finish, Ended, Renders, Images, Layers
<1>2. lastOf' \in Decodes /\ lastOf' \in {lastOf, render.image.of}
  BY <1>1 DEF Inv, ShownBefore, Layers
<1>3. RenderHolds' /\ ShownBefore' /\ OnDevice'
  BY <1>1, <1>2 DEF RenderHolds, ShownBefore, OnDevice
<1>4. /\ resident \in [of : Decodes \cup {None}, uploaded : SUBSET Levels, failed : BOOLEAN]
      /\ ladders \in [Devices -> [Layers -> Ladders]]
  BY HeldTypes DEF Inv
<1>5. CASE render.gpuFailed
  <2>1. GiveUpGpu
    BY <1>5 DEF Finish
  <2>2. /\ resident' = [of |-> IF device = "lost" THEN None ELSE resident.of, uploaded |-> {},
                        failed |-> TRUE]
        /\ device' = IF device = "lost" THEN "none" ELSE device
        /\ ladders' = [ladders EXCEPT !["gpu"] = NoLadders]
    BY <2>1 DEF GiveUpGpu
  <2>3. /\ ladders' \in [Devices -> [Layers -> Ladders]]
        /\ ladders'["gpu"] = NoLadders /\ ladders'["cpu"] = ladders["cpu"]
        /\ AllWhole'
    BY <2>2, DeviceLetGo DEF Inv
  <2>4. /\ resident' \in [of : Decodes \cup {None}, uploaded : SUBSET Levels, failed : BOOLEAN]
        /\ resident'.of \in {resident.of, None} /\ resident'.uploaded = {}
    BY <1>4, <2>2
  <2>5. TypeOK'
    BY <1>1, <1>2, <2>2, <2>3, <2>4, HeldTypes DEF Inv, TypeOK, Ladders
  <2>6. \A on \in Devices, layer \in Layers :
           ladders'[on][layer].image # None => ladders'[on][layer].image = ladders[on][layer].image
    BY <2>3, NoLaddersAreWhole DEF Devices
  <2>7. OnlyGiven'
    BY <1>1, <1>2, <2>4, <2>6 DEF Inv, OnlyGiven
  <2>8. NothingOnLostDevice'
    BY <2>3, <2>4 DEF NothingOnLostDevice
  <2> QED  BY <1>3, <2>3, <2>5, <2>7, <2>8 DEF Inv
<1>6. CASE ~render.gpuFailed
  <2>1. UNCHANGED <<resident, device, ladders>>
    BY <1>6 DEF Finish
  <2>2. TypeOK'
    BY <1>1, <1>2, <2>1 DEF Inv, TypeOK
  <2>3. AllWhole' /\ NothingOnLostDevice'
    BY <2>1 DEF Inv, AllWhole, NothingOnLostDevice
  <2>4. OnlyGiven'
    BY <1>1, <1>2, <2>1 DEF Inv, OnlyGiven
  <2> QED  BY <1>3, <2>2, <2>3, <2>4 DEF Inv
<1> QED  BY <1>5, <1>6

(* The histogram is counted of the photograph shown last, when it is still the one given. *)
LEMMA CountHistogramKeeps ==
    ASSUME Inv, CountHistogram
    PROVE  Inv'
<1>1. /\ lastOf \in Decodes /\ given = lastOf
      /\ place' = "loop" /\ render' = None
      /\ given' = given /\ givenAnew' = givenAnew /\ lastOf' = lastOf
  BY HeldTypes DEF Inv, ShownBefore, CountHistogram
<1>2. HighestLevel \in Levels /\ {HighestLevel} \in SUBSET Levels
  BY LaddersAssumption DEF Levels
<1>3. /\ device' \in {"none", "ready", "lost"}
      /\ resident' \in [of : Decodes \cup {None}, uploaded : SUBSET Levels, failed : BOOLEAN]
      /\ resident'.of \in {resident.of, lastOf}
      /\ ladders' \in [Devices -> [Layers -> Ladders]]
      /\ \A on \in Devices, layer \in Layers :
             ladders'[on][layer].image # None =>
                 ladders'[on][layer].image = ladders[on][layer].image
      /\ AllWhole'
      /\ NothingOnLostDevice'
  <2>1. Prepare(lastOf)
    BY DEF CountHistogram
  <2>2. \/ resident' = Prepared(lastOf)
        \/ /\ device' = "ready"
           /\ ~Prepared(lastOf).failed
           /\ resident' = [Prepared(lastOf) EXCEPT !.uploaded = @ \cup {HighestLevel}]
    BY DEF CountHistogram
  <2> QED  BY <1>1, <1>2, <2>1, <2>2, PrepareKeeps
<1>4. /\ levels' \in [of : Decodes \cup {None}, built : SUBSET Levels]
      /\ levels'.of = lastOf
  BY <1>1, <1>2, LevelsAreTyped DEF Inv, CountHistogram
<1>5. TypeOK'
  BY <1>1, <1>3, <1>4, HeldTypes DEF Inv, TypeOK, Ladders
<1>6. RenderHolds' /\ ShownBefore' /\ OnDevice'
  BY <1>1 DEF RenderHolds, ShownBefore, OnDevice
<1>7. OnlyGiven'
  BY <1>1, <1>3, <1>4 DEF Inv, OnlyGiven
<1> QED  BY <1>3, <1>5, <1>6, <1>7 DEF Inv

(* No step breaks it. *)
LEMMA NextHolds == Inv /\ [Next]_vars => Inv'
<1> SUFFICES ASSUME Inv, [Next]_vars PROVE Inv'
  OBVIOUS
<1>1. CASE Next
  BY <1>1, SetSourceKeeps, ForgetKeeps, TakeRequestKeeps, TakeNothingKeeps, PlaceMoves,
     TakeBackgroundKeeps, StartKeeps, StandInKeeps, ResumeKeeps, PassKeeps, GpuFailsKeeps,
     FinishKeeps, CountHistogramKeeps
  DEF Next, Worker
<1>2. CASE UNCHANGED vars
  BY <1>2 DEF vars, held, Inv, TypeOK, AllWhole, RenderHolds, ShownBefore, OnlyGiven, OnDevice,
              NothingOnLostDevice
<1> QED  BY <1>1, <1>2

(* In every state the invariant holds. *)
LEMMA AlwaysInv == Spec => []Inv
BY InitHolds, NextHolds, PTL DEF Spec

-----------------------------------------------------------------------------
(* The theorems. *)

(* A picture is what developing its photograph by its own plan from the start would give, from
   whichever rung the render resumed and whatever was cancelled or failed before. *)
THEOREM PicturesAreWhole == Spec => []RendersAreWhole
<1>1. Inv => RendersAreWhole
  <2> SUFFICES ASSUME Inv PROVE RendersAreWhole
    OBVIOUS
  <2>1. RungsAreWhole
    BY DEF Inv, AllWhole, Whole, RungsAreWhole
  <2>2. ASSUME render # None, render.at = "passes"
        PROVE  /\ ladders[render.on][render.layer].image = render.image
               /\ render.pixels = Developed(render.image, render.plan, render.done)
               /\ \A depth \in 1 .. render.done :
                      KeepsRung(depth, render.plan) =>
                          /\ ladders[render.on][render.layer].rungs[depth] # None
                          /\ PrefixMatches(ladders[render.on][render.layer].rungs[depth].plan,
                                           render.plan, depth)
    <3>1. render.done \in 0 .. 6
      BY <2>2, HeldTypes DEF Inv, Renders, Effects
    <3>2. 1 .. render.done \subseteq Stages
      BY <3>1 DEF Stages
    <3> QED  BY <2>2, <3>2 DEF Inv, RenderHolds, Holds
  <2>3. RenderIsWhole
    BY <2>2 DEF RenderIsWhole
  <2> QED  BY <2>1, <2>3 DEF Inv, RendersAreWhole
<1> QED  BY <1>1, AlwaysInv, PTL

(* At its loop, and knowing of the last source it was given, the worker holds nothing of any other
   photograph; a device that is gone or was given up holds nothing at all. *)
THEOREM NothingOutlivesItsPhotograph == Spec => []PreviousIsReleased
<1>1. Inv => PreviousIsReleased
  <2> SUFFICES ASSUME Inv PROVE PreviousIsReleased
    OBVIOUS
  <2>1. ASSUME ~givenAnew, NEW source \in Holding
        PROVE  source \in {given, None}
    <3>1. CASE source \in {lastOf, levels.of, resident.of}
      BY <2>1, <3>1 DEF Inv, OnlyGiven
    <3>2. CASE source \in Decodes /\ \E on \in Devices, layer \in Layers :
                  ladders[on][layer].image \in {[of |-> source, level |-> level] : level \in Levels}
      <4>1. PICK on \in Devices, layer \in Layers, level \in Levels :
               ladders[on][layer].image = [of |-> source, level |-> level]
        BY <3>2
      <4>2. ladders[on][layer].image \in Images
        BY <3>2, <4>1 DEF Images
      <4>3. ladders[on][layer].image.of = given
        BY <2>1, <4>2, LaddersAssumption DEF Inv, OnlyGiven
      <4> QED  BY <4>1, <4>3
    <3> QED  BY <2>1, <3>1, <3>2 DEF Holding
  <2> QED  BY <2>1 DEF Inv, NothingOnLostDevice, PreviousIsReleased
<1> QED  BY <1>1, AlwaysInv, PTL

-----------------------------------------------------------------------------
(* Numbers, orders and parts of sequences. *)

(* Numbering a finite set one by one leaves no number out. *)
LEMMA NumbersAreTaken ==
    ASSUME NEW S, IsFiniteSet(S), NEW number \in [S -> 1 .. Cardinality(S)],
           \A i, j \in S : number[i] = number[j] => i = j
    PROVE  \A k \in 1 .. Cardinality(S) : \E i \in S : number[i] = k
<1> DEFINE T == 1 .. Cardinality(S)
<1>1. Cardinality(S) \in Nat
  BY FS_CardinalityType
<1>2. IsFiniteSet(T) /\ Cardinality(T) = Cardinality(S)
  BY <1>1, FS_Interval
<1>3. number \in Injection(S, T)
  BY DEF Injection, IsInjective
<1> HIDE DEF T
<1>4. number \in Surjection(S, T)
  BY <1>2, <1>3, FS_Injection
<1> QED  BY <1>4 DEF Surjection, T

(* A set of pairs that puts a set in order. *)
Orders(R, S) ==
    /\ \A i \in S : <<i, i>> \notin R
    /\ \A i, j, k \in S : <<i, j>> \in R /\ <<j, k>> \in R => <<i, k>> \in R
    /\ \A i, j \in S : i = j \/ <<i, j>> \in R \/ <<j, i>> \in R

(* How many come no later than one, in an order of a set. *)
Rank(S, R, i) == 1 + Cardinality({j \in S : <<j, i>> \in R})

(* In a finite set that is in order each has its number, after as many as come before it. *)
LEMMA Ranks ==
    ASSUME NEW S, NEW R, IsFiniteSet(S), Orders(R, S)
    PROVE  /\ Cardinality(S) \in Nat
           /\ \A i \in S : Rank(S, R, i) \in 1 .. Cardinality(S)
           /\ \A i, j \in S : <<i, j>> \in R => Rank(S, R, i) < Rank(S, R, j)
           /\ \A i, j \in S : Rank(S, R, i) = Rank(S, R, j) => i = j
           /\ \A k \in 1 .. Cardinality(S) : \E i \in S : Rank(S, R, i) = k
<1> DEFINE Before(i) == {j \in S : <<j, i>> \in R}
           rank(i) == 1 + Cardinality(Before(i))
           number == [i \in S |-> rank(i)]
<1> USE DEF Orders
<1>1. Cardinality(S) \in Nat
  BY FS_CardinalityType
<1>2. \A i \in S : /\ IsFiniteSet(Before(i)) /\ Cardinality(Before(i)) \in Nat
                   /\ Cardinality(Before(i)) < Cardinality(S)
  <2> SUFFICES ASSUME NEW i \in S
               PROVE  /\ IsFiniteSet(Before(i)) /\ Cardinality(Before(i)) \in Nat
                      /\ Cardinality(Before(i)) < Cardinality(S)
    OBVIOUS
  <2>1. Before(i) \in SUBSET S /\ i \notin Before(i)
    OBVIOUS
  <2> HIDE DEF Before
  <2>2. IsFiniteSet(Before(i)) /\ Cardinality(Before(i)) <= Cardinality(S)
        /\ (Cardinality(S) = Cardinality(Before(i)) => S = Before(i))
    BY <2>1, FS_Subset
  <2>3. Cardinality(Before(i)) \in Nat
    BY <2>2, FS_CardinalityType
  <2> QED  BY <1>1, <2>1, <2>2, <2>3
<1>3. \A i, j \in S : <<i, j>> \in R => rank(i) < rank(j)
  <2> SUFFICES ASSUME NEW i \in S, NEW j \in S, <<i, j>> \in R
               PROVE  Cardinality(Before(i)) < Cardinality(Before(j))
    <3>1. \A i \in S : Cardinality(Before(i)) \in Nat
      BY <1>2
    <3> HIDE DEF Before
    <3> QED  BY <3>1
  <2>1. Before(i) \in SUBSET Before(j) /\ i \in Before(j) /\ i \notin Before(i)
    OBVIOUS
  <2> HIDE DEF Before
  <2>2. /\ Cardinality(Before(i)) <= Cardinality(Before(j))
        /\ Cardinality(Before(j)) = Cardinality(Before(i)) => Before(j) = Before(i)
    BY <1>2, <2>1, FS_Subset
  <2>3. Cardinality(Before(i)) \in Nat /\ Cardinality(Before(j)) \in Nat
    BY <1>2
  <2> QED  BY <2>1, <2>2, <2>3
<1>4. \A i \in S : rank(i) \in 1 .. Cardinality(S)
  <2> SUFFICES ASSUME NEW i \in S
               PROVE  rank(i) \in 1 .. Cardinality(S)
    OBVIOUS
  <2>1. Cardinality(Before(i)) \in Nat /\ Cardinality(Before(i)) < Cardinality(S)
    BY <1>2
  <2> HIDE DEF Before
  <2> QED  BY <1>1, <2>1
<1>5. \A i, j \in S : rank(i) = rank(j) => i = j
  <2> SUFFICES ASSUME NEW i \in S, NEW j \in S, rank(i) = rank(j), i # j
               PROVE  FALSE
    OBVIOUS
  <2>1. rank(i) < rank(j) \/ rank(j) < rank(i)
    BY <1>3
  <2>2. rank(i) \in Int /\ rank(j) \in Int
    BY <1>1, <1>4
  <2> HIDE DEF rank
  <2> QED  BY <2>1, <2>2
<1>6. number \in [S -> 1 .. Cardinality(S)] /\ \A i, j \in S : number[i] = number[j] => i = j
  BY <1>4, <1>5
<1>7. \A k \in 1 .. Cardinality(S) : \E i \in S : number[i] = k
  <2> HIDE DEF number
  <2> QED  BY <1>6, NumbersAreTaken
<1>8. \A i \in S : Rank(S, R, i) = rank(i)
  BY DEF Rank
<1> HIDE DEF rank
<1>9. \A k \in 1 .. Cardinality(S) : \E i \in S : rank(i) = k
  BY <1>7
<1> QED  BY <1>1, <1>3, <1>4, <1>5, <1>8, <1>9

LEMMA RanksAreTaken ==
    ASSUME NEW S, NEW R, IsFiniteSet(S), Orders(R, S)
    PROVE  \A k \in 1 .. Cardinality(S) : \E i \in S : Rank(S, R, i) = k
BY Ranks

(* The numbers of a finite set are its first, its second, and so on. *)
LEMMA NthIs ==
    ASSUME NEW S \in SUBSET Nat, IsFiniteSet(S)
    PROVE  /\ Cardinality(S) \in Nat
           /\ \A k \in 1 .. Cardinality(S) : Nth(S, k) \in S
           /\ \A k, l \in 1 .. Cardinality(S) : k < l => Nth(S, k) < Nth(S, l)
           /\ \A i \in S : \E k \in 1 .. Cardinality(S) : Nth(S, k) = i
           /\ \A k \in 1 .. Cardinality(S) : Cardinality({j \in S : j <= Nth(S, k)}) = k
           /\ \A i, j \in S :
                 Cardinality({l \in S : l <= i}) = Cardinality({l \in S : l <= j}) => i = j
<1> DEFINE R == {p \in S \X S : p[1] < p[2]}
           rank(i) == Rank(S, R, i)
           Upto(i) == Cardinality({j \in S : j <= i})
<1>1. \A i, j \in S : <<i, j>> \in R <=> i < j
  OBVIOUS
<1>2. Orders(R, S)
  <2> HIDE DEF R
  <2> QED  BY <1>1 DEF Orders
<1> HIDE DEF R
<1>3. /\ Cardinality(S) \in Nat
      /\ \A i \in S : rank(i) \in 1 .. Cardinality(S)
      /\ \A i, j \in S : <<i, j>> \in R => rank(i) < rank(j)
      /\ \A i, j \in S : rank(i) = rank(j) => i = j
      /\ \A k \in 1 .. Cardinality(S) : \E i \in S : rank(i) = k
  <2>1. Cardinality(S) \in Nat
    BY FS_CardinalityType
  <2>2. \A i \in S : Rank(S, R, i) \in 1 .. Cardinality(S)
    BY <1>2, Ranks
  <2>3. \A i, j \in S : <<i, j>> \in R => Rank(S, R, i) < Rank(S, R, j)
    BY <1>2, Ranks
  <2>4. \A i, j \in S : Rank(S, R, i) = Rank(S, R, j) => i = j
    BY <1>2, Ranks
  <2>5. \A k \in 1 .. Cardinality(S) : \E i \in S : Rank(S, R, i) = k
    BY <1>2, RanksAreTaken
  <2> QED  BY <2>1, <2>2, <2>3, <2>4, <2>5
<1>4. \A i \in S : Upto(i) = rank(i)
  <2> SUFFICES ASSUME NEW i \in S
               PROVE  Upto(i) = rank(i)
    OBVIOUS
  <2> DEFINE before == {j \in S : <<j, i>> \in R}
             upto == {j \in S : j <= i}
  <2>1. upto = before \cup {i} /\ i \notin before
    <3>1. \A j \in S : j <= i <=> j < i \/ j = i
      OBVIOUS
    <3>2. \A j \in S : <<j, i>> \in R <=> j < i
      BY <1>1
    <3>3. ~(i < i)
      OBVIOUS
    <3> QED  BY <3>1, <3>2, <3>3
  <2>2. IsFiniteSet(before)
    BY FS_Subset
  <2>3. Cardinality(before) \in Nat
    <3> HIDE DEF before
    <3> QED  BY <2>2, FS_CardinalityType
  <2>4. Cardinality(before \cup {i}) = Cardinality(before) + 1
    <3>1. IsFiniteSet(before) /\ i \notin before
      BY <2>1, <2>2
    <3> HIDE DEF before, upto
    <3>2. Cardinality(before \cup {i})
              = IF i \in before THEN Cardinality(before) ELSE Cardinality(before) + 1
      BY <3>1, FS_AddElement
    <3> QED  BY <3>1, <3>2
  <2>5. rank(i) = 1 + Cardinality(before) /\ Upto(i) = Cardinality(upto)
    BY DEF Rank
  <2> HIDE DEF before, upto, rank, Upto
  <2> QED  BY <2>1, <2>3, <2>4, <2>5
<1> HIDE DEF rank
<1>5. \A k \in 1 .. Cardinality(S) : Nth(S, k) \in S /\ rank(Nth(S, k)) = k
  <2> SUFFICES ASSUME NEW k \in 1 .. Cardinality(S)
               PROVE  Nth(S, k) \in S /\ Upto(Nth(S, k)) = k
    BY <1>4
  <2>1. \E i \in S : Upto(i) = k
    BY <1>3, <1>4
  <2>2. Nth(S, k) = CHOOSE i \in S : Upto(i) = k
    BY DEF Nth
  <2> HIDE DEF Upto
  <2> QED  BY <2>1, <2>2
<1>6. \A k, l \in 1 .. Cardinality(S) : k < l => Nth(S, k) < Nth(S, l)
  <2> SUFFICES ASSUME NEW k \in 1 .. Cardinality(S), NEW l \in 1 .. Cardinality(S), k < l
               PROVE  Nth(S, k) < Nth(S, l)
    OBVIOUS
  <2> DEFINE i == Nth(S, k)
             j == Nth(S, l)
  <2>1. i \in S /\ j \in S /\ rank(i) = k /\ rank(j) = l
    BY <1>5
  <2> HIDE DEF i, j
  <2>2. i \in Nat /\ j \in Nat /\ k \in Nat /\ l \in Nat
    BY <2>1
  <2>3. CASE j < i
    <3>1. rank(j) < rank(i)
      BY <2>1, <2>3, <1>1, <1>3
    <3> QED  BY <3>1, <2>1, <2>2
  <2>4. CASE i = j
    BY <2>1, <2>2, <2>4
  <2>5. CASE i < j
    BY <2>5 DEF i, j
  <2> QED  BY <2>2, <2>3, <2>4, <2>5
<1>7. \A i \in S : \E k \in 1 .. Cardinality(S) : Nth(S, k) = i
  <2> SUFFICES ASSUME NEW i \in S
               PROVE  \E k \in 1 .. Cardinality(S) : Nth(S, k) = i
    OBVIOUS
  <2>1. rank(i) \in 1 .. Cardinality(S)
    BY <1>3
  <2>2. Nth(S, rank(i)) \in S /\ rank(Nth(S, rank(i))) = rank(i)
    BY <2>1, <1>5
  <2>3. Nth(S, rank(i)) = i
    BY <2>2, <1>3
  <2> QED  BY <2>1, <2>3
<1>8. \A k \in 1 .. Cardinality(S) : Upto(Nth(S, k)) = k
  <2> HIDE DEF Upto
  <2> QED  BY <1>4, <1>5
<1>9. \A i, j \in S : Upto(i) = Upto(j) => i = j
  <2> HIDE DEF Upto
  <2> QED  BY <1>3, <1>4
<1> QED  BY <1>3, <1>5, <1>6, <1>7, <1>8, <1>9

LEMMA NthIsUpto ==
    ASSUME NEW S \in SUBSET Nat, IsFiniteSet(S)
    PROVE  \A k \in 1 .. Cardinality(S) :
              Nth(S, k) \in S /\ Cardinality({j \in S : j <= Nth(S, k)}) = k
BY NthIs

LEMMA NthIsOnly ==
    ASSUME NEW S \in SUBSET Nat, IsFiniteSet(S), NEW i \in S, NEW j \in S,
           Cardinality({l \in S : l <= i}) = Cardinality({l \in S : l <= j})
    PROVE  i = j
BY NthIs

(* A finite set of numbers has a least one. *)
LEMMA LeastExists ==
    ASSUME NEW S \in SUBSET Nat, IsFiniteSet(S), S # {}
    PROVE  \E i \in S : \A j \in S : i <= j
<1> DEFINE least == Nth(S, 1)
<1>1. Cardinality(S) \in Nat /\ Cardinality(S) # 0
  BY FS_CardinalityType, FS_EmptySet
<1>2. 1 \in 1 .. Cardinality(S)
  BY <1>1
<1>3. /\ \A k \in 1 .. Cardinality(S) : Nth(S, k) \in S
      /\ \A k, l \in 1 .. Cardinality(S) : k < l => Nth(S, k) < Nth(S, l)
      /\ \A i \in S : \E k \in 1 .. Cardinality(S) : Nth(S, k) = i
  BY NthIs
<1>4. least \in S
  BY <1>2, <1>3
<1>5. \A j \in S : least <= j
  <2> SUFFICES ASSUME NEW j \in S
               PROVE  least <= j
    OBVIOUS
  <2>1. PICK k \in 1 .. Cardinality(S) : Nth(S, k) = j
    BY <1>3
  <2>2. k = 1 \/ 1 < k
    BY <1>1
  <2>3. CASE k = 1
    BY <2>1, <2>3, <1>4
  <2>4. CASE 1 < k
    <3>1. \A l \in 1 .. Cardinality(S) : 1 < l => Nth(S, 1) < Nth(S, l)
      BY <1>2, <1>3
    <3>2. least < j
      BY <2>1, <2>4, <3>1
    <3>3. least \in Nat /\ j \in Nat
      BY <1>4
    <3> HIDE DEF least
    <3> QED  BY <3>2, <3>3
  <2> QED  BY <2>2, <2>3, <2>4
<1> QED  BY <1>4, <1>5

(* Two sequences that agree along a way from some places of one to some of the other that keeps
   the order: what they have there is the same sequence. *)
Matches(m, e, A, f, B) ==
    /\ m \in [A -> B]
    /\ \A j \in B : \E i \in A : m[i] = j
    /\ \A i, j \in A : i < j => m[i] < m[j]
    /\ \A i \in A : f[m[i]] = e[i]

LEMMA SamePick ==
    ASSUME NEW A \in SUBSET Nat, NEW B \in SUBSET Nat, IsFiniteSet(A), IsFiniteSet(B),
           NEW e, NEW f, NEW m, Matches(m, e, A, f, B)
    PROVE  Subsequence(f, B) = Subsequence(e, A)
<1> USE DEF Matches
<1>1. \A i, j \in A : (i <= j <=> m[i] <= m[j]) /\ (m[i] = m[j] => i = j)
  <2> SUFFICES ASSUME NEW i \in A, NEW j \in A
               PROVE  (i <= j <=> m[i] <= m[j]) /\ (m[i] = m[j] => i = j)
    OBVIOUS
  <2>1. i \in Nat /\ j \in Nat /\ m[i] \in Nat /\ m[j] \in Nat
    OBVIOUS
  <2>2. (i < j => m[i] < m[j]) /\ (j < i => m[j] < m[i])
    OBVIOUS
  <2>3. i = j => m[i] = m[j]
    OBVIOUS
  <2> QED  BY <2>1, <2>2, <2>3
<1>2. Cardinality(A) = Cardinality(B)
  <2>1. m \in Bijection(A, B)
    BY <1>1 DEF Bijection, Injection, Surjection, IsInjective
  <2> QED  BY <2>1, FS_Bijection DEF ExistsBijection
<1> DEFINE upA(i) == {j \in A : j <= i}
           upB(i) == {j \in B : j <= i}
<1>3. \A i \in A : Cardinality(upA(i)) = Cardinality(upB(m[i]))
  <2> SUFFICES ASSUME NEW i \in A
               PROVE  Cardinality(upA(i)) = Cardinality(upB(m[i]))
    OBVIOUS
  <2> DEFINE U == upA(i)
             V == upB(m[i])
             restricted == [j \in U |-> m[j]]
  <2>1. IsFiniteSet(U)
    BY FS_Subset
  <2>2. \A j \in U : m[j] \in V
    BY <1>1
  <2>3. \A l \in V : \E j \in U : m[j] = l
    BY <1>1
  <2>4. \A j, l \in U : m[j] = m[l] => j = l
    BY <1>1
  <2> HIDE DEF U, V
  <2>5. restricted \in Bijection(U, V)
    BY <2>2, <2>3, <2>4 DEF Bijection, Injection, Surjection, IsInjective
  <2>6. Cardinality(U) = Cardinality(V)
    BY <2>1, <2>5, FS_Bijection DEF ExistsBijection
  <2> QED  BY <2>6 DEF U, V
<1> DEFINE K == 1 .. Cardinality(A)
<1>4. \A k \in K : Nth(A, k) \in A
  BY NthIs
<1>5. \A k \in K : Nth(B, k) = m[Nth(A, k)]
  <2> SUFFICES ASSUME NEW k \in K
               PROVE  Nth(B, k) = m[Nth(A, k)]
    OBVIOUS
  <2>1. Nth(B, k) = CHOOSE j \in B : Cardinality(upB(j)) = k
    BY DEF Nth
  <2>2. Nth(A, k) = CHOOSE i \in A : Cardinality(upA(i)) = k
    BY DEF Nth
  <2>3. \E i \in A : Cardinality(upA(i)) = k
    <3>1. PICK i \in A : \E j \in B : m[i] = j /\ Cardinality(upB(j)) = k
      <4>1. Nth(B, k) \in B /\ Cardinality(upB(Nth(B, k))) = k
        BY <1>2, NthIsUpto
      <4> QED  BY <4>1
    <3> QED  BY <3>1, <1>3
  <2> HIDE DEF upA, upB
  <2>4. Nth(A, k) \in A /\ Cardinality(upA(Nth(A, k))) = k
    BY <2>2, <2>3
  <2>5. m[Nth(A, k)] \in B /\ Cardinality(upB(m[Nth(A, k)])) = k
    BY <2>4, <1>3
  <2>6. Nth(B, k) \in B /\ Cardinality(upB(Nth(B, k))) = k
    BY <2>1, <2>5
  <2>7. PICK i \in A : m[i] = Nth(B, k)
    BY <2>6
  <2>8. Cardinality(upA(i)) = k
    BY <2>6, <2>7, <1>3
  <2> DEFINE one == Nth(A, k)
  <2>9. Cardinality(upA(i)) = Cardinality(upA(one)) /\ one \in A
    BY <2>4, <2>8
  <2> HIDE DEF one
  <2>10. Cardinality({l \in A : l <= i}) = Cardinality({l \in A : l <= one})
    BY <2>9 DEF upA
  <2>11. i = one
    BY <2>9, <2>10, NthIsOnly
  <2> QED  BY <2>7, <2>11 DEF one
<1>6. \A k \in K : f[Nth(B, k)] = e[Nth(A, k)]
  BY <1>4, <1>5
<1> QED  BY <1>2, <1>6 DEF Subsequence

-----------------------------------------------------------------------------
(* Lists of presets. *)

PresetLists == Seq(Presets!Entries)

LEMMA SameCount ==
    ASSUME NEW S
    PROVE  Presets!Cardinality(S) = Cardinality(S)
BY DEF Presets!Cardinality, Cardinality

(* The entries of one list are those of another: where each goes, and that two of one spelling
   keep their order. *)
Rearranges(p, e, f) ==
    /\ p \in [DOMAIN e -> DOMAIN f]
    /\ \A j \in DOMAIN f : \E i \in DOMAIN e : p[i] = j
    /\ \A i, j \in DOMAIN e : p[i] = p[j] => i = j
    /\ \A i \in DOMAIN e : f[p[i]] = e[i]
    /\ \A i, j \in DOMAIN e : i < j /\ e[i].name = e[j].name => p[i] < p[j]

LEMMA ListTypes ==
    ASSUME NEW e \in PresetLists
    PROVE  /\ Len(e) \in Nat /\ DOMAIN e = 1 .. Len(e) /\ IsFiniteSet(DOMAIN e)
           /\ DOMAIN e \in SUBSET Nat
           /\ \A i \in DOMAIN e : e[i] \in Presets!Entries /\ e[i].name \in Nat
<1>1. Len(e) \in Nat /\ DOMAIN e = 1 .. Len(e)
  BY LenProperties DEF PresetLists
<1>2. IsFiniteSet(1 .. Len(e))
  BY <1>1, FS_Interval
<1>3. \A i \in 1 .. Len(e) : e[i] \in Presets!Entries
  BY ElementOfSeq DEF PresetLists
<1>4. \A entry \in Presets!Entries : entry.name \in Nat
  BY PresetsAssumption DEF Presets!Entries
<1> QED  BY <1>1, <1>2, <1>3, <1>4

(* Putting a list in order rearranges it. *)
LEMMA InOrderRearranges ==
    ASSUME NEW e \in PresetLists
    PROVE  /\ Presets!InOrder(e) \in PresetLists
           /\ Len(Presets!InOrder(e)) = Len(e)
           /\ \E p : Rearranges(p, e, Presets!InOrder(e))
<1> DEFINE D == DOMAIN e
           Before(i, j) == \/ e[i].name < e[j].name
                           \/ e[i].name = e[j].name /\ i < j
           R == {q \in D \X D : Before(q[1], q[2])}
           spot(i) == 1 + Presets!Cardinality({j \in D : Before(j, i)})
           f == [k \in D |-> e[CHOOSE i \in D : spot(i) = k]]
           p == [i \in D |-> spot(i)]
<1>1. Len(e) \in Nat /\ D = 1 .. Len(e) /\ IsFiniteSet(D) /\ D \in SUBSET Nat
  BY ListTypes
<1>2. \A i \in D : e[i] \in Presets!Entries /\ e[i].name \in Nat
  BY ListTypes
<1>3. \A i, j \in D : <<i, j>> \in R <=> Before(i, j)
  OBVIOUS
<1>4. Orders(R, D)
  <2> HIDE DEF R, D
  <2>1. \A i \in D : <<i, i>> \notin R
    BY <1>1, <1>2, <1>3
  <2>2. \A i, j, k \in D : <<i, j>> \in R /\ <<j, k>> \in R => <<i, k>> \in R
    <3> SUFFICES ASSUME NEW i \in D, NEW j \in D, NEW k \in D, Before(i, j), Before(j, k)
                 PROVE  Before(i, k)
      BY <1>3
    <3>1. i \in Nat /\ j \in Nat /\ k \in Nat
      BY <1>1
    <3>2. e[i].name \in Nat /\ e[j].name \in Nat /\ e[k].name \in Nat
      BY <1>2
    <3> QED  BY <3>1, <3>2
  <2>3. \A i, j \in D : i = j \/ <<i, j>> \in R \/ <<j, i>> \in R
    <3> SUFFICES ASSUME NEW i \in D, NEW j \in D
                 PROVE  i = j \/ Before(i, j) \/ Before(j, i)
      BY <1>3
    <3>1. i \in Nat /\ j \in Nat
      BY <1>1
    <3>2. e[i].name \in Nat /\ e[j].name \in Nat
      BY <1>2
    <3> QED  BY <3>1, <3>2
  <2> QED  BY <2>1, <2>2, <2>3 DEF Orders
<1>5. \A i \in D : spot(i) = Rank(D, R, i)
  <2> SUFFICES ASSUME NEW i \in D
               PROVE  {j \in D : Before(j, i)} = {j \in D : <<j, i>> \in R}
    BY SameCount DEF Rank
  <2> QED  BY <1>3
<1>6. Presets!InOrder(e) = f
  BY DEF Presets!InOrder
<1> HIDE DEF R, D, Before
<1>7. Cardinality(D) = Len(e)
  BY <1>1, FS_Interval
<1>8. \A i \in D : Rank(D, R, i) \in D
  <2>1. \A i \in D : Rank(D, R, i) \in 1 .. Cardinality(D)
    BY <1>1, <1>4, Ranks
  <2> QED  BY <1>1, <1>7, <2>1
<1>9. \A k \in D : \E i \in D : Rank(D, R, i) = k
  <2>1. \A k \in 1 .. Cardinality(D) : \E i \in D : Rank(D, R, i) = k
    BY <1>1, <1>4, RanksAreTaken
  <2> QED  BY <1>1, <1>7, <2>1
<1>10. \A i, j \in D : <<i, j>> \in R => Rank(D, R, i) < Rank(D, R, j)
  BY <1>1, <1>4, Ranks
<1>11. \A i, j \in D : Rank(D, R, i) = Rank(D, R, j) => i = j
  BY <1>1, <1>4, Ranks
<1>12. \A i, j \in D : i < j /\ e[i].name = e[j].name => spot(i) < spot(j)
  <2> HIDE DEF spot
  <2> QED  BY <1>3, <1>5, <1>10 DEF Before
<1> HIDE DEF spot
<1>13. \A i \in D : p[i] = spot(i) /\ spot(i) \in D
  BY <1>5, <1>8
<1>14. \A k \in D : \E i \in D : p[i] = k
  BY <1>5, <1>9, <1>13
<1>15. \A i, j \in D : p[i] = p[j] => i = j
  BY <1>5, <1>11, <1>13
<1>16. \A i \in D : f[p[i]] = e[i]
  <2> SUFFICES ASSUME NEW i \in D
               PROVE  (CHOOSE j \in D : spot(j) = spot(i)) = i
    BY <1>13
  <2> QED  BY <1>13, <1>15
<1>17. \A i, j \in D : i < j /\ e[i].name = e[j].name => p[i] < p[j]
  BY <1>12, <1>13
<1>18. \A k \in D : f[k] \in Presets!Entries
  <2> HIDE DEF f, p
  <2> QED  BY <1>2, <1>14, <1>16
<1>19. f \in PresetLists /\ Len(f) = Len(e) /\ DOMAIN f = D
  <2>1. f = [k \in 1 .. Len(e) |-> f[k]]
    BY <1>1
  <2>2. \A k \in 1 .. Len(e) : f[k] \in Presets!Entries
    BY <1>1, <1>18
  <2>3. DOMAIN f = D
    OBVIOUS
  <2> HIDE DEF f
  <2>4. f \in PresetLists
    BY <1>1, <2>1, <2>2 DEF PresetLists
  <2>5. Len(f) = Len(e)
    BY <1>1, <2>3, <2>4, LenProperties DEF PresetLists
  <2> QED  BY <2>3, <2>4, <2>5
<1>20. p \in [DOMAIN e -> DOMAIN f]
  BY <1>13, <1>19 DEF D
<1> HIDE DEF f, p
<1>21. Rearranges(p, e, f)
  BY <1>14, <1>15, <1>16, <1>17, <1>19, <1>20 DEF Rearranges, D
<1> QED  BY <1>6, <1>19, <1>21

LEMMA RearrangedSaysTheSame ==
    ASSUME NEW e \in PresetLists, NEW f \in PresetLists, NEW p, Rearranges(p, e, f), NEW fold
    PROVE  Presets!SaidOf(f, fold) = Presets!SaidOf(e, fold)
<1> DEFINE ofFold(list) == {j \in DOMAIN list :
                                list[j].name # Nameless /\ Fold[list[j].name] = fold}
<1>1. \A i \in DOMAIN e : p[i] \in DOMAIN f /\ f[p[i]] = e[i]
  BY DEF Rearranges
<1>2. \A j \in DOMAIN f : \E i \in DOMAIN e : p[i] = j
  BY DEF Rearranges
<1>3. \A i \in ofFold(e) : \E j \in ofFold(f) : f[j] = e[i]
  BY <1>1
<1>4. \A j \in ofFold(f) : \E i \in ofFold(e) : f[j] = e[i]
  <2> SUFFICES ASSUME NEW j \in ofFold(f)
               PROVE  \E i \in ofFold(e) : f[j] = e[i]
    OBVIOUS
  <2>1. PICK i \in DOMAIN e : p[i] = j
    BY <1>2
  <2>2. f[j] = e[i]
    BY <1>1, <2>1
  <2> QED  BY <2>1, <2>2
<1>5. Presets!SaidOf(f, fold) = {f[j] : j \in ofFold(f)}
      /\ Presets!SaidOf(e, fold) = {e[i] : i \in ofFold(e)}
  BY DEF Presets!SaidOf
<1> HIDE DEF ofFold
<1> QED  BY <1>3, <1>4, <1>5

(* The entries without a name, and where they are. *)
UnnamedPlaces(e) == {i \in DOMAIN e : e[i].name = Nameless}

LEMMA UnnamedIs ==
    ASSUME NEW e \in PresetLists
    PROVE  /\ Presets!Unnamed(e) = Subsequence(e, UnnamedPlaces(e))
           /\ UnnamedPlaces(e) \in SUBSET Nat /\ IsFiniteSet(UnnamedPlaces(e))
<1>1. UnnamedPlaces(e) \in SUBSET Nat /\ IsFiniteSet(UnnamedPlaces(e))
  <2>1. UnnamedPlaces(e) \in SUBSET DOMAIN e
    BY DEF UnnamedPlaces
  <2> QED  BY <2>1, ListTypes, FS_Subset
<1>2. ASSUME NEW S, NEW k
      PROVE  Presets!Nth(S, k) = Nth(S, k)
  BY SameCount DEF Presets!Nth, Nth
<1>3. ASSUME NEW S
      PROVE  Presets!Subsequence(e, S) = Subsequence(e, S)
  BY <1>2, SameCount DEF Presets!Subsequence, Subsequence
<1>4. Presets!Unnamed(e) = Presets!Subsequence(e, UnnamedPlaces(e))
  BY DEF Presets!Unnamed, UnnamedPlaces
<1> QED  BY <1>1, <1>3, <1>4

(* Lists agree on the entries without a name when something carries those of one to those of the
   other, in order. *)
LEMMA SameUnnamed ==
    ASSUME NEW e \in PresetLists, NEW f \in PresetLists, NEW m,
           Matches(m, e, UnnamedPlaces(e), f, UnnamedPlaces(f))
    PROVE  Presets!Unnamed(f) = Presets!Unnamed(e)
<1>1. UnnamedPlaces(e) \in SUBSET Nat /\ IsFiniteSet(UnnamedPlaces(e))
  BY UnnamedIs
<1>2. UnnamedPlaces(f) \in SUBSET Nat /\ IsFiniteSet(UnnamedPlaces(f))
  BY UnnamedIs
<1>3. Subsequence(f, UnnamedPlaces(f)) = Subsequence(e, UnnamedPlaces(e))
  BY <1>1, <1>2, SamePick
<1> QED  BY <1>3, UnnamedIs

LEMMA RearrangedUnnamed ==
    ASSUME NEW e \in PresetLists, NEW f \in PresetLists, NEW p, Rearranges(p, e, f)
    PROVE  Presets!Unnamed(f) = Presets!Unnamed(e)
<1> DEFINE m == [i \in UnnamedPlaces(e) |-> p[i]]
<1>1. \A i \in DOMAIN e : p[i] \in DOMAIN f /\ f[p[i]] = e[i]
  BY DEF Rearranges
<1>2. \A j \in DOMAIN f : \E i \in DOMAIN e : p[i] = j
  BY DEF Rearranges
<1>3. m \in [UnnamedPlaces(e) -> UnnamedPlaces(f)]
  BY <1>1 DEF UnnamedPlaces
<1>4. \A j \in UnnamedPlaces(f) : \E i \in UnnamedPlaces(e) : m[i] = j
  BY <1>1, <1>2 DEF UnnamedPlaces
<1>5. \A i, j \in UnnamedPlaces(e) : i < j => m[i] < m[j]
  BY DEF UnnamedPlaces, Rearranges
<1>6. \A i \in UnnamedPlaces(e) : f[m[i]] = e[i]
  BY <1>1 DEF UnnamedPlaces
<1> HIDE DEF m
<1>7. Matches(m, e, UnnamedPlaces(e), f, UnnamedPlaces(f))
  BY <1>3, <1>4, <1>5, <1>6 DEF Matches
<1> QED  BY <1>7, SameUnnamed

(* The preset of a name that one entry has is that entry, wherever it went. *)
LEMMA RearrangedPreset ==
    ASSUME NEW e \in PresetLists, NEW f \in PresetLists, NEW p, Rearranges(p, e, f), NEW name,
           NEW x \in Presets!Named(e, name),
           Presets!Cardinality(Presets!Named(f, name)) = 1
    PROVE  Presets!Preset(f, name) = e[x]
<1> DEFINE S == Presets!Named(f, name)
<1>1. x \in DOMAIN e /\ p[x] \in DOMAIN f /\ f[p[x]] = e[x]
  BY DEF Rearranges, Presets!Named
<1>2. p[x] \in S
  BY <1>1 DEF Presets!Named
<1>3. IsFiniteSet(S) /\ S \in SUBSET Nat
  <2>1. S \in SUBSET DOMAIN f
    BY DEF Presets!Named
  <2> HIDE DEF S
  <2> QED  BY <2>1, ListTypes, FS_Subset
<1>4. Cardinality(S) = 1
  BY SameCount
<1> HIDE DEF S
<1>5. S = {p[x]}
  BY <1>2, <1>3, <1>4, FS_Singleton
<1>6. Presets!Min(S) = p[x]
  BY <1>3, <1>5 DEF Presets!Min
<1>7. Presets!First(f, name) = p[x]
  BY <1>6 DEF Presets!First, S
<1>8. Presets!Preset(f, name) = f[p[x]]
  BY <1>5, <1>7 DEF Presets!Preset, S
<1> QED  BY <1>1, <1>8

(* The first entry of a name has the name. *)
LEMMA FirstIsNamed ==
    ASSUME NEW e \in PresetLists, NEW name, Presets!Named(e, name) # {}
    PROVE  /\ Presets!First(e, name) \in Presets!Named(e, name)
           /\ Presets!First(e, name) \in DOMAIN e
<1> DEFINE S == Presets!Named(e, name)
<1>1. S \in SUBSET DOMAIN e
  BY DEF Presets!Named
<1>2. Presets!First(e, name) = Presets!Min(S) /\ S # {}
  BY DEF Presets!First
<1> HIDE DEF S
<1>3. IsFiniteSet(S) /\ S \in SUBSET Nat
  BY <1>1, ListTypes, FS_Subset
<1>4. \E i \in S : \A j \in S : i <= j
  BY <1>2, <1>3, LeastExists
<1>5. Presets!Min(S) \in S
  BY <1>4 DEF Presets!Min
<1> QED  BY <1>1, <1>2, <1>5 DEF S

(* Where a list speaks of a name. *)
SaidPlaces(e, fold) == {j \in DOMAIN e : e[j].name # Nameless /\ Fold[e[j].name] = fold}

LEMMA SameSaid ==
    ASSUME NEW e, NEW f, NEW fold,
           \A i \in SaidPlaces(e, fold) : \E j \in SaidPlaces(f, fold) : f[j] = e[i],
           \A j \in SaidPlaces(f, fold) : \E i \in SaidPlaces(e, fold) : e[i] = f[j]
    PROVE  Presets!SaidOf(f, fold) = Presets!SaidOf(e, fold)
<1>1. /\ Presets!SaidOf(f, fold) = {f[j] : j \in SaidPlaces(f, fold)}
      /\ Presets!SaidOf(e, fold) = {e[i] : i \in SaidPlaces(e, fold)}
  BY DEF Presets!SaidOf, SaidPlaces
<1> QED  BY <1>1

(* An entry more: nothing else is changed. *)
LEMMA AppendKeeps ==
    ASSUME NEW e \in PresetLists, NEW entry \in Presets!Entries, entry.name # Nameless
    PROVE  /\ Append(e, entry) \in PresetLists
           /\ Len(Append(e, entry)) = Len(e) + 1
           /\ Len(e) + 1 \in DOMAIN Append(e, entry) /\ Append(e, entry)[Len(e) + 1] = entry
           /\ Presets!Unnamed(Append(e, entry)) = Presets!Unnamed(e)
           /\ \A fold : fold # Fold[entry.name] =>
                 Presets!SaidOf(Append(e, entry), fold) = Presets!SaidOf(e, fold)
<1> DEFINE f == Append(e, entry)
           n == Len(e)
<1>1. /\ f \in PresetLists /\ Len(f) = n + 1
      /\ \A i \in 1 .. n : f[i] = e[i]
      /\ f[n + 1] = entry
  BY AppendProperties DEF PresetLists
<1>2. n \in Nat /\ DOMAIN e = 1 .. n
  BY ListTypes
<1> HIDE DEF f, n
<1>3. DOMAIN f = 1 .. n + 1
  BY <1>1, ListTypes
<1>4. \A i \in DOMAIN e : i \in DOMAIN f /\ f[i] = e[i]
  BY <1>1, <1>2, <1>3
<1>5. \A j \in DOMAIN f : j = n + 1 \/ j \in DOMAIN e
  BY <1>2, <1>3
<1>6. Presets!Unnamed(f) = Presets!Unnamed(e)
  <2>1. UnnamedPlaces(f) = UnnamedPlaces(e)
    BY <1>1, <1>4, <1>5 DEF UnnamedPlaces
  <2> DEFINE m == [i \in UnnamedPlaces(e) |-> i]
  <2>2. Matches(m, e, UnnamedPlaces(e), f, UnnamedPlaces(f))
    <3>1. \A i \in UnnamedPlaces(e) : m[i] = i /\ f[i] = e[i]
      BY <1>4 DEF UnnamedPlaces
    <3>2. m \in [UnnamedPlaces(e) -> UnnamedPlaces(f)]
      BY <2>1
    <3> HIDE DEF m
    <3> QED  BY <2>1, <3>1, <3>2 DEF Matches
  <2> HIDE DEF m
  <2> QED  BY <1>1, <2>2, SameUnnamed
<1>7. ASSUME NEW fold, fold # Fold[entry.name]
      PROVE  Presets!SaidOf(f, fold) = Presets!SaidOf(e, fold)
  <2>1. SaidPlaces(f, fold) = SaidPlaces(e, fold)
    BY <1>1, <1>4, <1>5, <1>7 DEF SaidPlaces
  <2>2. \A i \in SaidPlaces(e, fold) : f[i] = e[i]
    BY <1>4 DEF SaidPlaces
  <2> QED  BY <2>1, <2>2, SameSaid
<1>8. n + 1 \in DOMAIN f
  BY <1>2, <1>3
<1> QED  BY <1>1, <1>6, <1>7, <1>8 DEF f, n

(* Another entry in the place of one that has a name. *)
LEMMA ReplaceKeeps ==
    ASSUME NEW e \in PresetLists, NEW x \in DOMAIN e, NEW entry \in Presets!Entries,
           e[x].name # Nameless, entry.name # Nameless
    PROVE  /\ Presets!ReplaceAt(e, x, entry) \in PresetLists
           /\ Len(Presets!ReplaceAt(e, x, entry)) = Len(e)
           /\ x \in DOMAIN Presets!ReplaceAt(e, x, entry)
           /\ Presets!ReplaceAt(e, x, entry)[x] = entry
           /\ Presets!Unnamed(Presets!ReplaceAt(e, x, entry)) = Presets!Unnamed(e)
           /\ \A fold : fold \notin {Fold[e[x].name], Fold[entry.name]} =>
                 Presets!SaidOf(Presets!ReplaceAt(e, x, entry), fold) = Presets!SaidOf(e, fold)
<1> DEFINE f == Presets!ReplaceAt(e, x, entry)
<1>1. f = [e EXCEPT ![x] = entry]
  BY DEF Presets!ReplaceAt
<1>2. Len(e) \in Nat /\ DOMAIN e = 1 .. Len(e)
  BY ListTypes
<1>3. f \in PresetLists /\ Len(f) = Len(e)
  BY <1>1, <1>2, ExceptSeq DEF PresetLists
<1>4. DOMAIN f = DOMAIN e
  BY <1>1
<1>5. f[x] = entry /\ \A i \in DOMAIN e : i # x => f[i] = e[i]
  BY <1>1
<1> HIDE DEF f
<1>6. Presets!Unnamed(f) = Presets!Unnamed(e)
  <2>1. UnnamedPlaces(f) = UnnamedPlaces(e) /\ x \notin UnnamedPlaces(e)
    BY <1>4, <1>5 DEF UnnamedPlaces
  <2> DEFINE m == [i \in UnnamedPlaces(e) |-> i]
  <2>2. Matches(m, e, UnnamedPlaces(e), f, UnnamedPlaces(f))
    <3>1. \A i \in UnnamedPlaces(e) : m[i] = i /\ f[i] = e[i]
      BY <1>5, <2>1 DEF UnnamedPlaces
    <3>2. m \in [UnnamedPlaces(e) -> UnnamedPlaces(f)]
      BY <2>1
    <3> HIDE DEF m
    <3> QED  BY <2>1, <3>1, <3>2 DEF Matches
  <2> HIDE DEF m
  <2> QED  BY <1>3, <2>2, SameUnnamed
<1>7. ASSUME NEW fold, fold \notin {Fold[e[x].name], Fold[entry.name]}
      PROVE  Presets!SaidOf(f, fold) = Presets!SaidOf(e, fold)
  <2>1. SaidPlaces(f, fold) = SaidPlaces(e, fold) /\ x \notin SaidPlaces(e, fold)
    BY <1>4, <1>5, <1>7 DEF SaidPlaces
  <2>2. \A i \in SaidPlaces(e, fold) : f[i] = e[i]
    BY <1>5, <2>1 DEF SaidPlaces
  <2> QED  BY <2>1, <2>2, SameSaid
<1> QED  BY <1>3, <1>4, <1>5, <1>6, <1>7 DEF f

(* One that has a name less. *)
LEMMA RemoveKeeps ==
    ASSUME NEW e \in PresetLists, NEW x \in DOMAIN e, e[x].name # Nameless
    PROVE  /\ Presets!RemoveAt(e, x) \in PresetLists
           /\ Len(Presets!RemoveAt(e, x)) = Len(e) - 1
           /\ Presets!Unnamed(Presets!RemoveAt(e, x)) = Presets!Unnamed(e)
           /\ \A fold : fold # Fold[e[x].name] =>
                 Presets!SaidOf(Presets!RemoveAt(e, x), fold) = Presets!SaidOf(e, fold)
<1> DEFINE f == Presets!RemoveAt(e, x)
           n == Len(e)
           front == SubSeq(e, 1, x - 1)
           back == SubSeq(e, x + 1, n)
           after(i) == IF i < x THEN i ELSE i - 1
<1>1. n \in Nat /\ DOMAIN e = 1 .. n /\ \A i \in 1 .. n : e[i] \in Presets!Entries
  BY ListTypes
<1>2. f = front \o back
  BY DEF Presets!RemoveAt
<1>3. /\ front \in PresetLists /\ Len(front) = x - 1
      /\ \A i \in 1 .. x - 1 : front[i] = e[i]
  <2>1. 1 \in Int /\ x - 1 \in Int /\ \A i \in 1 .. x - 1 : e[i] \in Presets!Entries
    BY <1>1
  <2> DEFINE last == x - 1
  <2> HIDE DEF n
  <2>2. /\ SubSeq(e, 1, last) \in Seq(Presets!Entries)
        /\ Len(SubSeq(e, 1, last)) = IF 1 <= last THEN last - 1 + 1 ELSE 0
        /\ \A i \in 1 .. last - 1 + 1 : SubSeq(e, 1, last)[i] = e[1 + i - 1]
    <3> HIDE DEF last
    <3>1. 1 \in Int /\ last \in Int /\ \A i \in 1 .. last : e[i] \in Presets!Entries
      BY <2>1 DEF last
    <3> QED  BY <3>1, SubSeqProperties
  <2>3. x \in Nat /\ x >= 1
    BY <1>1
  <2> HIDE DEF front
  <2>4. front = SubSeq(e, 1, last)
    BY DEF front
  <2>5. \A i \in 1 .. x - 1 : i \in 1 .. last - 1 + 1 /\ 1 + i - 1 = i
    BY <2>3
  <2> QED  BY <2>2, <2>3, <2>4, <2>5 DEF PresetLists
<1>4. /\ back \in PresetLists /\ Len(back) = n - x
      /\ \A i \in 1 .. n - x : back[i] = e[x + i]
  <2> DEFINE next == x + 1
  <2> HIDE DEF n
  <2>1. next \in Int /\ n \in Int /\ \A i \in next .. n : e[i] \in Presets!Entries
    BY <1>1
  <2>2. /\ SubSeq(e, next, n) \in Seq(Presets!Entries)
        /\ Len(SubSeq(e, next, n)) = IF next <= n THEN n - next + 1 ELSE 0
        /\ \A i \in 1 .. n - next + 1 : SubSeq(e, next, n)[i] = e[next + i - 1]
    <3> HIDE DEF next
    <3> QED  BY <2>1, SubSeqProperties
  <2>3. x \in Nat /\ x >= 1 /\ x <= n
    BY <1>1
  <2> HIDE DEF back
  <2>4. back = SubSeq(e, next, n)
    BY DEF back
  <2>5. \A i \in 1 .. n - x : i \in 1 .. n - next + 1 /\ next + i - 1 = x + i
    BY <1>1, <2>3
  <2>6. Len(back) = n - x
    BY <1>1, <2>2, <2>3, <2>4
  <2> QED  BY <2>2, <2>4, <2>5, <2>6 DEF PresetLists
<1>5. /\ f \in PresetLists /\ Len(f) = n - 1
      /\ \A k \in 1 .. n - 1 : f[k] = IF k < x THEN e[k] ELSE e[k + 1]
  <2> HIDE DEF front, back, n, f
  <2>1. /\ front \o back \in Seq(Presets!Entries)
        /\ Len(front \o back) = Len(front) + Len(back)
        /\ \A i \in 1 .. Len(front) + Len(back) : (front \o back)[i] =
                  IF i <= Len(front) THEN front[i] ELSE back[i - Len(front)]
    BY <1>3, <1>4, ConcatProperties DEF PresetLists
  <2>2. x \in Nat /\ x >= 1 /\ x <= n
    BY <1>1
  <2>3. Len(front) + Len(back) = n - 1
    BY <1>1, <1>3, <1>4, <2>2
  <2>4. ASSUME NEW k \in 1 .. n - 1
        PROVE  f[k] = IF k < x THEN e[k] ELSE e[k + 1]
    <3>1. f[k] = IF k <= x - 1 THEN front[k] ELSE back[k - (x - 1)]
      BY <1>2, <1>3, <2>1, <2>3
    <3>2. CASE k < x
      <4>1. k \in 1 .. x - 1
        BY <1>1, <2>2, <3>2
      <4> QED  BY <1>1, <1>3, <2>2, <3>1, <3>2, <4>1
    <3>3. CASE ~(k < x)
      <4>1. k - (x - 1) \in 1 .. n - x /\ ~(k <= x - 1) /\ x + (k - (x - 1)) = k + 1
        BY <1>1, <2>2, <3>3
      <4>2. back[k - (x - 1)] = e[x + (k - (x - 1))]
        BY <1>4, <4>1
      <4> QED  BY <3>1, <3>3, <4>1, <4>2
    <3> QED  BY <3>2, <3>3
  <2> QED  BY <1>2, <2>1, <2>3, <2>4 DEF PresetLists
<1>6. x \in 1 .. n /\ x \in Nat
  BY <1>1
<1> HIDE DEF front, back, n, f
<1>7. DOMAIN f = 1 .. n - 1
  BY <1>5, ListTypes
<1>8. \A i \in 1 .. n : i # x => after(i) \in DOMAIN f /\ f[after(i)] = e[i]
  <2> SUFFICES ASSUME NEW i \in 1 .. n, i # x
               PROVE  after(i) \in DOMAIN f /\ f[after(i)] = e[i]
    OBVIOUS
  <2>1. CASE i < x
    <3>1. after(i) = i /\ i \in 1 .. n - 1
      BY <1>1, <1>6, <2>1
    <3> QED  BY <1>5, <1>7, <2>1, <3>1
  <2>2. CASE ~(i < x)
    <3> DEFINE k == i - 1
    <3>1. after(i) = k /\ k \in 1 .. n - 1 /\ ~(k < x) /\ k + 1 = i
      BY <1>1, <1>6, <2>2
    <3> HIDE DEF k, after
    <3> QED  BY <1>5, <1>7, <3>1
  <2> QED  BY <2>1, <2>2
<1>9. \A j \in DOMAIN f : \E i \in 1 .. n : i # x /\ after(i) = j
  <2> SUFFICES ASSUME NEW j \in 1 .. n - 1
               PROVE  \E i \in 1 .. n : i # x /\ after(i) = j
    BY <1>7
  <2>1. CASE j < x
    <3>1. j \in 1 .. n /\ j # x /\ after(j) = j
      BY <1>1, <1>6, <2>1
    <3> QED  BY <3>1
  <2>2. CASE ~(j < x)
    <3>1. j + 1 \in 1 .. n /\ j + 1 # x /\ after(j + 1) = j
      BY <1>1, <1>6, <2>2
    <3> QED  BY <3>1
  <2> QED  BY <2>1, <2>2
<1>10. \A i, j \in 1 .. n : i # x /\ j # x /\ i < j => after(i) < after(j)
  BY <1>1, <1>6
<1> HIDE DEF after
<1>11. Presets!Unnamed(f) = Presets!Unnamed(e)
  <2> DEFINE m == [i \in UnnamedPlaces(e) |-> after(i)]
  <2>1. \A i \in UnnamedPlaces(e) : m[i] = after(i) /\ i \in 1 .. n /\ i # x
    BY <1>1 DEF UnnamedPlaces
  <2>2. \A i \in UnnamedPlaces(e) : after(i) \in UnnamedPlaces(f)
    BY <1>8, <2>1 DEF UnnamedPlaces
  <2>3. m \in [UnnamedPlaces(e) -> UnnamedPlaces(f)]
    BY <2>1, <2>2
  <2> HIDE DEF m
  <2>4. \A j \in UnnamedPlaces(f) : \E i \in UnnamedPlaces(e) : m[i] = j
    <3> SUFFICES ASSUME NEW j \in UnnamedPlaces(f)
                 PROVE  \E i \in UnnamedPlaces(e) : m[i] = j
      OBVIOUS
    <3>1. PICK i \in 1 .. n : i # x /\ after(i) = j
      BY <1>9 DEF UnnamedPlaces
    <3>2. i \in UnnamedPlaces(e)
      BY <1>1, <1>8, <3>1 DEF UnnamedPlaces
    <3> QED  BY <2>1, <3>1, <3>2
  <2>5. \A i, j \in UnnamedPlaces(e) : i < j => m[i] < m[j]
    BY <1>10, <2>1
  <2>6. \A i \in UnnamedPlaces(e) : f[m[i]] = e[i]
    BY <1>8, <2>1
  <2>7. Matches(m, e, UnnamedPlaces(e), f, UnnamedPlaces(f))
    BY <2>3, <2>4, <2>5, <2>6 DEF Matches
  <2> QED  BY <1>5, <2>7, SameUnnamed
<1>12. ASSUME NEW fold, fold # Fold[e[x].name]
       PROVE  Presets!SaidOf(f, fold) = Presets!SaidOf(e, fold)
  <2>1. \A i \in SaidPlaces(e, fold) : \E j \in SaidPlaces(f, fold) : f[j] = e[i]
    <3> SUFFICES ASSUME NEW i \in SaidPlaces(e, fold)
                 PROVE  \E j \in SaidPlaces(f, fold) : f[j] = e[i]
      OBVIOUS
    <3>1. i \in 1 .. n /\ i # x
      BY <1>1, <1>12 DEF SaidPlaces
    <3>2. after(i) \in DOMAIN f /\ f[after(i)] = e[i]
      BY <1>8, <3>1
    <3> QED  BY <3>2 DEF SaidPlaces
  <2>2. \A j \in SaidPlaces(f, fold) : \E i \in SaidPlaces(e, fold) : e[i] = f[j]
    <3> SUFFICES ASSUME NEW j \in SaidPlaces(f, fold)
                 PROVE  \E i \in SaidPlaces(e, fold) : e[i] = f[j]
      OBVIOUS
    <3>1. PICK i \in 1 .. n : i # x /\ after(i) = j
      BY <1>9 DEF SaidPlaces
    <3>2. f[j] = e[i]
      BY <1>8, <3>1
    <3> QED  BY <1>1, <3>1, <3>2 DEF SaidPlaces
  <2> QED  BY <2>1, <2>2, SameSaid
<1> QED  BY <1>5, <1>11, <1>12 DEF f, n

-----------------------------------------------------------------------------
(* Changes to a list of presets. *)

Changes == Presets!Saves \cup Presets!Renames \cup Presets!Removals

(* What a change to a list has to come to, once the list is put in order. *)
ComesTo(c, e, f) ==
    /\ \A fold : fold \notin Presets!Touched(c) =>
          Presets!SaidOf(f, fold) = Presets!SaidOf(e, fold)
    /\ Presets!Unnamed(f) = Presets!Unnamed(e)
    /\ Presets!Fulfilled(c, e, f)

(* Putting in order does not change what a list says. *)
LEMMA InOrderKeeps ==
    ASSUME NEW g \in PresetLists
    PROVE  /\ Presets!InOrder(g) \in PresetLists /\ Len(Presets!InOrder(g)) = Len(g)
           /\ \A fold : Presets!SaidOf(Presets!InOrder(g), fold) = Presets!SaidOf(g, fold)
           /\ Presets!Unnamed(Presets!InOrder(g)) = Presets!Unnamed(g)
           /\ \A name : \A x \in Presets!Named(g, name) :
                 Presets!Cardinality(Presets!Named(Presets!InOrder(g), name)) = 1 =>
                     Presets!Preset(Presets!InOrder(g), name) = g[x]
<1> DEFINE f == Presets!InOrder(g)
<1>1. f \in PresetLists /\ Len(f) = Len(g)
  BY InOrderRearranges
<1>2. PICK p : Rearranges(p, g, f)
  BY InOrderRearranges
<1> HIDE DEF f
<1>3. \A fold : Presets!SaidOf(f, fold) = Presets!SaidOf(g, fold)
  BY <1>1, <1>2, RearrangedSaysTheSame
<1>4. Presets!Unnamed(f) = Presets!Unnamed(g)
  BY <1>1, <1>2, RearrangedUnnamed
<1>5. ASSUME NEW name, NEW x \in Presets!Named(g, name),
             Presets!Cardinality(Presets!Named(f, name)) = 1
      PROVE  Presets!Preset(f, name) = g[x]
  BY <1>1, <1>2, <1>5, RearrangedPreset
<1> QED  BY <1>1, <1>3, <1>4, <1>5 DEF f

(* The first entry of a name that this arraw gives, when there is one. *)
LEMMA FoundOfName ==
    ASSUME NEW e \in PresetLists, NEW name \in Spellings, Presets!Named(e, name) # {}
    PROVE  /\ Presets!First(e, name) \in DOMAIN e
           /\ e[Presets!First(e, name)] \in Presets!Entries
           /\ e[Presets!First(e, name)].name # Nameless
           /\ Fold[e[Presets!First(e, name)].name] = Fold[name]
           /\ Presets!Preset(e, name) = e[Presets!First(e, name)]
<1>1. Presets!First(e, name) \in DOMAIN e /\ Presets!First(e, name) \in Presets!Named(e, name)
  BY FirstIsNamed
<1>2. e[Presets!First(e, name)] \in Presets!Entries
  BY <1>1, ListTypes
<1>3. /\ e[Presets!First(e, name)].name # Nameless
      /\ Fold[e[Presets!First(e, name)].name] = Fold[name]
  BY <1>1 DEF Presets!Named, Presets!SameName
<1>4. Presets!Preset(e, name) = e[Presets!First(e, name)]
  BY DEF Presets!Preset
<1> QED  BY <1>1, <1>2, <1>3, <1>4

LEMMA SaveComesTo ==
    ASSUME NEW e \in PresetLists, NEW c \in Presets!Saves
    PROVE  /\ Presets!InOrder(Presets!Changed(c, e)) \in PresetLists
           /\ ComesTo(c, e, Presets!InOrder(Presets!Changed(c, e)))
<1> DEFINE g == Presets!Changed(c, e)
           f == Presets!InOrder(g)
           old == Presets!Preset(e, c.name)
           first == Presets!First(e, c.name)
           entry(extra) == Presets!Entry(c.name, c.settings, extra)
<1>1. c.kind = "save" /\ c.name \in Spellings /\ c.settings \in Settings
  BY DEF Presets!Saves
<1>2. c.name # Nameless
  BY <1>1, PresetsAssumption
<1>3. \A extra \in BOOLEAN : entry(extra) \in Presets!Entries /\ entry(extra).name = c.name
  BY <1>1 DEF Presets!Entries, Presets!Entry
<1>4. Presets!Touched(c) = {Fold[c.name]}
  BY <1>1 DEF Presets!Touched
<1>5. \E extra \in BOOLEAN : \E x \in DOMAIN g :
         /\ g \in PresetLists
         /\ Len(g) = Len(e) + IF old = None THEN 1 ELSE 0
         /\ extra = (old # None /\ old.extra)
         /\ g[x] = entry(extra)
         /\ Presets!Unnamed(g) = Presets!Unnamed(e)
         /\ \A fold : fold # Fold[c.name] =>
               Presets!SaidOf(g, fold) = Presets!SaidOf(e, fold)
  <2>1. CASE Presets!Named(e, c.name) = {}
    <3> DEFINE off == FALSE
    <3>1. g = Append(e, entry(off))
      BY <1>1, <2>1, Zenon DEF Presets!Changed
    <3>2. old = None
      BY <2>1 DEF Presets!Preset
    <3>3. off = (old # None /\ old.extra)
      BY <3>2
    <3>4. entry(off) \in Presets!Entries /\ entry(off).name = c.name
      BY <1>3
    <3>5. Len(e) + 1 = Len(e) + IF old = None THEN 1 ELSE 0
      BY <3>2
    <3>6. off \in BOOLEAN
      OBVIOUS
    <3> HIDE DEF g, old, entry, off
    <3>7. /\ g \in PresetLists
          /\ Len(g) = Len(e) + 1
          /\ Len(e) + 1 \in DOMAIN g /\ g[Len(e) + 1] = entry(off)
          /\ Presets!Unnamed(g) = Presets!Unnamed(e)
          /\ \A fold : fold # Fold[c.name] =>
                Presets!SaidOf(g, fold) = Presets!SaidOf(e, fold)
      BY <1>2, <3>1, <3>4, AppendKeeps
    <3> QED  BY <3>3, <3>5, <3>6, <3>7
  <2>2. CASE Presets!Named(e, c.name) # {}
    <3> DEFINE extra == e[first].extra
    <3>1. g = Presets!ReplaceAt(e, first, entry(extra))
      BY <1>1, <2>2, Zenon DEF Presets!Changed
    <3>2. /\ first \in DOMAIN e /\ e[first] \in Presets!Entries
          /\ e[first].name # Nameless /\ Fold[e[first].name] = Fold[c.name]
          /\ old = e[first]
      BY <1>1, <2>2, FoundOfName
    <3>3. old # None /\ extra \in BOOLEAN /\ old.extra = extra
      BY <3>2, PresetsAssumption DEF Presets!Entries
    <3>4. extra = (old # None /\ old.extra)
      BY <3>3
    <3>5. entry(extra) \in Presets!Entries /\ entry(extra).name = c.name
      BY <1>3, <3>3
    <3>6. Len(e) = Len(e) + IF old = None THEN 1 ELSE 0
      BY <3>3, ListTypes
    <3> HIDE DEF g, old, entry, first, extra
    <3>7. /\ g \in PresetLists
          /\ Len(g) = Len(e)
          /\ first \in DOMAIN g /\ g[first] = entry(extra)
          /\ Presets!Unnamed(g) = Presets!Unnamed(e)
          /\ \A fold : fold \notin {Fold[e[first].name], Fold[c.name]} =>
                Presets!SaidOf(g, fold) = Presets!SaidOf(e, fold)
      BY <1>2, <3>1, <3>2, <3>5, ReplaceKeeps
    <3> QED  BY <3>2, <3>3, <3>4, <3>6, <3>7
  <2> QED  BY <2>1, <2>2
<1> HIDE DEF g, old, entry, first
<1>6. PICK extra \in BOOLEAN, x \in DOMAIN g :
         /\ g \in PresetLists
         /\ Len(g) = Len(e) + IF old = None THEN 1 ELSE 0
         /\ extra = (old # None /\ old.extra)
         /\ g[x] = entry(extra)
         /\ Presets!Unnamed(g) = Presets!Unnamed(e)
         /\ \A fold : fold # Fold[c.name] =>
               Presets!SaidOf(g, fold) = Presets!SaidOf(e, fold)
  BY <1>5
<1>7. g[x].name = c.name
  BY <1>3, <1>6
<1>8. x \in Presets!Named(g, c.name)
  BY <1>2, <1>6, <1>7 DEF Presets!Named, Presets!SameName
<1>9. /\ f \in PresetLists /\ Len(f) = Len(g)
      /\ \A fold : Presets!SaidOf(f, fold) = Presets!SaidOf(g, fold)
      /\ Presets!Unnamed(f) = Presets!Unnamed(g)
      /\ Presets!Cardinality(Presets!Named(f, c.name)) = 1 =>
             Presets!Preset(f, c.name) = g[x]
  BY <1>6, <1>8, InOrderKeeps
<1> HIDE DEF f
<1>10. Presets!Fulfilled(c, e, f)
  <2>1. Len(f) = Len(e) + IF old = None THEN 1 ELSE 0
    BY <1>6, <1>9
  <2>2. Presets!Cardinality(Presets!Named(f, c.name)) = 1 =>
            Presets!Preset(f, c.name) =
                Presets!Entry(c.name, c.settings, old # None /\ old.extra)
    BY <1>6, <1>9, Zenon DEF entry
  <2> QED  BY <1>1, <2>1, <2>2, Zenon DEF Presets!Fulfilled, old
<1>11. \A fold : fold \notin Presets!Touched(c) =>
          Presets!SaidOf(f, fold) = Presets!SaidOf(e, fold)
  BY <1>4, <1>6, <1>9
<1>12. Presets!Unnamed(f) = Presets!Unnamed(e)
  BY <1>6, <1>9
<1>13. f = Presets!InOrder(Presets!Changed(c, e))
  BY DEF f, g
<1> QED  BY <1>9, <1>10, <1>11, <1>12, <1>13 DEF ComesTo

LEMMA RenameComesTo ==
    ASSUME NEW e \in PresetLists, NEW c \in Presets!Renames, ~Presets!Refused(c, e)
    PROVE  /\ Presets!InOrder(Presets!Changed(c, e)) \in PresetLists
           /\ ComesTo(c, e, Presets!InOrder(Presets!Changed(c, e)))
<1> DEFINE g == Presets!Changed(c, e)
           f == Presets!InOrder(g)
           old == Presets!Preset(e, c.name)
           first == Presets!First(e, c.name)
           entry == Presets!Entry(c.to, e[first].settings, e[first].extra)
<1>1. c.kind = "rename" /\ c.name \in Spellings /\ c.to \in Spellings
  BY DEF Presets!Renames
<1>2. c.name # Nameless /\ c.to # Nameless
  BY <1>1, PresetsAssumption
<1>3. Presets!Named(e, c.name) # {}
  BY <1>1 DEF Presets!Refused
<1>4. /\ first \in DOMAIN e /\ e[first] \in Presets!Entries
      /\ e[first].name # Nameless /\ Fold[e[first].name] = Fold[c.name]
      /\ old = e[first]
  BY <1>1, <1>3, FoundOfName
<1>5. entry \in Presets!Entries /\ entry.name = c.to /\ entry = [old EXCEPT !.name = c.to]
  BY <1>1, <1>4 DEF Presets!Entries, Presets!Entry
<1>6. g = Presets!ReplaceAt(e, first, entry)
  BY <1>1, Zenon DEF Presets!Changed
<1>7. Presets!Touched(c) = {Fold[c.name], Fold[c.to]}
  BY <1>1 DEF Presets!Touched
<1> HIDE DEF g, old, entry, first
<1>8. /\ g \in PresetLists
      /\ Len(g) = Len(e)
      /\ first \in DOMAIN g /\ g[first] = entry
      /\ Presets!Unnamed(g) = Presets!Unnamed(e)
      /\ \A fold : fold \notin {Fold[e[first].name], Fold[c.to]} =>
            Presets!SaidOf(g, fold) = Presets!SaidOf(e, fold)
  <2>1. first \in DOMAIN e /\ e[first].name # Nameless
    BY <1>4
  <2>2. entry \in Presets!Entries /\ entry.name # Nameless /\ entry.name = c.to
    BY <1>2, <1>5
  <2> QED  BY <1>6, <2>1, <2>2, ReplaceKeeps
<1>9. first \in Presets!Named(g, c.to)
  BY <1>2, <1>5, <1>8 DEF Presets!Named, Presets!SameName
<1>10. /\ f \in PresetLists /\ Len(f) = Len(g)
       /\ \A fold : Presets!SaidOf(f, fold) = Presets!SaidOf(g, fold)
       /\ Presets!Unnamed(f) = Presets!Unnamed(g)
       /\ Presets!Cardinality(Presets!Named(f, c.to)) = 1 =>
              Presets!Preset(f, c.to) = g[first]
  BY <1>8, <1>9, InOrderKeeps
<1> HIDE DEF f
<1>11. Presets!Fulfilled(c, e, f)
  <2>1. Len(f) = Len(e)
    BY <1>8, <1>10
  <2>2. Presets!Cardinality(Presets!Named(f, c.to)) = 1 =>
            Presets!Preset(f, c.to) = [old EXCEPT !.name = c.to]
    BY <1>5, <1>8, <1>10
  <2> QED  BY <1>1, <2>1, <2>2 DEF Presets!Fulfilled, old
<1>12. \A fold : fold \notin Presets!Touched(c) =>
          Presets!SaidOf(f, fold) = Presets!SaidOf(e, fold)
  BY <1>4, <1>7, <1>8, <1>10
<1>13. Presets!Unnamed(f) = Presets!Unnamed(e)
  BY <1>8, <1>10
<1>14. f = Presets!InOrder(Presets!Changed(c, e))
  BY DEF f, g
<1> QED  BY <1>10, <1>11, <1>12, <1>13, <1>14 DEF ComesTo

LEMMA RemovalComesTo ==
    ASSUME NEW e \in PresetLists, NEW c \in Presets!Removals, ~Presets!Refused(c, e)
    PROVE  /\ Presets!InOrder(Presets!Changed(c, e)) \in PresetLists
           /\ ComesTo(c, e, Presets!InOrder(Presets!Changed(c, e)))
<1> DEFINE g == Presets!Changed(c, e)
           f == Presets!InOrder(g)
           first == Presets!First(e, c.name)
<1>1. c.kind = "remove" /\ c.name \in Spellings
  BY DEF Presets!Removals
<1>2. Presets!Named(e, c.name) # {}
  BY <1>1 DEF Presets!Refused
<1>3. /\ first \in DOMAIN e /\ e[first].name # Nameless /\ Fold[e[first].name] = Fold[c.name]
  BY <1>1, <1>2, FoundOfName
<1>4. g = Presets!RemoveAt(e, first)
  BY <1>1, Zenon DEF Presets!Changed
<1>5. Presets!Touched(c) = {Fold[c.name]}
  BY <1>1 DEF Presets!Touched
<1> HIDE DEF g, first
<1>6. /\ g \in PresetLists
      /\ Len(g) = Len(e) - 1
      /\ Presets!Unnamed(g) = Presets!Unnamed(e)
      /\ \A fold : fold # Fold[e[first].name] =>
            Presets!SaidOf(g, fold) = Presets!SaidOf(e, fold)
  BY <1>3, <1>4, RemoveKeeps
<1>7. /\ f \in PresetLists /\ Len(f) = Len(g)
      /\ \A fold : Presets!SaidOf(f, fold) = Presets!SaidOf(g, fold)
      /\ Presets!Unnamed(f) = Presets!Unnamed(g)
  BY <1>6, InOrderKeeps
<1> HIDE DEF f
<1>8. Presets!Fulfilled(c, e, f)
  BY <1>1, <1>6, <1>7 DEF Presets!Fulfilled
<1>9. \A fold : fold \notin Presets!Touched(c) =>
         Presets!SaidOf(f, fold) = Presets!SaidOf(e, fold)
  BY <1>3, <1>5, <1>6, <1>7
<1>10. Presets!Unnamed(f) = Presets!Unnamed(e)
  BY <1>6, <1>7
<1>11. f = Presets!InOrder(Presets!Changed(c, e))
  BY DEF f, g
<1> QED  BY <1>7, <1>8, <1>9, <1>10, <1>11 DEF ComesTo

(* A change that is not refused changes the one preset it is about. *)
LEMMA ChangeComesTo ==
    ASSUME NEW e \in PresetLists, NEW c \in Changes, ~Presets!Refused(c, e)
    PROVE  /\ Presets!InOrder(Presets!Changed(c, e)) \in PresetLists
           /\ ComesTo(c, e, Presets!InOrder(Presets!Changed(c, e)))
<1>1. c \in Presets!Saves \/ c \in Presets!Renames \/ c \in Presets!Removals
  BY DEF Changes
<1> QED  BY <1>1, SaveComesTo, RenameComesTo, RemovalComesTo

-----------------------------------------------------------------------------
(* Writers of the presets. *)

PresetStages == {"idle", "waiting", "locked", "writing", "moving", "done", "dead"}

Requests == Changes \cup {Presets!SettingAside}

PresetTypes ==
    /\ file.state \in {"missing", "read", "newer", "unreadable"}
    /\ file.entries \in PresetLists
    /\ lock \in Writers \cup {None}
    /\ overtaken \subseteq Writers
    /\ stage \in [Writers -> PresetStages]
    /\ request \in [Writers -> Requests \cup {None}]
    /\ copy \in [Writers -> PresetLists]
    /\ \A w \in Writers : stage[w] \notin {"idle", "dead"} => request[w] \in Requests

(* Only one can be changing the file, the one that holds the lock. *)
ChangersHoldTheLock ==
    \A w \in Writers : stage[w] \in {"locked", "writing", "moving", "done"} => lock = w

(* What is about to be written is the change that was asked for, of what the file says now. *)
CopiesAreCurrent ==
    \A w \in Writers \ overtaken :
        /\ stage[w] = "writing" =>
              /\ request[w] \in Changes
              /\ file.state \in {"missing", "read"}
              /\ ~Presets!Refused(request[w], file.entries)
              /\ copy[w] = Presets!InOrder(Presets!Changed(request[w], file.entries))
        /\ stage[w] = "moving" => file.state = "unreadable"

PresetsInv == PresetTypes /\ ChangersHoldTheLock /\ CopiesAreCurrent

LEMMA PresetTypesTell == PresetTypes => Presets!TypeOK
BY DEF PresetTypes, Presets!TypeOK, PresetStages, Requests, Changes, PresetLists

LEMMA PresetsInit == Presets!Init => PresetsInv
<1> SUFFICES ASSUME Presets!Init
             PROVE  PresetsInv
  OBVIOUS
<1>1. <<>> \in PresetLists
  BY EmptySeq DEF PresetLists
<1>2. file.state \in {"missing", "read", "newer", "unreadable"} /\ file.entries \in PresetLists
  <2>1. CASE file \in HandMade
    BY <2>1, PresetsAssumption DEF PresetLists
  <2>2. CASE file = Presets!Missing
    BY <1>1, <2>2 DEF Presets!Missing, Presets!File
  <2> QED  BY <2>1, <2>2 DEF Presets!Init
<1> QED
  BY <1>1, <1>2
     DEF Presets!Init, PresetsInv, PresetTypes, ChangersHoldTheLock, CopiesAreCurrent, PresetStages

LEMMA PresetsStep == PresetsInv /\ [Presets!Next]_presetVars => PresetsInv'
<1> SUFFICES ASSUME PresetsInv, [Presets!Next]_presetVars
             PROVE  PresetsInv'
  OBVIOUS
<1> USE DEF PresetsInv, PresetStages
<1>1. ASSUME NEW w \in Writers, NEW change \in Requests, Presets!Ask(w, change)
      PROVE  PresetsInv'
  BY <1>1 DEF Presets!Ask, PresetTypes, ChangersHoldTheLock, CopiesAreCurrent
<1>2. ASSUME NEW w \in Writers, Presets!Lock(w)
      PROVE  PresetsInv'
  BY <1>2 DEF Presets!Lock, Presets!Held, PresetTypes, ChangersHoldTheLock, CopiesAreCurrent
<1>3. ASSUME NEW w \in Writers, Presets!GiveUp(w)
      PROVE  PresetsInv'
  BY <1>3 DEF Presets!GiveUp, PresetTypes, ChangersHoldTheLock, CopiesAreCurrent
<1>4. ASSUME NEW w \in Writers, Presets!Refuse(w)
      PROVE  PresetsInv'
  BY <1>4 DEF Presets!Refuse, PresetTypes, ChangersHoldTheLock, CopiesAreCurrent
<1>5. ASSUME NEW w \in Writers, Presets!Reread(w)
      PROVE  PresetsInv'
  <2>1. request[w] \in Changes /\ ~Presets!Refused(request[w], file.entries)
        /\ file.state \in {"missing", "read"}
    BY <1>5 DEF Presets!Reread, Presets!Changeable, PresetTypes, Requests
  <2> DEFINE new == Presets!InOrder(Presets!Changed(request[w], file.entries))
  <2>2. new \in PresetLists
    <3>1. file.entries \in PresetLists
      BY DEF PresetTypes
    <3> QED  BY <2>1, <3>1, ChangeComesTo
  <2>3. /\ stage[w] = "locked"
        /\ copy' = [copy EXCEPT ![w] = new]
        /\ stage' = [stage EXCEPT ![w] = "writing"]
        /\ UNCHANGED <<file, lock, request, overtaken>>
    BY <1>5 DEF Presets!Reread
  <2> HIDE DEF new
  <2>4. PresetTypes'
    BY <2>2, <2>3 DEF PresetTypes
  <2>5. ChangersHoldTheLock'
    BY <2>3 DEF PresetTypes, ChangersHoldTheLock
  <2>6. CopiesAreCurrent'
    BY <2>1, <2>3 DEF PresetTypes, CopiesAreCurrent, new
  <2> QED  BY <2>4, <2>5, <2>6
<1>6. ASSUME NEW w \in Writers, Presets!FindUnreadable(w)
      PROVE  PresetsInv'
  BY <1>6 DEF Presets!FindUnreadable, PresetTypes, ChangersHoldTheLock, CopiesAreCurrent
<1>7. ASSUME NEW w \in Writers, Presets!Replace(w)
      PROVE  PresetsInv'
  <2>1. /\ stage[w] = "writing" /\ lock = w
        /\ file'.state = "read" /\ file'.entries = copy[w]
        /\ stage' = [stage EXCEPT ![w] = "done"]
        /\ UNCHANGED <<lock, request, copy, overtaken>>
    BY <1>7 DEF Presets!Replace, Presets!File, ChangersHoldTheLock
  <2>2. PresetTypes'
    BY <2>1 DEF PresetTypes
  <2>3. ChangersHoldTheLock'
    BY <2>1 DEF PresetTypes, ChangersHoldTheLock
  <2>4. \A other \in Writers : stage'[other] \notin {"writing", "moving"}
    BY <2>1 DEF PresetTypes, ChangersHoldTheLock
  <2>5. CopiesAreCurrent'
    BY <2>4 DEF CopiesAreCurrent
  <2> QED  BY <2>2, <2>3, <2>5
<1>8. ASSUME NEW w \in Writers, Presets!Move(w)
      PROVE  PresetsInv'
  <2>1. /\ stage[w] = "moving" /\ lock = w
        /\ file'.state = "missing" /\ file'.entries = <<>>
        /\ stage' = [stage EXCEPT ![w] = "done"]
        /\ UNCHANGED <<lock, request, copy, overtaken>>
    BY <1>8 DEF Presets!Move, Presets!Missing, Presets!File, ChangersHoldTheLock
  <2>2. PresetTypes'
    <3>1. file'.entries \in PresetLists
      BY <2>1, EmptySeq DEF PresetLists
    <3> QED  BY <2>1, <3>1 DEF PresetTypes
  <2>3. ChangersHoldTheLock'
    BY <2>1 DEF PresetTypes, ChangersHoldTheLock
  <2>4. \A other \in Writers : stage'[other] \notin {"writing", "moving"}
    BY <2>1 DEF PresetTypes, ChangersHoldTheLock
  <2>5. CopiesAreCurrent'
    BY <2>4 DEF CopiesAreCurrent
  <2> QED  BY <2>2, <2>3, <2>5
<1>9. ASSUME NEW w \in Writers, Presets!Fail(w)
      PROVE  PresetsInv'
  BY <1>9 DEF Presets!Fail, PresetTypes, ChangersHoldTheLock, CopiesAreCurrent
<1>10. ASSUME NEW w \in Writers, Presets!Unlock(w)
       PROVE  PresetsInv'
  <2>1. /\ stage[w] = "done" /\ lock = w
        /\ lock' = None
        /\ stage' = [stage EXCEPT ![w] = "idle"]
        /\ request' = [request EXCEPT ![w] = None]
        /\ copy' = [copy EXCEPT ![w] = <<>>]
        /\ overtaken' = overtaken \ {w}
        /\ UNCHANGED file
    BY <1>10 DEF Presets!Unlock, ChangersHoldTheLock
  <2>2. <<>> \in PresetLists
    BY EmptySeq DEF PresetLists
  <2>3. PresetTypes'
    BY <2>1, <2>2 DEF PresetTypes
  <2>4. \A other \in Writers : stage'[other] \notin {"locked", "writing", "moving", "done"}
    BY <2>1 DEF PresetTypes, ChangersHoldTheLock
  <2> QED  BY <2>3, <2>4 DEF ChangersHoldTheLock, CopiesAreCurrent
<1>11. ASSUME NEW w \in Writers, Presets!Crash(w)
       PROVE  PresetsInv'
  BY <1>11 DEF Presets!Crash, PresetTypes, ChangersHoldTheLock, CopiesAreCurrent
<1>12. CASE Presets!Edit
  <2>1. /\ file' \in HandMade \cup {Presets!Missing}
        /\ overtaken' = {w \in Writers : stage[w] \in {"writing", "moving"}}
        /\ UNCHANGED <<lock, stage, request, copy>>
    BY <1>12 DEF Presets!Edit
  <2>2. /\ file'.state \in {"missing", "read", "newer", "unreadable"}
        /\ file'.entries \in PresetLists
    <3>1. CASE file' \in HandMade
      BY <3>1, PresetsAssumption DEF PresetLists
    <3>2. CASE file' = Presets!Missing
      BY <3>2, EmptySeq DEF Presets!Missing, Presets!File, PresetLists
    <3> QED  BY <2>1, <3>1, <3>2
  <2>3. PresetTypes'
    BY <2>1, <2>2 DEF PresetTypes
  <2>4. ChangersHoldTheLock'
    BY <2>1 DEF ChangersHoldTheLock
  <2>5. CopiesAreCurrent'
    BY <2>1 DEF CopiesAreCurrent
  <2> QED  BY <2>3, <2>4, <2>5
<1>13. CASE UNCHANGED presetVars
  BY <1>13 DEF presetVars, PresetTypes, ChangersHoldTheLock, CopiesAreCurrent
<1> QED
  BY <1>1, <1>2, <1>3, <1>4, <1>5, <1>6, <1>7, <1>8, <1>9, <1>10, <1>11, <1>12, <1>13
     DEF Presets!Next, Requests, Changes

(* What OneChangeAtATime asks of a step. *)
OneChange ==
    /\ Presets!TypeOK'
    /\ \A w \in Writers \ overtaken :
          /\ stage[w] = "writing" /\ stage'[w] = "done" /\ file' # file =>
                /\ file.state \in {"missing", "read"}
                /\ file'.state = "read"
                /\ \A fold \in Presets!Range(Fold) \ Presets!Touched(request[w]) :
                      Presets!SaidOf(file'.entries, fold) = Presets!SaidOf(file.entries, fold)
                /\ Presets!Unnamed(file'.entries) = Presets!Unnamed(file.entries)
                /\ Presets!Fulfilled(request[w], file.entries, file'.entries)
          /\ stage[w] = "moving" /\ stage'[w] = "done" /\ file' # file =>
                /\ file.state = "unreadable"
                /\ file \in aside'

LEMMA PresetsStepIsOneChange ==
    PresetsInv /\ Presets!Next => OneChange
<1> SUFFICES ASSUME PresetsInv, Presets!Next
             PROVE  OneChange
  OBVIOUS
<1>1. Presets!TypeOK'
  <2>1. PresetsInv'
    BY PresetsStep
  <2>2. PresetTypes'
    BY <2>1 DEF PresetsInv
  <2> QED  BY <2>2, PresetTypesTell, PTL
<1>2. ASSUME NEW w \in Writers \ overtaken,
             stage[w] = "writing", stage'[w] = "done", file' # file
      PROVE  /\ file.state \in {"missing", "read"}
             /\ file'.state = "read"
             /\ ComesTo(request[w], file.entries, file'.entries)
  <2>1. PICK v \in Writers : Presets!Replace(v) \/ Presets!Move(v)
    <3>1. ~Presets!Edit
      BY <1>2 DEF Presets!Edit
    <3> QED
      BY <1>2, <3>1
         DEF Presets!Next, Presets!Ask, Presets!Lock, Presets!GiveUp, Presets!Refuse,
             Presets!Reread, Presets!FindUnreadable, Presets!Fail, Presets!Unlock, Presets!Crash
  <2>2. v = w /\ stage[v] = "writing"
    <3>1. stage[v] \in {"writing", "moving"}
      BY <2>1 DEF Presets!Replace, Presets!Move
    <3>2. lock = v /\ lock = w
      BY <1>2, <3>1 DEF PresetsInv, ChangersHoldTheLock
    <3> QED  BY <1>2, <3>2
  <2>3. file'.state = "read" /\ file'.entries = copy[w]
    BY <2>1, <2>2 DEF Presets!Replace, Presets!Move, Presets!File
  <2>4. /\ request[w] \in Changes
        /\ file.state \in {"missing", "read"}
        /\ ~Presets!Refused(request[w], file.entries)
        /\ copy[w] = Presets!InOrder(Presets!Changed(request[w], file.entries))
        /\ file.entries \in PresetLists
    BY <1>2 DEF PresetsInv, CopiesAreCurrent, PresetTypes
  <2>5. ComesTo(request[w], file.entries,
                Presets!InOrder(Presets!Changed(request[w], file.entries)))
    BY <2>4, ChangeComesTo
  <2> QED  BY <2>3, <2>4, <2>5
<1>3. ASSUME NEW w \in Writers \ overtaken,
             stage[w] = "moving", stage'[w] = "done", file' # file
      PROVE  file.state = "unreadable" /\ file \in aside'
  <2>1. PICK v \in Writers : Presets!Replace(v) \/ Presets!Move(v)
    <3>1. ~Presets!Edit
      BY <1>3 DEF Presets!Edit
    <3> QED
      BY <1>3, <3>1
         DEF Presets!Next, Presets!Ask, Presets!Lock, Presets!GiveUp, Presets!Refuse,
             Presets!Reread, Presets!FindUnreadable, Presets!Fail, Presets!Unlock, Presets!Crash
  <2>2. v = w /\ stage[v] = "moving"
    <3>1. stage[v] \in {"writing", "moving"}
      BY <2>1 DEF Presets!Replace, Presets!Move
    <3>2. lock = v /\ lock = w
      BY <1>3, <3>1 DEF PresetsInv, ChangersHoldTheLock
    <3> QED  BY <1>3, <3>2
  <2> QED
    BY <1>3, <2>1, <2>2 DEF Presets!Replace, Presets!Move, PresetsInv, CopiesAreCurrent
<1>4. ASSUME NEW w \in Writers \ overtaken
      PROVE  /\ stage[w] = "writing" /\ stage'[w] = "done" /\ file' # file =>
                   /\ file.state \in {"missing", "read"}
                   /\ file'.state = "read"
                   /\ \A fold \in Presets!Range(Fold) \ Presets!Touched(request[w]) :
                         Presets!SaidOf(file'.entries, fold) = Presets!SaidOf(file.entries, fold)
                   /\ Presets!Unnamed(file'.entries) = Presets!Unnamed(file.entries)
                   /\ Presets!Fulfilled(request[w], file.entries, file'.entries)
             /\ stage[w] = "moving" /\ stage'[w] = "done" /\ file' # file =>
                   /\ file.state = "unreadable"
                   /\ file \in aside'
  BY <1>2, <1>3 DEF ComesTo
<1> QED  BY <1>1, <1>4 DEF OneChange

LEMMA PresetsAlwaysInv == MCSpec => []PresetsInv
<1>1. MCInit => PresetsInv
  BY PresetsInit DEF MCInit
<1>2. PresetsInv /\ [MCNext]_MCvars => PresetsInv'
  <2>1. [MCNext]_MCvars => [Presets!Next]_presetVars
    BY DEF MCNext, MCvars, InLadders, InCommand, InPresets
  <2> QED  BY <2>1, PresetsStep
<1> QED  BY <1>1, <1>2, PTL DEF MCSpec

(* However writers, scripts, crashes and editors interleave, a writer changes the one preset it
   was asked to change, keeps whatever else the file says, and writes over no file it could not
   read: but for an editor between its reading and its writing. *)
THEOREM PresetsChangeOneAtATime == MCSpec => OneChangeAtATime
<1>1. PresetsInv /\ [MCNext]_MCvars => [OneChange]_presetVars
  <2>1. [MCNext]_MCvars => [Presets!Next]_presetVars
    BY DEF MCNext, MCvars, InLadders, InCommand, InPresets
  <2> QED  BY <2>1, PresetsStepIsOneChange
<1>2. [OneChange]_presetVars
          <=> [/\ Presets!TypeOK'
               /\ \A w \in Writers \ overtaken :
                     /\ stage[w] = "writing" /\ stage'[w] = "done" /\ file' # file =>
                           /\ file.state \in {"missing", "read"}
                           /\ file'.state = "read"
                           /\ \A fold \in Presets!Range(Fold) \ Presets!Touched(request[w]) :
                                 Presets!SaidOf(file'.entries, fold)
                                     = Presets!SaidOf(file.entries, fold)
                           /\ Presets!Unnamed(file'.entries) = Presets!Unnamed(file.entries)
                           /\ Presets!Fulfilled(request[w], file.entries, file'.entries)
                     /\ stage[w] = "moving" /\ stage'[w] = "done" /\ file' # file =>
                           /\ file.state = "unreadable"
                           /\ file \in aside']_Presets!vars
  BY DEF OneChange, presetVars, Presets!vars
<1> QED
  BY <1>1, <1>2, PresetsAlwaysInv, PTL
     DEF MCSpec, OneChangeAtATime, Presets!OneChangeAtATime

-----------------------------------------------------------------------------
(* What the arguments of the export command are made of. *)

(* What holds of the first number, and of each if of the one before, holds of all up to the last. *)
LEMMA OneAfterTheOther ==
    ASSUME NEW N \in Nat, NEW P, 1 \in P, \A n \in 2 .. N : n - 1 \in P => n \in P
    PROVE  \A n \in 1 .. N : n \in P
<1> DEFINE T == (1 .. N) \ P
           R == {p \in Nat \X Nat : p[1] < p[2]}
<1>1. SUFFICES ASSUME T # {} PROVE FALSE
  OBVIOUS
<1>2. IsWellFoundedOn(R, Nat)
  BY NatLessThanWellFounded DEF OpToRel
<1>3. PICK x \in T : \A y \in T : <<y, x>> \notin R
  <2> HIDE DEF R, T
  <2>1. T \subseteq Nat
    BY DEF T
  <2> QED  BY <1>1, <1>2, <2>1, WFMin
<1>4. x # 1
  OBVIOUS
<1>5. x - 1 \in 1 .. N /\ x \in 2 .. N
  BY <1>4
<1>6. <<x - 1, x>> \in R
  BY <1>5
<1> QED  BY <1>3, <1>5, <1>6

(* A sequence is made of the first of some sequences, in their order: of which each of its
   elements is. *)
Origins(from, lists, n, t, size) ==
    /\ from \in [1 .. size -> 1 .. n]
    /\ \A k, l \in 1 .. size : k <= l => from[k] <= from[l]
    /\ \A k \in 1 .. size : \E m \in 1 .. Len(lists[from[k]]) : lists[from[k]][m] = t[k]
    /\ \A i \in 1 .. n : \A m \in 1 .. Len(lists[i]) :
          \E k \in 1 .. size : from[k] = i /\ t[k] = lists[i][m]

MadeOf(X, lists, n, t) == t \in Seq(X) /\ \E from : Origins(from, lists, n, t, Len(t))

LEMMA MadeOfOneMore ==
    ASSUME NEW X, NEW N \in Nat, NEW lists \in [1 .. N -> Seq(X)], NEW n \in 2 .. N,
           NEW t, MadeOf(X, lists, n - 1, t)
    PROVE  MadeOf(X, lists, n, t \o lists[n])
<1> DEFINE s == lists[n]
           u == t \o s
           a == Len(t)
           b == Len(s)
<1>1. t \in Seq(X) /\ s \in Seq(X)
  BY DEF MadeOf
<1>2. PICK from :
         /\ from \in [1 .. a -> 1 .. n - 1]
         /\ \A k, l \in 1 .. a : k <= l => from[k] <= from[l]
         /\ \A k \in 1 .. a : \E m \in 1 .. Len(lists[from[k]]) : lists[from[k]][m] = t[k]
         /\ \A i \in 1 .. n - 1 : \A m \in 1 .. Len(lists[i]) :
               \E k \in 1 .. a : from[k] = i /\ t[k] = lists[i][m]
  BY DEF MadeOf, Origins
<1>3. a \in Nat /\ b \in Nat
  BY <1>1, LenProperties
<1> HIDE DEF s, u, a, b
<1>4. /\ u \in Seq(X) /\ Len(u) = a + b
      /\ \A k \in 1 .. a + b : u[k] = IF k <= a THEN t[k] ELSE s[k - a]
  BY <1>1, ConcatProperties DEF u, a, b
<1> DEFINE whence == [k \in 1 .. a + b |-> IF k <= a THEN from[k] ELSE n]
<1>5. \A k \in 1 .. a : k \in 1 .. a + b /\ whence[k] = from[k] /\ u[k] = t[k]
                       /\ from[k] \in 1 .. n - 1
  BY <1>2, <1>3, <1>4
<1>6. \A k \in 1 .. a + b : k \notin 1 .. a =>
         whence[k] = n /\ k - a \in 1 .. b /\ u[k] = s[k - a]
  BY <1>3, <1>4
<1>7. \A m \in 1 .. b : a + m \in 1 .. a + b /\ whence[a + m] = n /\ u[a + m] = s[m]
  <2> SUFFICES ASSUME NEW m \in 1 .. b
               PROVE  a + m \in 1 .. a + b /\ whence[a + m] = n /\ u[a + m] = s[m]
    OBVIOUS
  <2>1. a + m \in 1 .. a + b /\ ~(a + m <= a) /\ (a + m) - a = m
    BY <1>3
  <2> QED  BY <1>4, <2>1
<1>8. whence \in [1 .. a + b -> 1 .. n]
  BY <1>2, <1>3
<1> HIDE DEF whence
<1>9. \A k, l \in 1 .. a + b : k <= l => whence[k] <= whence[l]
  <2> SUFFICES ASSUME NEW k \in 1 .. a + b, NEW l \in 1 .. a + b, k <= l
               PROVE  whence[k] <= whence[l]
    OBVIOUS
  <2>1. CASE l \in 1 .. a
    <3>1. k \in 1 .. a
      BY <1>3, <2>1
    <3> QED  BY <1>2, <1>5, <2>1, <3>1
  <2>2. CASE l \notin 1 .. a
    <3>1. whence[l] = n /\ whence[k] \in 1 .. n
      BY <1>6, <1>8, <2>2
    <3> QED  BY <3>1
  <2> QED  BY <2>1, <2>2
<1>10. \A k \in 1 .. a + b :
          \E m \in 1 .. Len(lists[whence[k]]) : lists[whence[k]][m] = u[k]
  <2> SUFFICES ASSUME NEW k \in 1 .. a + b
               PROVE  \E m \in 1 .. Len(lists[whence[k]]) : lists[whence[k]][m] = u[k]
    OBVIOUS
  <2>1. CASE k \in 1 .. a
    BY <1>2, <1>5, <2>1
  <2>2. CASE k \notin 1 .. a
    BY <1>6, <2>2 DEF s, b
  <2> QED  BY <2>1, <2>2
<1>11. \A i \in 1 .. n : \A m \in 1 .. Len(lists[i]) :
          \E k \in 1 .. a + b : whence[k] = i /\ u[k] = lists[i][m]
  <2> SUFFICES ASSUME NEW i \in 1 .. n, NEW m \in 1 .. Len(lists[i])
               PROVE  \E k \in 1 .. a + b : whence[k] = i /\ u[k] = lists[i][m]
    OBVIOUS
  <2>1. CASE i = n
    BY <1>7, <2>1 DEF s, b
  <2>2. CASE i # n
    <3>1. i \in 1 .. n - 1
      BY <2>2
    <3>2. PICK k \in 1 .. a : from[k] = i /\ t[k] = lists[i][m]
      BY <1>2, <3>1
    <3> QED  BY <1>5, <3>2
  <2> QED  BY <2>1, <2>2
<1>12. MadeOf(X, lists, n, u)
  <2>1. Origins(whence, lists, n, u, a + b)
    BY <1>8, <1>9, <1>10, <1>11 DEF Origins
  <2>2. u \in Seq(X) /\ Len(u) = a + b
    BY <1>4
  <2> QED  BY <2>1, <2>2 DEF MadeOf
<1> QED  BY <1>12 DEF u, s

(* Some sequences, one after the other. *)
LEMMA Flattened ==
    ASSUME NEW X, NEW lists \in Seq(Seq(X))
    PROVE  MadeOf(X, lists, Len(lists), Command!FlattenSeq(lists))
<1> DEFINE N == Len(lists)
           Flattens(F, n) ==
               F = [i \in 1 .. n |-> IF i = 1 THEN lists[i] ELSE F[i - 1] \o lists[i]]
           G == CHOOSE F : Flattens(F, N)
<1>1. N \in Nat /\ lists \in [1 .. N -> Seq(X)]
  BY LenProperties
<1>2. CASE N = 0
  <2>1. Command!FlattenSeq(lists) = lists
    BY <1>2 DEF Command!FlattenSeq
  <2>2. lists \in Seq(X) /\ Len(lists) = 0
    BY <1>2, EmptySeq
  <2>3. MadeOf(X, lists, 0, lists)
    <3> DEFINE from == [k \in 1 .. 0 |-> k]
    <3>1. from \in [1 .. 0 -> 1 .. 0] /\ \A k \in 1 .. 0 : FALSE
      OBVIOUS
    <3> HIDE DEF from, N
    <3>2. Origins(from, lists, 0, lists, 0)
      BY <3>1 DEF Origins
    <3> QED  BY <2>2, <3>2 DEF MadeOf
  <2> QED  BY <1>2, <2>1, <2>3
<1>3. CASE N # 0
  <2>1. Command!FlattenSeq(lists) = G[N]
    BY <1>3 DEF Command!FlattenSeq
  <2> DEFINE P == {n \in 1 .. N : \E F : Flattens(F, n)}
  <2> HIDE DEF G
  <2>2. 1 \in P
    <3> DEFINE F == [i \in 1 .. 1 |-> lists[i]]
    <3>1. Flattens(F, 1)
      OBVIOUS
    <3>2. 1 \in 1 .. N
      BY <1>1, <1>3
    <3> HIDE DEF F, Flattens
    <3> QED  BY <3>1, <3>2
  <2>3. ASSUME NEW n \in 2 .. N, n - 1 \in P
        PROVE  n \in P
    <3>1. PICK F : Flattens(F, n - 1)
      BY <2>3
    <3> DEFINE H == [i \in 1 .. n |-> IF i = n THEN F[n - 1] \o lists[n] ELSE F[i]]
    <3>2. /\ \A i \in 1 .. n - 1 : H[i] = F[i]
          /\ H[n] = F[n - 1] \o lists[n]
          /\ H = [i \in 1 .. n |-> H[i]]
      <4>1. n \in 1 .. n /\ \A i \in 1 .. n - 1 : i \in 1 .. n /\ i # n
        OBVIOUS
      <4> HIDE DEF N, Flattens
      <4> QED  BY <4>1
    <3>3. \A i \in 1 .. n - 1 : F[i] = IF i = 1 THEN lists[i] ELSE F[i - 1] \o lists[i]
      BY <3>1
    <3> HIDE DEF H
    <3>4. \A i \in 1 .. n : H[i] = IF i = 1 THEN lists[i] ELSE H[i - 1] \o lists[i]
      <4> SUFFICES ASSUME NEW i \in 1 .. n
                   PROVE  H[i] = IF i = 1 THEN lists[i] ELSE H[i - 1] \o lists[i]
        OBVIOUS
      <4>1. CASE i = n
        <5>1. n - 1 \in 1 .. n - 1 /\ i # 1
          BY <4>1
        <5> QED  BY <3>2, <4>1, <5>1
      <4>2. CASE i # n
        <5>1. i \in 1 .. n - 1 /\ (i # 1 => i - 1 \in 1 .. n - 1)
          BY <4>2
        <5> QED  BY <3>2, <3>3, <5>1
      <4> QED  BY <4>1, <4>2
    <3>5. Flattens(H, n)
      BY <3>2, <3>4
    <3> HIDE DEF Flattens
    <3> QED  BY <3>5, <2>3
  <2>4. \A n \in 1 .. N : n \in P
    <3> HIDE DEF P, N
    <3> QED  BY <1>1, <2>2, <2>3, OneAfterTheOther
  <2>5. \E F : Flattens(F, N)
    <3>1. N \in 1 .. N
      BY <1>1, <1>3
    <3> HIDE DEF N, Flattens
    <3> QED  BY <2>4, <3>1
  <2>6. Flattens(G, N)
    <3> HIDE DEF Flattens
    <3> QED  BY <2>5 DEF G
  <2>7. \A n \in 1 .. N : G[n] = IF n = 1 THEN lists[n] ELSE G[n - 1] \o lists[n]
    BY <2>6
  <2> DEFINE Q == {n \in 1 .. N : MadeOf(X, lists, n, G[n])}
  <2>8. 1 \in Q
    <3>1. 1 \in 1 .. N /\ G[1] = lists[1] /\ lists[1] \in Seq(X)
      BY <1>1, <1>3, <2>7
    <3> DEFINE t == lists[1]
               from == [k \in 1 .. Len(t) |-> 1]
    <3>2. Len(t) \in Nat
      BY <3>1, LenProperties
    <3>3. from \in [1 .. Len(t) -> 1 .. 1] /\ \A k \in 1 .. Len(t) : from[k] = 1
      OBVIOUS
    <3> HIDE DEF from
    <3>4. MadeOf(X, lists, 1, t)
      <4>1. \A k, l \in 1 .. Len(t) : k <= l => from[k] <= from[l]
        BY <3>3
      <4>2. \A k \in 1 .. Len(t) :
               \E m \in 1 .. Len(lists[from[k]]) : lists[from[k]][m] = t[k]
        BY <3>3
      <4>3. \A i \in 1 .. 1 : \A m \in 1 .. Len(lists[i]) :
               \E k \in 1 .. Len(t) : from[k] = i /\ t[k] = lists[i][m]
        BY <3>3
      <4>4. Origins(from, lists, 1, t, Len(t))
        BY <3>3, <4>1, <4>2, <4>3 DEF Origins
      <4> QED  BY <3>1, <4>4 DEF MadeOf
    <3> QED  BY <3>1, <3>4
  <2>9. ASSUME NEW n \in 2 .. N, n - 1 \in Q
        PROVE  n \in Q
    <3>1. n \in 1 .. N /\ n # 1
      OBVIOUS
    <3>2. G[n] = G[n - 1] \o lists[n]
      BY <2>7, <3>1
    <3>3. MadeOf(X, lists, n - 1, G[n - 1])
      BY <2>9
    <3> HIDE DEF N
    <3>4. MadeOf(X, lists, n, G[n - 1] \o lists[n])
      BY <1>1, <3>3, MadeOfOneMore
    <3> QED  BY <3>1, <3>2, <3>4
  <2>10. \A n \in 1 .. N : n \in Q
    <3> HIDE DEF Q, N
    <3> QED  BY <1>1, <2>8, <2>9, OneAfterTheOther
  <2>11. N \in 1 .. N
    BY <1>1, <1>3
  <2> QED  BY <2>1, <2>10, <2>11
<1> QED  BY <1>2, <1>3

(* The first places of each path. *)
Firsts(found) == {i \in DOMAIN found : \A j \in 1 .. i - 1 : found[j].path # found[i].path}

LEMMA WithoutRepeatsKeeps ==
    ASSUME NEW X, NEW found \in Seq(X)
    PROVE  /\ Command!WithoutRepeats(found) \in Seq(X)
           /\ \A k \in DOMAIN Command!WithoutRepeats(found) :
                 \E i \in Firsts(found) : Command!WithoutRepeats(found)[k] = found[i]
           /\ \A i \in Firsts(found) :
                 \E k \in DOMAIN Command!WithoutRepeats(found) :
                     Command!WithoutRepeats(found)[k] = found[i]
           /\ \A k \in DOMAIN found :
                 \E i \in Firsts(found) : i <= k /\ found[i].path = found[k].path
<1> DEFINE S == Firsts(found)
           r == Command!WithoutRepeats(found)
           K == 1 .. Cardinality(S)
<1>1. Len(found) \in Nat /\ DOMAIN found = 1 .. Len(found)
      /\ \A i \in 1 .. Len(found) : found[i] \in X
  BY LenProperties, ElementOfSeq
<1>2. S \in SUBSET Nat /\ IsFiniteSet(S) /\ S \subseteq DOMAIN found
  <2>1. S \in SUBSET (1 .. Len(found))
    BY <1>1 DEF Firsts
  <2>2. IsFiniteSet(1 .. Len(found))
    BY <1>1, FS_Interval
  <2> HIDE DEF S
  <2>3. IsFiniteSet(S)
    BY <2>1, <2>2, FS_Subset
  <2> QED  BY <1>1, <2>1, <2>3
<1>3. \A T : Command!Cardinality(T) = Cardinality(T)
  BY DEF Command!Cardinality, Cardinality
<1>4. \A T, k : Command!Nth(T, k) = Nth(T, k)
  BY <1>3 DEF Command!Nth, Nth
<1>5. r = [k \in K |-> found[Nth(S, k)]]
  <2>1. r = Command!Subsequence(found, S)
    BY DEF Command!WithoutRepeats, Firsts
  <2> HIDE DEF r, S
  <2> QED  BY <1>3, <1>4, <2>1 DEF Command!Subsequence
<1>6. /\ Cardinality(S) \in Nat
      /\ \A k \in K : Nth(S, k) \in S
      /\ \A i \in S : \E k \in K : Nth(S, k) = i
  <2> HIDE DEF S
  <2> QED  BY <1>2, NthIs
<1>7. \A k \in DOMAIN found : \E i \in S : i <= k /\ found[i].path = found[k].path
  <2> SUFFICES ASSUME NEW k \in DOMAIN found
               PROVE  \E i \in S : i <= k /\ found[i].path = found[k].path
    OBVIOUS
  <2> DEFINE T == {i \in 1 .. Len(found) : found[i].path = found[k].path}
  <2>1. T \in SUBSET (1 .. Len(found)) /\ T \in SUBSET Nat /\ k \in T
    BY <1>1
  <2>2. IsFiniteSet(T)
    <3>1. IsFiniteSet(1 .. Len(found))
      BY <1>1, FS_Interval
    <3> HIDE DEF T
    <3> QED  BY <2>1, <3>1, FS_Subset
  <2>3. PICK i \in T : \A j \in T : i <= j
    <3> HIDE DEF T
    <3> QED  BY <2>1, <2>2, LeastExists
  <2>4. \A j \in 1 .. i - 1 : found[j].path # found[i].path
    <3> SUFFICES ASSUME NEW j \in 1 .. i - 1, found[j].path = found[i].path
                 PROVE  FALSE
      OBVIOUS
    <3>1. j \in T /\ ~(i <= j)
      BY <1>1
    <3> QED  BY <2>3, <3>1
  <2>5. i \in S /\ i <= k /\ found[i].path = found[k].path
    BY <1>1, <2>1, <2>3, <2>4 DEF Firsts
  <2> QED  BY <2>5
<1> HIDE DEF S, r
<1>8. /\ DOMAIN r = K
      /\ \A k \in K : r[k] = found[Nth(S, k)]
  BY <1>5
<1>9. r \in Seq(X)
  <2>1. \A k \in K : r[k] \in X
    BY <1>1, <1>2, <1>6, <1>8
  <2>2. r = [k \in K |-> r[k]]
    BY <1>5
  <2> QED  BY <1>6, <2>1, <2>2
<1>10. \A k \in DOMAIN r : \E i \in S : r[k] = found[i]
  BY <1>6, <1>8
<1>11. \A i \in S : \E k \in DOMAIN r : r[k] = found[i]
  BY <1>6, <1>8
<1> QED  BY <1>7, <1>9, <1>10, <1>11 DEF S, r

Photos == [path : Names, companions : SUBSET Names]

CommandLine == Seq(Names \cup Folders)

LEMMA ExpansionType ==
    ASSUME NEW argument \in Names \cup Folders
    PROVE  /\ Command!Expansion(argument) \in Seq(Photos)
           /\ argument \notin Folders =>
                 \A m \in DOMAIN Command!Expansion(argument) :
                     /\ Command!Expansion(argument)[m].path = argument
                     /\ Command!Expansion(argument)[m].companions = {}
<1> DEFINE e == Command!Expansion(argument)
<1>1. CASE argument \in Folders
  <2> DEFINE shots == Shots[argument]
  <2>1. shots \in Seq([primary : Names, companions : SUBSET Names])
    BY <1>1, CommandAssumption
  <2> HIDE DEF shots
  <2>2. /\ Len(shots) \in Nat /\ DOMAIN shots = 1 .. Len(shots)
        /\ \A i \in 1 .. Len(shots) : shots[i] \in [primary : Names, companions : SUBSET Names]
    BY <2>1, LenProperties, ElementOfSeq
  <2> DEFINE n == Len(shots)
             photo(i) == [path |-> shots[i].primary, companions |-> shots[i].companions]
  <2>3. e = [i \in 1 .. n |-> photo(i)]
    BY <1>1, <2>2 DEF Command!Expansion, Command!Photograph, shots
  <2>4. \A i \in 1 .. n : photo(i) \in Photos
    BY <2>2 DEF Photos
  <2> HIDE DEF e, photo, n
  <2>5. e \in Seq(Photos)
    <3>1. n \in Nat
      BY <2>2 DEF n
    <3> QED  BY <2>3, <2>4, <3>1
  <2> QED  BY <1>1, <2>5 DEF e
<1>2. CASE argument \notin Folders
  <2> DEFINE photo == [path |-> argument, companions |-> {}]
  <2>1. e = <<photo>>
    BY <1>2 DEF Command!Expansion, Command!Photograph
  <2>2. photo \in Photos /\ photo.path = argument /\ photo.companions = {}
    BY <1>2 DEF Photos
  <2> HIDE DEF e, photo
  <2>3. e \in Seq(Photos) /\ DOMAIN e = 1 .. 1 /\ e[1] = photo
    BY <2>1, <2>2
  <2>4. \A m \in DOMAIN e : e[m].path = argument /\ e[m].companions = {}
    BY <2>2, <2>3
  <2> QED  BY <2>3, <2>4 DEF e
<1> QED  BY <1>1, <1>2

(* The shots of one primary have the same companions. *)
LEMMA SameShot ==
    ASSUME NEW folder \in Folders, NEW other \in Folders,
           folder \in Names \cup Folders, other \in Names \cup Folders,
           NEW i \in DOMAIN Command!Expansion(folder), NEW j \in DOMAIN Command!Expansion(other),
           Command!Expansion(folder)[i].path = Command!Expansion(other)[j].path
    PROVE  Command!Expansion(folder)[i].companions = Command!Expansion(other)[j].companions
<1>1. /\ i \in DOMAIN Shots[folder]
      /\ Command!Expansion(folder)[i].path = Shots[folder][i].primary
      /\ Command!Expansion(folder)[i].companions = Shots[folder][i].companions
  BY DEF Command!Expansion, Command!Photograph
<1>2. /\ j \in DOMAIN Shots[other]
      /\ Command!Expansion(other)[j].path = Shots[other][j].primary
      /\ Command!Expansion(other)[j].companions = Shots[other][j].companions
  BY DEF Command!Expansion, Command!Photograph
<1> DEFINE all == UNION {{Shots[each][k] : k \in DOMAIN Shots[each]} : each \in Folders}
<1>3. Shots[folder][i] \in all /\ Shots[other][j] \in all
  BY <1>1, <1>2
<1>4. \A one, another \in all : one.primary = another.primary => one = another
  BY CommandAssumption
<1> HIDE DEF all
<1>5. Shots[folder][i] = Shots[other][j]
  BY <1>1, <1>2, <1>3, <1>4
<1> QED  BY <1>1, <1>2, <1>5

(* The m-th photograph of the i-th argument of a command line, and what the photographs are of
   when some folders cannot be listed. *)
Part(line, i, m) == Command!Expansion(line[i])[m]

IsNamed(line, unread, path) ==
    \E i \in DOMAIN line \ unread : \E m \in DOMAIN Command!Expansion(line[i]) :
        Part(line, i, m).path = path

IsCompanion(line, unread, path) ==
    \E i \in DOMAIN line \ unread : \E m \in DOMAIN Command!Expansion(line[i]) :
        path \in Part(line, i, m).companions

(* What another argument before the folder hides: see Overlooked. *)
IsOverlooked(line, path) ==
    \E i, j \in DOMAIN line :
        /\ i < j
        /\ \E m \in DOMAIN Command!Expansion(line[j]) :
              Part(line, j, m).path = line[i] /\ path \in Part(line, j, m).companions

Expanded(line, unread) ==
    Command!WithoutRepeats(Command!FlattenSeq(
        [i \in DOMAIN line |-> IF i \in unread THEN <<>> ELSE Command!Expansion(line[i])]))

LEMMA ExpandedIs ==
    ASSUME NEW line \in CommandLine, NEW unread
    PROVE  /\ Expanded(line, unread) \in Seq(Photos)
           /\ \A path : IsNamed(line, unread, path) <=>
                           \E k \in DOMAIN Expanded(line, unread) :
                               Expanded(line, unread)[k].path = path
           /\ \A path : IsCompanion(line, unread, path) /\ ~IsOverlooked(line, path) =>
                           \E k \in DOMAIN Expanded(line, unread) :
                               path \in Expanded(line, unread)[k].companions
<1> DEFINE D == DOMAIN line
           E(i) == Command!Expansion(line[i])
           lists == [i \in D |-> IF i \in unread THEN <<>> ELSE E(i)]
           t == Command!FlattenSeq(lists)
           r == Command!WithoutRepeats(t)
           n == Len(line)
<1>1. n \in Nat /\ D = 1 .. n /\ \A i \in D : line[i] \in Names \cup Folders
  BY LenProperties, ElementOfSeq DEF CommandLine
<1> HIDE DEF n
<1>2. \A i \in D : E(i) \in Seq(Photos)
  BY <1>1, ExpansionType
<1>3. <<>> \in Seq(Photos) /\ Len(<<>>) = 0
  BY EmptySeq
<1> HIDE DEF D, E
<1>4. \A i \in D : /\ lists[i] = IF i \in unread THEN <<>> ELSE E(i)
                   /\ lists[i] \in Seq(Photos)
                   /\ DOMAIN E(i) = 1 .. Len(E(i))
  BY <1>2, <1>3, LenProperties
<1>5. lists \in Seq(Seq(Photos)) /\ Len(lists) = n
  <2>1. lists = [i \in 1 .. n |-> lists[i]] /\ \A i \in 1 .. n : lists[i] \in Seq(Photos)
    BY <1>1, <1>4
  <2>2. DOMAIN lists = 1 .. n
    BY <1>1
  <2> HIDE DEF lists
  <2>3. lists \in Seq(Seq(Photos))
    BY <1>1, <2>1
  <2> QED  BY <1>1, <2>2, <2>3, LenProperties
<1> HIDE DEF lists
<1>6. MadeOf(Photos, lists, n, t)
  BY <1>5, Flattened
<1> HIDE DEF t
<1>7. PICK from : Origins(from, lists, n, t, Len(t))
  BY <1>6 DEF MadeOf
<1>8. t \in Seq(Photos) /\ DOMAIN t = 1 .. Len(t) /\ Len(t) \in Nat
  BY <1>6, LenProperties DEF MadeOf
<1>9. \A k \in DOMAIN t : /\ from[k] \in D \ unread
                          /\ \E m \in DOMAIN E(from[k]) : E(from[k])[m] = t[k]
  <2> SUFFICES ASSUME NEW k \in 1 .. Len(t)
               PROVE  /\ from[k] \in D \ unread
                      /\ \E m \in DOMAIN E(from[k]) : E(from[k])[m] = t[k]
    BY <1>8
  <2> DEFINE i == from[k]
  <2>1. i \in 1 .. n /\ \E m \in 1 .. Len(lists[i]) : lists[i][m] = t[k]
    BY <1>7 DEF Origins
  <2> HIDE DEF i
  <2>2. i \in D
    BY <1>1, <2>1
  <2>3. i \notin unread
    BY <1>3, <1>4, <2>1, <2>2
  <2> QED  BY <1>4, <2>1, <2>2, <2>3 DEF i
<1>10. \A i \in D \ unread : \A m \in DOMAIN E(i) :
          \E k \in DOMAIN t : from[k] = i /\ t[k] = E(i)[m]
  <2> SUFFICES ASSUME NEW i \in D \ unread, NEW m \in DOMAIN E(i)
               PROVE  \E k \in 1 .. Len(t) : from[k] = i /\ t[k] = E(i)[m]
    BY <1>8
  <2>1. lists[i] = E(i) /\ m \in 1 .. Len(lists[i]) /\ i \in 1 .. n
    BY <1>1, <1>4
  <2>2. \E k \in 1 .. Len(t) : from[k] = i /\ t[k] = lists[i][m]
    BY <1>7, <2>1 DEF Origins
  <2> QED  BY <2>1, <2>2
<1>11. \A k, l \in DOMAIN t : k <= l => from[k] <= from[l]
  BY <1>7, <1>8 DEF Origins
<1>12. /\ r \in Seq(Photos)
       /\ \A k \in DOMAIN r : \E i \in Firsts(t) : r[k] = t[i]
       /\ \A i \in Firsts(t) : \E k \in DOMAIN r : r[k] = t[i]
       /\ \A k \in DOMAIN t : \E i \in Firsts(t) : i <= k /\ t[i].path = t[k].path
  BY <1>8, WithoutRepeatsKeeps
<1> HIDE DEF r
<1>13. \A i \in Firsts(t) : i \in DOMAIN t
  BY DEF Firsts
<1>14. ASSUME NEW path
       PROVE  IsNamed(line, unread, path) <=> \E k \in DOMAIN r : r[k].path = path
  <2>1. ASSUME IsNamed(line, unread, path)
        PROVE  \E k \in DOMAIN r : r[k].path = path
    <3>1. PICK i \in D \ unread : \E m \in DOMAIN E(i) : E(i)[m].path = path
      BY <2>1 DEF IsNamed, Part, D, E
    <3>2. PICK k \in DOMAIN t : t[k].path = path
      BY <1>10, <3>1
    <3>3. PICK l \in Firsts(t) : t[l].path = path
      BY <1>12, <3>2
    <3> QED  BY <1>12, <3>3
  <2>2. ASSUME NEW k \in DOMAIN r, r[k].path = path
        PROVE  IsNamed(line, unread, path)
    <3>1. PICK l \in DOMAIN t : t[l].path = path
      BY <1>12, <1>13, <2>2
    <3>2. from[l] \in D \ unread /\ \E m \in DOMAIN E(from[l]) : E(from[l])[m] = t[l]
      BY <1>9
    <3> QED  BY <3>1, <3>2 DEF IsNamed, Part, D, E
  <2> QED  BY <2>1, <2>2
<1>15. ASSUME NEW path, IsCompanion(line, unread, path), ~IsOverlooked(line, path)
       PROVE  \E k \in DOMAIN r : path \in r[k].companions
  <2>0. PICK j \in D \ unread : \E m \in DOMAIN E(j) : path \in E(j)[m].companions
    BY <1>15 DEF IsCompanion, Part, D, E
  <2>1. PICK m \in DOMAIN E(j) : path \in E(j)[m].companions
    BY <2>0
  <2>2. PICK k \in DOMAIN t : from[k] = j /\ t[k] = E(j)[m]
    BY <1>10, <2>1
  <2>3. PICK l \in Firsts(t) : l <= k /\ t[l].path = t[k].path
    BY <1>12, <2>2
  <2> DEFINE i == from[l]
  <2>4. i <= j /\ l \in DOMAIN t
    BY <1>11, <1>13, <2>2, <2>3
  <2>5. i \in D \ unread /\ \E q \in DOMAIN E(i) : E(i)[q] = t[l]
    BY <1>9, <2>4
  <2> HIDE DEF i
  <2>6. PICK q \in DOMAIN E(i) : E(i)[q] = t[l]
    BY <2>5
  <2>7. E(i)[q].path = E(j)[m].path
    BY <2>2, <2>3, <2>6
  <2>8. line[j] \in Folders
    <3>1. line[j] \in Names \cup Folders
      BY <1>1
    <3>2. line[j] \notin Folders => E(j)[m].companions = {}
      BY <2>1, <3>1, ExpansionType DEF E
    <3> QED  BY <2>1, <3>2
  <2>9. CASE line[i] \in Folders
    <3>1. E(i)[q].companions = E(j)[m].companions
      BY <2>1, <2>7, <2>8, <2>9, SameShot DEF E
    <3> QED  BY <1>12, <2>1, <2>3, <2>6, <3>1
  <2>10. CASE line[i] \notin Folders
    <3>1. E(i)[q].path = line[i]
      <4>1. line[i] \in Names \cup Folders
        BY <1>1, <2>5
      <4> QED  BY <2>10, <4>1, ExpansionType DEF E
    <3>2. i # j
      BY <2>8, <2>10
    <3>3. i < j
      BY <1>1, <2>1, <2>4, <2>5, <3>2
    <3>4. i \in DOMAIN line /\ j \in DOMAIN line /\ m \in DOMAIN Command!Expansion(line[j])
          /\ Part(line, j, m).path = line[i] /\ path \in Part(line, j, m).companions
      BY <2>1, <2>5, <2>7, <3>1 DEF D, E, Part
    <3>5. IsOverlooked(line, path)
      BY <3>3, <3>4 DEF IsOverlooked
    <3> QED  BY <1>15, <3>5
  <2> QED  BY <2>9, <2>10
<1>16. Expanded(line, unread) = r
  BY DEF Expanded, r, t, lists, D, E
<1> QED  BY <1>12, <1>14, <1>15, <1>16

-----------------------------------------------------------------------------
(* The export command. *)

PathsLeft(found) == {found[k].path : k \in DOMAIN found}

Working == phase \in {"photograph", "develop", "write"}

CommandTypes ==
    /\ arguments \in CommandLine
    /\ unreadable \subseteq DOMAIN arguments
    /\ photographs \in Seq(Photos)
    /\ disk = [each \in Command!Files |-> disk[each]]
    /\ phase \in {"device", "expand", "photograph", "develop", "write", "ended"}

(* What the arguments speak of is there. *)
SourcesAreThere ==
    \A path : IsNamed(arguments, {}, path) \/ IsCompanion(arguments, {}, path) =>
                  FileOf[path] \in Command!Files /\ disk[FileOf[path]] # None

(* The batch knows every file it reads, but for companions that are overlooked. *)
BatchIsKnown ==
    Working =>
        /\ \A path : IsNamed(arguments, unreadable, path) => path \in batchFiles
        /\ \A path :
              IsCompanion(arguments, unreadable, path) /\ ~IsOverlooked(arguments, path) =>
                  path \in batchFiles

(* A destination that was not refused when the photograph was opened is still not refused. *)
StillAllowed == phase \in {"develop", "write"} => photographs # <<>> /\ ~Command!Refused

(* Whatever was exported is at the destination of something written. *)
ExportsAreKnown ==
    \A each \in Command!Files :
        disk[each] \notin {None, "before"} =>
            \E input \in written : FileOf[Destination[output][input]] = each

(* While nothing has failed every photograph is exported, left out or still to come. *)
NothingForgotten ==
    /\ phase \in {"device", "expand"} => written = {} /\ leftOut = {}
    /\ Working =>
          /\ failures \in Nat
          /\ failures = 0 =>
                /\ unreadable = {}
                /\ \A path : IsNamed(arguments, unreadable, path) <=>
                                path \in written \cup leftOut \cup PathsLeft(photographs)
    /\ phase # "ended" => code # "success"

CommandInv ==
    /\ CommandTypes
    /\ SourcesAreThere
    /\ BatchIsKnown
    /\ StillAllowed
    /\ ExportsAreKnown
    /\ NothingForgotten

LEMMA TailIs ==
    ASSUME NEW found \in Seq(Photos), found # <<>>
    PROVE  /\ Tail(found) \in Seq(Photos)
           /\ Head(found) \in Photos
           /\ PathsLeft(found) = {Head(found).path} \cup PathsLeft(Tail(found))
<1>1. /\ Len(found) \in Nat /\ Len(found) > 0 /\ DOMAIN found = 1 .. Len(found)
      /\ found[1] \in Photos
  BY LenProperties, ElementOfSeq, EmptySeq
<1>2. /\ Tail(found) \in Seq(Photos) /\ Len(Tail(found)) = Len(found) - 1
      /\ \A i \in 1 .. Len(found) - 1 : Tail(found)[i] = found[i + 1]
      /\ Head(found) = found[1]
  BY HeadTailProperties
<1> DEFINE n == Len(found)
           rest == Tail(found)
<1>3. DOMAIN rest = 1 .. n - 1
  BY <1>2, LenProperties
<1>4. \A k \in 1 .. n : k = 1 \/ (k - 1 \in 1 .. n - 1 /\ rest[k - 1] = found[k])
  <2> SUFFICES ASSUME NEW k \in 1 .. n, k # 1
               PROVE  k - 1 \in 1 .. n - 1 /\ rest[k - 1] = found[k]
    OBVIOUS
  <2>1. k - 1 \in 1 .. n - 1 /\ (k - 1) + 1 = k
    BY <1>1
  <2> QED  BY <1>2, <2>1
<1>5. \A i \in 1 .. n - 1 : i + 1 \in 1 .. n /\ rest[i] = found[i + 1]
  BY <1>1, <1>2
<1> HIDE DEF rest, n
<1>6. PathsLeft(found) \subseteq {found[1].path} \cup PathsLeft(rest)
  BY <1>1, <1>3, <1>4 DEF PathsLeft, n
<1>7. {found[1].path} \cup PathsLeft(rest) \subseteq PathsLeft(found)
  BY <1>1, <1>3, <1>5 DEF PathsLeft, n
<1> QED  BY <1>1, <1>2, <1>6, <1>7 DEF rest

(* Paths are names, and with no argument left out there are no fewer. *)
LEMMA PathsAreNames ==
    ASSUME NEW line \in CommandLine, NEW unread, NEW path,
           IsNamed(line, unread, path) \/ IsCompanion(line, unread, path)
    PROVE  /\ path \in Names
           /\ IsNamed(line, {}, path) \/ IsCompanion(line, {}, path)
<1>1. \A i \in DOMAIN line : line[i] \in Names \cup Folders
  BY LenProperties, ElementOfSeq DEF CommandLine
<1>2. ASSUME NEW i \in DOMAIN line, NEW m \in DOMAIN Command!Expansion(line[i])
      PROVE  Part(line, i, m) \in Photos
  <2> DEFINE e == Command!Expansion(line[i])
  <2>1. e \in Seq(Photos)
    BY <1>1, ExpansionType
  <2> HIDE DEF e
  <2>2. \A k \in DOMAIN e : e[k] \in Photos
    BY <2>1, LenProperties, ElementOfSeq
  <2> QED  BY <2>2 DEF e, Part
<1>3. path \in Names
  BY <1>2 DEF IsNamed, IsCompanion, Photos
<1> QED  BY <1>3 DEF IsNamed, IsCompanion

LEMMA CommandInit == Command!Init => CommandInv
<1> SUFFICES ASSUME Command!Init
             PROVE  CommandInv
  OBVIOUS
<1>1. arguments \in CommandLine
  BY CommandAssumption DEF Command!Init, CommandLine
<1>2. CommandTypes
  BY <1>1, EmptySeq DEF Command!Init, CommandTypes
<1>3. SourcesAreThere
  <2> SUFFICES ASSUME NEW path, IsNamed(arguments, {}, path) \/ IsCompanion(arguments, {}, path)
               PROVE  FileOf[path] \in Command!Files /\ disk[FileOf[path]] # None
    BY DEF SourcesAreThere
  <2>1. path \in Names
    BY <1>1, PathsAreNames
  <2>2. FileOf[path] \in Command!Files
    BY <2>1, CommandAssumption DEF Command!Files, Command!Range
  <2>3. PICK i \in DOMAIN arguments : \E m \in DOMAIN Command!Expansion(arguments[i]) :
           path \in {Part(arguments, i, m).path} \cup Part(arguments, i, m).companions
    BY DEF IsNamed, IsCompanion
  <2>4. arguments[i] \in Command!Range(arguments)
    BY DEF Command!Range
  <2>5. PICK one \in Command!Range(Command!Expansion(arguments[i])) :
           path \in {one.path} \cup one.companions
    BY <2>3 DEF Command!Range, Part
  <2>6. disk[FileOf[path]] = "before"
    BY <2>4, <2>5 DEF Command!Init
  <2> QED  BY <2>2, <2>6, CommandAssumption
<1>4. BatchIsKnown /\ StillAllowed /\ NothingForgotten
  BY CommandAssumption DEF Command!Init, BatchIsKnown, StillAllowed, NothingForgotten, Working
<1>5. ExportsAreKnown
  BY DEF Command!Init, ExportsAreKnown
<1> QED  BY <1>2, <1>3, <1>4, <1>5 DEF CommandInv

(* Any step that leaves the disk and what the command asked for alone keeps what is on the disk
   known. *)
LEMMA DiskLeftAlone ==
    ASSUME CommandInv, UNCHANGED <<arguments, output, disk, written>>
    PROVE  SourcesAreThere' /\ ExportsAreKnown'
<1>1. SourcesAreThere'
  <2>1. SourcesAreThere
    BY DEF CommandInv
  <2> QED  BY <2>1 DEF SourcesAreThere, Command!Files
<1>2. ExportsAreKnown'
  BY DEF CommandInv, ExportsAreKnown, Command!Files
<1> QED  BY <1>1, <1>2

LEMMA CreateContextKeeps ==
    ASSUME CommandInv, Command!CreateContext
    PROVE  CommandInv'
<1>1. /\ phase = "device" /\ phase' \in {"expand", "ended"}
      /\ phase' # "ended" => code' = code
      /\ UNCHANGED <<arguments, output, overwrite, disk, photographs, unreadable, batchFiles,
                     written, leftOut>>
  BY DEF Command!CreateContext, Command!request
<1>2. SourcesAreThere' /\ ExportsAreKnown'
  BY <1>1, DiskLeftAlone
<1>3. CommandTypes'
  BY <1>1 DEF CommandInv, CommandTypes, Command!Files
<1>4. BatchIsKnown' /\ StillAllowed' /\ NothingForgotten'
  BY <1>1 DEF CommandInv, BatchIsKnown, StillAllowed, NothingForgotten, Working
<1> QED  BY <1>2, <1>3, <1>4 DEF CommandInv

LEMMA ExpandInputsKeeps ==
    ASSUME CommandInv, Command!ExpandInputs
    PROVE  CommandInv'
<1> DEFINE found == Expanded(arguments, unreadable')
<1>1. /\ phase = "expand" /\ phase' = "photograph"
      /\ unreadable' \in SUBSET DOMAIN arguments
      /\ photographs' = found
      /\ batchFiles' = Command!FilesOf(found)
      /\ failures' = Cardinality(unreadable')
      /\ UNCHANGED <<arguments, output, overwrite, disk, written, code, leftOut>>
  <2>1. \A T : Command!Cardinality(T) = Cardinality(T)
    BY DEF Command!Cardinality, Cardinality
  <2> QED  BY <2>1 DEF Command!ExpandInputs, Command!request, Expanded
<1>2. /\ arguments \in CommandLine /\ Len(arguments) \in Nat
      /\ DOMAIN arguments = 1 .. Len(arguments)
  BY LenProperties DEF CommandInv, CommandTypes, CommandLine
<1>3. /\ found \in Seq(Photos)
      /\ \A path : IsNamed(arguments, unreadable', path) <=>
                      \E k \in DOMAIN found : found[k].path = path
      /\ \A path : IsCompanion(arguments, unreadable', path) /\ ~IsOverlooked(arguments, path) =>
                      \E k \in DOMAIN found : path \in found[k].companions
  BY <1>2, ExpandedIs
<1> HIDE DEF found
<1>4. SourcesAreThere' /\ ExportsAreKnown'
  BY <1>1, DiskLeftAlone
<1>5. CommandTypes'
  BY <1>1, <1>2, <1>3 DEF CommandInv, CommandTypes, Command!Files
<1>6. BatchIsKnown'
  <2> SUFFICES ASSUME NEW path,
                      \/ IsNamed(arguments, unreadable', path)
                      \/ /\ IsCompanion(arguments, unreadable', path)
                         /\ ~IsOverlooked(arguments, path)
               PROVE  path \in batchFiles'
    BY <1>1 DEF BatchIsKnown
  <2>1. \E k \in DOMAIN found : path \in {found[k].path} \cup found[k].companions
    BY <1>3
  <2> QED  BY <1>1, <2>1 DEF Command!FilesOf
<1>7. StillAllowed'
  BY <1>1 DEF StillAllowed
<1>8. NothingForgotten'
  <2>1. written = {} /\ leftOut = {} /\ code # "success"
    BY <1>1 DEF CommandInv, NothingForgotten
  <2>2. IsFiniteSet(unreadable')
    <3>1. IsFiniteSet(DOMAIN arguments)
      BY <1>2, FS_Interval
    <3> QED  BY <1>1, <3>1, FS_Subset
  <2>3. failures' \in Nat /\ (failures' = 0 => unreadable' = {})
    BY <1>1, <2>2, FS_CardinalityType, FS_EmptySet
  <2>4. \A path : IsNamed(arguments', unreadable', path) <=>
                      path \in written' \cup leftOut' \cup PathsLeft(photographs')
    BY <1>1, <1>3, <2>1 DEF PathsLeft
  <2> QED  BY <1>1, <2>1, <2>3, <2>4 DEF NothingForgotten
<1> QED  BY <1>4, <1>5, <1>6, <1>7, <1>8 DEF CommandInv

(* The next photograph is begun: whether the last was left out or failed. *)
LEMMA PassedOver ==
    ASSUME CommandInv, Working, photographs # <<>>,
           phase' = "photograph", photographs' = Tail(photographs),
           UNCHANGED <<arguments, output, overwrite, disk, unreadable, batchFiles, written, code>>,
           \/ leftOut' = leftOut \cup {Command!Current} /\ failures' = failures
           \/ leftOut' = leftOut /\ failures' = failures + 1
    PROVE  CommandInv'
<1>1. photographs \in Seq(Photos) /\ phase # "ended"
  BY DEF CommandInv, CommandTypes, Working
<1>2. /\ photographs' \in Seq(Photos)
      /\ PathsLeft(photographs) = {Command!Current} \cup PathsLeft(photographs')
  BY <1>1, TailIs DEF Command!Current
<1>3. SourcesAreThere' /\ ExportsAreKnown'
  BY DiskLeftAlone
<1>4. CommandTypes'
  BY <1>2 DEF CommandInv, CommandTypes, Command!Files
<1>5. BatchIsKnown' /\ StillAllowed'
  BY DEF CommandInv, BatchIsKnown, StillAllowed, Working
<1>6. NothingForgotten'
  <2>1. /\ failures \in Nat
        /\ failures = 0 =>
              /\ unreadable = {}
              /\ \A path : IsNamed(arguments, unreadable, path) <=>
                              path \in written \cup leftOut \cup PathsLeft(photographs)
        /\ code # "success"
    BY <1>1 DEF CommandInv, NothingForgotten
  <2>2. CASE leftOut' = leftOut \cup {Command!Current} /\ failures' = failures
    <3>1. failures' \in Nat
      BY <2>1, <2>2
    <3>2. ASSUME failures' = 0
          PROVE  /\ unreadable' = {}
                 /\ \A path : IsNamed(arguments', unreadable', path) <=>
                                 path \in written' \cup leftOut' \cup PathsLeft(photographs')
      BY <1>2, <2>1, <2>2, <3>2
    <3> QED  BY <2>1, <3>1, <3>2 DEF NothingForgotten
  <2>3. CASE leftOut' = leftOut /\ failures' = failures + 1
    <3>1. failures' \in Nat /\ failures' # 0
      BY <2>1, <2>3
    <3> QED  BY <2>1, <3>1 DEF NothingForgotten
  <2> QED  BY <2>2, <2>3
<1> QED  BY <1>3, <1>4, <1>5, <1>6 DEF CommandInv

LEMMA PassingKeeps ==
    ASSUME CommandInv, Command!LeaveOut \/ Command!Fail
    PROVE  CommandInv'
<1>1. photographs # <<>> /\ Working
  BY DEF CommandInv, StillAllowed, Working, Command!LeaveOut, Command!Fail
<1>2. failures \in Nat
  BY <1>1 DEF CommandInv, NothingForgotten
<1>3. /\ phase' = "photograph" /\ photographs' = Tail(photographs)
      /\ UNCHANGED <<arguments, output, overwrite, disk, unreadable, batchFiles, written, code>>
      /\ \/ leftOut' = leftOut \cup {Command!Current} /\ failures' = failures
         \/ leftOut' = leftOut /\ failures' = failures + 1
  BY <1>2 DEF Command!LeaveOut, Command!Fail, Command!Done, Command!request
<1> QED  BY <1>1, <1>3, PassedOver

(* What is refused depends on these and nothing else. *)
LEMMA RefusedStays ==
    ASSUME UNCHANGED <<output, overwrite, disk, photographs, batchFiles, written>>
    PROVE  Command!Refused' = Command!Refused
BY DEF Command!Refused, Command!SameFileIn, Command!Exists, Command!Target, Command!Current

LEMMA OpeningKeeps ==
    ASSUME CommandInv, Command!Open \/ Command!Develop
    PROVE  CommandInv'
<1>1. /\ Working /\ phase' \in {"develop", "write"} /\ photographs # <<>> /\ ~Command!Refused
      /\ UNCHANGED <<arguments, output, overwrite, disk, photographs, unreadable, batchFiles,
                     written, failures, code, leftOut>>
  BY DEF CommandInv, StillAllowed, Working, Command!Open, Command!Develop, Command!request
<1>2. SourcesAreThere' /\ ExportsAreKnown'
  BY <1>1, DiskLeftAlone
<1>3. CommandTypes'
  BY <1>1 DEF CommandInv, CommandTypes, Command!Files
<1>4. StillAllowed'
  <2>1. Command!Refused' = Command!Refused
    BY <1>1, RefusedStays
  <2> QED  BY <1>1, <2>1 DEF StillAllowed
<1>5. BatchIsKnown' /\ NothingForgotten'
  BY <1>1 DEF CommandInv, BatchIsKnown, NothingForgotten, Working
<1> QED  BY <1>2, <1>3, <1>4, <1>5 DEF CommandInv

LEMMA WriteKeeps ==
    ASSUME CommandInv, Command!Write
    PROVE  CommandInv'
<1> DEFINE target == FileOf[Command!Target]
           current == Command!Current
<1>1. /\ phase = "write" /\ phase' = "photograph" /\ photographs # <<>>
      /\ photographs' = Tail(photographs)
      /\ photographs \in Seq(Photos)
      /\ disk' = [disk EXCEPT ![target] = current]
      /\ written' = written \cup {current}
      /\ failures \in Nat /\ failures' = failures
      /\ UNCHANGED <<arguments, output, overwrite, unreadable, batchFiles, code, leftOut>>
  <2>1. phase = "write" /\ photographs # <<>> /\ photographs \in Seq(Photos) /\ failures \in Nat
    BY DEF CommandInv, StillAllowed, CommandTypes, NothingForgotten, Working, Command!Write
  <2> QED  BY <2>1 DEF Command!Write, Command!Done, Command!request
<1>2. /\ photographs' \in Seq(Photos)
      /\ PathsLeft(photographs) = {current} \cup PathsLeft(photographs')
      /\ current # None
  <2>1. Head(photographs) \in Photos /\ Tail(photographs) \in Seq(Photos)
        /\ PathsLeft(photographs) = {Head(photographs).path} \cup PathsLeft(Tail(photographs))
    BY <1>1, TailIs
  <2>2. current = Head(photographs).path /\ current \in Names
    BY <2>1 DEF Command!Current, Photos
  <2> HIDE DEF current
  <2> QED  BY <1>1, <2>1, <2>2, CommandAssumption
<1>3. target = FileOf[Destination[output][current]]
  BY DEF Command!Target
<1> HIDE DEF target, current
<1>4. \A each \in Command!Files : disk'[each] = IF each = target THEN current ELSE disk[each]
  BY <1>1 DEF CommandInv, CommandTypes
<1>5. CommandTypes'
  <2>1. disk' = [each \in Command!Files |-> disk'[each]]
    BY <1>1 DEF CommandInv, CommandTypes
  <2> QED  BY <1>1, <1>2, <2>1 DEF CommandInv, CommandTypes, Command!Files
<1>6. SourcesAreThere'
  <2> SUFFICES ASSUME NEW path, IsNamed(arguments, {}, path) \/ IsCompanion(arguments, {}, path)
               PROVE  FileOf[path] \in Command!Files /\ disk'[FileOf[path]] # None
    BY <1>1 DEF SourcesAreThere, Command!Files
  <2>1. FileOf[path] \in Command!Files /\ disk[FileOf[path]] # None
    BY DEF CommandInv, SourcesAreThere
  <2> QED  BY <1>2, <1>4, <2>1
<1>7. ExportsAreKnown'
  <2> SUFFICES ASSUME NEW each \in Command!Files, disk'[each] \notin {None, "before"}
               PROVE  \E input \in written' : FileOf[Destination[output][input]] = each
    BY <1>1 DEF ExportsAreKnown, Command!Files
  <2>1. CASE each = target
    BY <1>1, <1>3, <2>1
  <2>2. CASE each # target
    BY <1>1, <1>4, <2>2 DEF CommandInv, ExportsAreKnown
  <2> QED  BY <2>1, <2>2
<1>8. BatchIsKnown' /\ StillAllowed'
  BY <1>1 DEF CommandInv, BatchIsKnown, StillAllowed, Working
<1>9. NothingForgotten'
  BY <1>1, <1>2 DEF CommandInv, NothingForgotten, Working
<1> QED  BY <1>5, <1>6, <1>7, <1>8, <1>9 DEF CommandInv

LEMMA EndKeeps ==
    ASSUME CommandInv, Command!End
    PROVE  CommandInv'
<1>1. /\ phase' = "ended"
      /\ UNCHANGED <<arguments, output, overwrite, disk, photographs, unreadable, batchFiles,
                     written>>
  BY DEF Command!End, Command!request
<1>2. SourcesAreThere' /\ ExportsAreKnown'
  BY <1>1, DiskLeftAlone
<1>3. CommandTypes'
  BY <1>1 DEF CommandInv, CommandTypes, Command!Files
<1>4. BatchIsKnown' /\ StillAllowed' /\ NothingForgotten'
  BY <1>1 DEF BatchIsKnown, StillAllowed, NothingForgotten, Working
<1> QED  BY <1>2, <1>3, <1>4 DEF CommandInv

LEMMA CommandStep == CommandInv /\ [Command!Next]_commandVars => CommandInv'
<1> SUFFICES ASSUME CommandInv, [Command!Next]_commandVars
             PROVE  CommandInv'
  OBVIOUS
<1>1. CASE UNCHANGED commandVars
  <2>1. SourcesAreThere' /\ ExportsAreKnown'
    BY <1>1, DiskLeftAlone DEF commandVars
  <2>2. Command!Refused' = Command!Refused
    BY <1>1, RefusedStays DEF commandVars
  <2>3. CommandTypes' /\ BatchIsKnown' /\ StillAllowed' /\ NothingForgotten'
    BY <1>1, <2>2
       DEF commandVars, CommandInv, CommandTypes, BatchIsKnown, StillAllowed, NothingForgotten,
           Working, Command!Files
  <2> QED  BY <2>1, <2>3 DEF CommandInv
<1> QED
  BY <1>1, CreateContextKeeps, ExpandInputsKeeps, PassingKeeps, OpeningKeeps, WriteKeeps, EndKeeps
     DEF Command!Next

(* The names of Named, Companions and Overlooked are those above. *)
LEMMA SourcesAre ==
    /\ \A path \in Command!Named : IsNamed(arguments, unreadable, path)
    /\ \A path : IsNamed(arguments, unreadable, path) => path \in Command!Named
    /\ \A path \in Command!Companions \ Command!Overlooked :
          /\ IsCompanion(arguments, unreadable, path)
          /\ ~IsOverlooked(arguments, path)
<1>1. \A path : IsNamed(arguments, unreadable, path) <=> path \in Command!Named
  BY DEF Command!Named, Command!Sources, Command!Range, IsNamed, Part
<1>2. \A path \in Command!Companions : IsCompanion(arguments, unreadable, path)
  BY DEF Command!Companions, Command!Sources, Command!Range, IsCompanion, Part
<1>3. \A path \in Command!Companions : IsOverlooked(arguments, path) => path \in Command!Overlooked
  BY DEF Command!Overlooked, Command!Range, IsOverlooked, Part
<1> QED  BY <1>1, <1>2, <1>3

(* What NothingIsReplaced asks of a step. *)
ReplacesNothing ==
    /\ \A each \in Command!Files :
          disk'[each] # disk[each] =>
              /\ \A name \in Command!Named \cup (Command!Companions \ Command!Overlooked) :
                    FileOf[name] # each
              /\ disk[each] \in {None, "before"}
              /\ ~overwrite => disk[each] = None
    /\ code' = "success" => unreadable = {} /\ Command!Named = written \cup leftOut

LEMMA CommandStepReplacesNothing ==
    CommandInv /\ Command!Next => ReplacesNothing
<1> SUFFICES ASSUME CommandInv, Command!Next
             PROVE  ReplacesNothing
  OBVIOUS
<1>1. ASSUME NEW each \in Command!Files, disk'[each] # disk[each]
      PROVE  /\ \A name \in Command!Named \cup (Command!Companions \ Command!Overlooked) :
                   FileOf[name] # each
             /\ disk[each] \in {None, "before"}
             /\ ~overwrite => disk[each] = None
  <2> DEFINE target == Command!Target
  <2>1. Command!Write
    BY <1>1 DEF Command!Next, Command!CreateContext, Command!ExpandInputs, Command!LeaveOut,
                Command!Fail, Command!Open, Command!Develop, Command!End
  <2>2. each = FileOf[target]
    BY <1>1, <2>1 DEF Command!Write, CommandInv, CommandTypes
  <2>3. /\ ~Command!SameFileIn(target, batchFiles)
        /\ ~Command!SameFileIn(target, {Destination[output][input] : input \in written})
        /\ overwrite \/ ~Command!Exists(target)
    BY <2>1 DEF Command!Write, CommandInv, StillAllowed, Command!Refused
  <2> HIDE DEF target
  <2>4. disk[each] # None =>
            /\ \A other \in batchFiles : FileOf[other] # each
            /\ \A input \in written : FileOf[Destination[output][input]] # each
            /\ overwrite
    BY <2>2, <2>3 DEF Command!SameFileIn, Command!Exists
  <2>5. ASSUME NEW name \in Command!Named \cup (Command!Companions \ Command!Overlooked)
        PROVE  FileOf[name] # each
    <3>1. \/ IsNamed(arguments, unreadable, name)
          \/ IsCompanion(arguments, unreadable, name) /\ ~IsOverlooked(arguments, name)
      BY SourcesAre
    <3>2. name \in batchFiles
      BY <2>1, <3>1 DEF Command!Write, CommandInv, BatchIsKnown, Working
    <3>3. disk[FileOf[name]] # None
      <4>1. arguments \in CommandLine
        BY DEF CommandInv, CommandTypes
      <4>2. IsNamed(arguments, {}, name) \/ IsCompanion(arguments, {}, name)
        BY <3>1, <4>1, PathsAreNames
      <4> QED  BY <4>2 DEF CommandInv, SourcesAreThere
    <3> QED  BY <2>4, <3>2, <3>3
  <2>6. disk[each] \in {None, "before"}
    BY <2>4 DEF CommandInv, ExportsAreKnown
  <2> QED  BY <2>4, <2>5, <2>6
<1>2. ASSUME code' = "success"
      PROVE  unreadable = {} /\ Command!Named = written \cup leftOut
  <2>1. phase # "ended"
    BY DEF Command!Next, Command!CreateContext, Command!ExpandInputs, Command!LeaveOut,
           Command!Fail, Command!Open, Command!Develop, Command!Write, Command!End
  <2>2. code # "success"
    BY <2>1 DEF CommandInv, NothingForgotten
  <2>3. Command!End
    BY <1>2, <2>2
       DEF Command!Next, Command!CreateContext, Command!ExpandInputs, Command!LeaveOut,
           Command!Fail, Command!Open, Command!Develop, Command!Write
  <2>4. Working /\ photographs = <<>> /\ ~(failures > 0)
    BY <1>2, <2>3 DEF Command!End, Working
  <2>5. /\ unreadable = {}
        /\ \A path : IsNamed(arguments, unreadable, path) <=>
                        path \in written \cup leftOut \cup PathsLeft(photographs)
    BY <2>4 DEF CommandInv, NothingForgotten
  <2>6. PathsLeft(photographs) = {}
    BY <2>4 DEF PathsLeft
  <2>7. \A path : path \in Command!Named <=> path \in written \cup leftOut
    BY <2>5, <2>6, SourcesAre
  <2> QED  BY <2>5, <2>7
<1> QED  BY <1>1, <1>2 DEF ReplacesNothing

LEMMA CommandAlwaysInv == MCSpec => []CommandInv
<1>1. MCInit => CommandInv
  BY CommandInit DEF MCInit
<1>2. CommandInv /\ [MCNext]_MCvars => CommandInv'
  <2>1. [MCNext]_MCvars => [Command!Next]_commandVars
    BY DEF MCNext, MCvars, InLadders, InCommand, InPresets
  <2> QED  BY <2>1, CommandStep
<1> QED  BY <1>1, <1>2, PTL DEF MCSpec

(* An export never replaces what the command reads, and, unless it was told to, nothing; and the
   command says success only of everything. *)
THEOREM ExportsReplaceNothing == MCSpec => NothingIsReplaced
<1>1. CommandInv /\ [MCNext]_MCvars => [ReplacesNothing]_commandVars
  <2>1. [MCNext]_MCvars => [Command!Next]_commandVars
    BY DEF MCNext, MCvars, InLadders, InCommand, InPresets
  <2> QED  BY <2>1, CommandStepReplacesNothing
<1>2. [ReplacesNothing]_commandVars
          <=> [/\ \A each \in Command!Files :
                     disk'[each] # disk[each] =>
                         /\ \A name \in Command!Named
                                            \cup (Command!Companions \ Command!Overlooked) :
                               FileOf[name] # each
                         /\ disk[each] \in {None, "before"}
                         /\ ~overwrite => disk[each] = None
               /\ code' = "success" =>
                     unreadable = {} /\ Command!Named = written \cup leftOut]_Command!vars
  <2>1. commandVars' = commandVars <=> Command!vars' = Command!vars
    BY DEF commandVars, Command!vars, Command!request
  <2> QED  BY <2>1 DEF ReplacesNothing
<1>3. MCSpec => [][ReplacesNothing]_commandVars
  BY <1>1, CommandAlwaysInv, PTL DEF MCSpec
<1> QED
  BY <1>2, <1>3, PTL DEF NothingIsReplaced, Command!NothingIsReplaced
=============================================================================
