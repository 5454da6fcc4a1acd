-------------------------- MODULE PageWarmerProofs --------------------------
(***************************************************************************)
(* The ring of warmed pages, for every ring, distance and number of pages: *)
(* the warmer never uses a slot again before the writer has let go of it,  *)
(* so that every mapping has one owner, a claim yields the page asked for, *)
(* and no page from the ring loses its frames.                             *)
(***************************************************************************)
EXTENDS PageWarmer, FiniteSetTheorems, TLAPS

-----------------------------------------------------------------------------
(* Where the two threads are. *)

Mapping == Addrs \cup {Null}

\* The warmer has a slot.
Busy == warmer \in {"sample", "stat", "map", "zero", "header", "fill", "publish"}

\* The writer has claimed a slot and not let go of it.
Holding == writer \in {"take", "disown"}

WarmerTypeOK ==
  /\ file \in [Pages -> {"absent", "sized", "ready"}]
  /\ written \subseteq Pages /\ viaRing \subseteq Pages
  /\ mapped \in [Addrs -> Nat]
  /\ pageId \in [Slots -> Pages \cup {Empty, Warming}]
  /\ address \in [Slots -> Mapping]
  /\ writeIndex \in Slots /\ readIndex \in Slots /\ currentPage \in Int
  /\ writer \in {"update", "idle", "look", "claim", "take", "disown", "validate",
                 "sample", "map", "zero", "header", "swap", "joinWarmer", "clear", "gone"}
  /\ current \in Mapping /\ next \in Mapping /\ addr \in Mapping
  /\ currentId \in 1 .. MaxPage /\ onPage \in 1 .. MaxPage /\ probe \in Nat
  /\ retired \in Seq(Addrs)
  /\ warmer \in {"loop", "next", "claim", "sample", "stat", "map", "zero", "header",
                 "fill", "publish", "clean", "done"}
  /\ seen \in Int /\ step \in Nat

FlagsOK == frames \in [Pages -> BOOLEAN] /\ owned \in [Slots -> BOOLEAN]

\* In rotatePage until it has the new page.
GettingPage == writer \in {"look", "claim", "take", "disown", "validate", "sample", "map",
                          "zero", "header"}

\* updateCurrentPage comes after the new page is there, and not at all when a load
\* throws.
CurrentPage ==
  /\ currentPage <= currentId
  /\ GettingPage \/ writer = "update" => currentPage < currentId
  /\ currentPage >= 1 \/ (currentPage = -1 /\ writer = "update" /\ currentId = 1)

\* Only the constructor has no page before the current one.
Rotating ==
  /\ writer \notin {"update", "idle", "joinWarmer", "clear", "gone"} => currentId > 1
  /\ writer = "update" /\ next # Null => currentId > 1
  /\ writer = "swap" => next # Null
  /\ writer \notin {"clear", "gone"} => current # Null

InRing(p) == \E s \in Slots : pageId[s] = p

\* The warmer works on a page ahead of one the writer was on, which is not in
\* the ring.
WarmerAt ==
  /\ seen <= currentPage
  /\ warmer \notin {"loop", "done"} => seen >= 1 /\ step \in 1 .. warmupDistance + 1
  /\ warmer = "claim" \/ Busy => step <= warmupDistance /\ ~InRing(Target)

\* A page is in one slot, and only the warmer's slot is being warmed.
RingShape ==
  /\ \A s \in Slots : pageId[s] \in Pages => pageId[s] <= seen + warmupDistance
  /\ \A s \in Slots : pageId[s] = Warming <=> Busy /\ s = writeIndex
  /\ \A s, t \in Slots : pageId[s] \in Pages /\ pageId[s] = pageId[t] => s = t

PlacesInv == /\ WarmerTypeOK /\ FlagsOK /\ CurrentPage /\ Rotating
             /\ WarmerAt /\ RingShape

-----------------------------------------------------------------------------
(* Frames of pages from the ring. *)

\* Files do not vanish: those of the pages in the ring are there, and so is the
\* one the warmer has mapped.
FilesThere ==
  /\ \A s \in Slots : pageId[s] \in Pages => file[pageId[s]] # "absent"
  /\ warmer \in {"zero", "header", "fill", "publish"} => file[Target] # "absent"

\* A page that was claimed existed before any later warm-up of it looked.
SeenToExist(p) ==
  /\ file[p] # "absent"
  /\ Target = p /\ warmer \in {"stat", "map", "zero", "header"} => existed
  /\ Target = p /\ warmer \in {"map", "zero", "header"} => exists

ClaimedExist ==
  /\ \A p \in viaRing : SeenToExist(p)
  /\ writer = "take" => SeenToExist(currentId)

\* Nothing is written ahead of the page the writer is on.
WrittenBehind ==
  /\ onPage <= currentId
  /\ GettingPage \/ writer = "swap" \/ (writer = "update" /\ next # Null) => onPage < currentId
  /\ \A p \in written : p <= onPage

KeptInv == PlacesInv /\ FilesThere /\ ClaimedExist /\ WrittenBehind /\ RingPagesKept

-----------------------------------------------------------------------------
(* A claimed slot is left alone: how far the ring can turn. *)

\* The writer may still ask for the page.
Live(p) == p > currentId \/ (p = currentId /\ writer \in {"look", "claim"})

\* The slot is one the writer may claim for p, or has.
Hot(s, p) == \/ pageId[s] = p /\ Live(p)
             \/ Holding /\ s = ProbedSlot /\ p = currentId

\* How many pages were published since, the slot's own included.
Age(s) == IF s < writeIndex THEN writeIndex - s ELSE writeIndex + RingSize - s

\* The pages near p that may be published once more while they can be asked for.
Holes(p) ==
  {q \in p - warmupDistance + 1 .. p + warmupDistance - 1 : Live(q) /\ ~InRing(q)}

\* The pages up to p that were published too late.
Spent(p) == {q \in (p - warmupDistance + 1 .. p) \cap Pages : ~Live(q) /\ InRing(q)}

TurnsLeft ==
  \A s \in Slots, p \in Pages :
    Hot(s, p) => /\ p <= seen + warmupDistance
                 /\ Age(s) + Cardinality(Holes(p)) <= Turns + Cardinality(Spent(p))

\* Without failures the warmer skips a page only when the ring is full.
NoneSkipped ==
  (WarmFailures = {} /\ warmer \notin {"loop", "done"}) =>
    \/ \A q \in seen + 1 .. seen + step - 1 : Live(q) => InRing(q)
    \/ pageId[writeIndex] \in Pages

RingInv == PlacesInv /\ NoneSkipped /\ TurnsLeft

\* What follows: the warmer does not come upon such a slot.
SlotLeftAlone ==
  \A s \in Slots, p \in Pages :
    Hot(s, p) /\ (warmer = "claim" \/ Busy \/ ~Holding) => s # writeIndex

-----------------------------------------------------------------------------
(* Ownership. *)

Single == {current, next, addr} \ {Null}

\* Locals and members hold mappings in the stages that use them.
LocalsInUse ==
  /\ next # Null <=> writer \in {"disown", "validate", "zero", "header", "swap"}
                     \/ (writer = "update" /\ currentPage # -1)
  /\ addr # Null <=> warmer \in {"zero", "header", "fill"}
  /\ current = Null <=> writer \in {"clear", "gone"}
  /\ writer \in {"clear", "gone"} => warmer = "done"

\* A slot owns what it was filled with until the writer has it.
SlotsOwn ==
  /\ \A s \in Slots :
       owned[s] <=> /\ writer \notin {"clear", "gone"}
                    /\ \/ pageId[s] \in Pages
                       \/ warmer = "publish" /\ s = writeIndex
                       \/ Holding /\ s = ProbedSlot
  /\ Holding => pageId[ProbedSlot] = Empty

\* Of which page each mapping is.
Labels ==
  /\ \A s \in Slots : pageId[s] \in Pages /\ owned[s] =>
       address[s] # Null /\ mapped[address[s]] = pageId[s]
  /\ addr # Null => mapped[addr] = Target
  /\ warmer = "publish" => address[writeIndex] # Null /\ mapped[address[writeIndex]] = Target
  /\ writer = "take" => address[ProbedSlot] # Null /\ mapped[address[ProbedSlot]] = currentId
  /\ writer \in {"disown", "validate"} => mapped[next] = currentId

Apart ==
  /\ current # Null => current # next /\ current # addr
  /\ next # Null => next # addr
  /\ \A i \in 1 .. Len(retired) : retired[i] \notin Single
  /\ \A i, j \in 1 .. Len(retired) : i # j => retired[i] # retired[j]
  /\ \A s \in OwningSlots : address[s] \notin Single
  /\ \A s \in OwningSlots : \A i \in 1 .. Len(retired) : address[s] # retired[i]
  /\ \A s, t \in OwningSlots : s # t => address[s] # address[t]

HeldIsMapped ==
  /\ \A a \in Single : mapped[a] # 0
  /\ \A i \in 1 .. Len(retired) : mapped[retired[i]] # 0
  /\ \A s \in OwningSlots : address[s] # Null /\ mapped[address[s]] # 0
MappedIsHeld ==
  \A a \in Addrs : mapped[a] # 0 =>
    \/ a \in Single
    \/ \E i \in 1 .. Len(retired) : retired[i] = a
    \/ \E s \in OwningSlots : address[s] = a

\* loadFromAddress accepts what was claimed (shown below, with the headers).
ClaimedReady == writer = "validate" => file[currentId] = "ready"

OwnInv == /\ RingInv /\ LocalsInUse /\ SlotsOwn /\ Labels
          /\ Apart /\ HeldIsMapped /\ MappedIsHeld

-----------------------------------------------------------------------------
(* Headers. *)

\* A page the writer may ask for has no file or a whole one, unless the warmer is
\* making it.
LivePagesWhole ==
  \A p \in Pages : Live(p) =>
    \/ file[p] \in {"absent", "ready"}
    \/ Target = p /\ warmer \in {"zero", "header"} /\ ~existed

\* What the warmer saw of such a page is still so.
WarmupOfLive ==
  Live(Target) =>
    /\ warmer \in {"stat", "map"} => file[Target] = IF existed THEN "ready" ELSE "absent"
    /\ warmer \in {"map", "zero", "header"} => (exists <=> existed)
    /\ warmer \in {"zero", "header"} /\ existed => file[Target] = "ready"
    /\ warmer \in {"fill", "publish"} => file[Target] = "ready"

\* And those in the ring, or claimed, are ready.
RingPagesReady ==
  /\ \A s \in Slots : pageId[s] \in Pages /\ Live(pageId[s]) => file[pageId[s]] = "ready"
  /\ writer \in {"take", "disown", "validate"} => file[currentId] = "ready"
  /\ writer \in {"disown", "validate"} => currentId \in viaRing

ReadyInv == KeptInv /\ LivePagesWhole /\ WarmupOfLive /\ RingPagesReady

-----------------------------------------------------------------------------
(* Numbers. *)

\* What the constructor makes sure of.
LEMMA Sizes ==
  /\ RingSize \in Nat /\ RingSize >= 2 /\ MaxPage \in Nat /\ MaxPage >= 1
  /\ warmupDistance \in Nat /\ warmupDistance >= 1 /\ 2 * warmupDistance <= RingSize
<1>1. RingSize \in Nat \ {0, 1} /\ WarmupPages \in 1 .. RingSize /\ MaxPage \in Nat \ {0}
  BY WarmerAssumption, Zenon
<1>2. ASSUME NEW r \in Nat, r >= 2
      PROVE  r \div 2 \in Nat /\ r \div 2 >= 1 /\ 2 * (r \div 2) <= r
  BY <1>2
<1>3. RingSize >= 2 /\ MaxPage >= 1
  BY <1>1
<1>4. /\ warmupDistance \in Nat /\ warmupDistance >= 1 /\ 2 * warmupDistance <= RingSize
  BY <1>1, <1>2, <1>3 DEF warmupDistance
<1> QED BY <1>1, <1>3, <1>4

\* Indices into the ring.
LEMMA RingIndex ==
  ASSUME NEW n \in Nat
  PROVE  n % RingSize \in Slots /\ (n \in Slots => n % RingSize = n)
<1>1. ASSUME NEW r \in Nat, r >= 2 PROVE n % r \in 0 .. r - 1
  BY <1>1
<1>2. ASSUME NEW r \in Nat, r >= 2, n \in 0 .. r - 1 PROVE n % r = n
  BY <1>2
<1> QED BY <1>1, <1>2, Sizes DEF Slots

\* The next index.
LEMMA NextIndex ==
  ASSUME NEW i \in Slots
  PROVE  (i + 1) % RingSize = IF i + 1 = RingSize THEN 0 ELSE i + 1
<1>1. ASSUME NEW r \in Nat, r >= 2 PROVE r % r = 0
  BY <1>1
<1>2. ASSUME NEW r \in Nat, r >= 2, i + 1 \in 0 .. r - 1 PROVE (i + 1) % r = i + 1
  BY <1>2
<1> QED BY <1>1, <1>2, Sizes DEF Slots

\* Slots and pages are numbers, and a slot's two other states are no pages.
LEMMA Ranges ==
  ASSUME WarmerTypeOK
  PROVE  /\ WriteSlot = writeIndex /\ writeIndex \in Slots /\ ProbedSlot \in Slots
         /\ \A s \in Slots : s \in Nat /\ s < RingSize
         /\ \A p \in Pages : p \in Nat /\ p >= 1 /\ p # Empty /\ p # Warming
         /\ currentId \in Nat /\ currentId >= 1 /\ currentId <= MaxPage
         /\ currentId \in Pages
         /\ \A s \in Slots : \/ pageId[s] \in Pages
                             \/ pageId[s] = Empty
                             \/ pageId[s] = Warming
         /\ \A s \in Slots : pageId[s] \in Int
<1>1. writeIndex \in Slots /\ readIndex \in Slots /\ probe \in Nat
  BY DEF WarmerTypeOK
<1>2. \A s \in Slots : s \in Nat /\ s < RingSize
  BY Sizes DEF Slots
<1>3. \A p \in Pages : p \in Nat /\ p >= 1 /\ p # Empty /\ p # Warming
  BY Sizes DEF Pages, Empty, Warming
<1>4. /\ currentId \in Nat /\ currentId >= 1 /\ currentId <= MaxPage
      /\ currentId \in Pages
  BY Sizes DEF WarmerTypeOK, Pages
<1>5. WriteSlot = writeIndex
  BY <1>1, <1>2, RingIndex DEF WriteSlot
<1>6. readIndex + probe \in Nat
  BY <1>1, <1>2
<1>7. ProbedSlot \in Slots
  BY <1>6, RingIndex DEF ProbedSlot
<1>8. \A s \in Slots : \/ pageId[s] \in Pages
                       \/ pageId[s] = Empty
                       \/ pageId[s] = Warming
  BY DEF WarmerTypeOK
<1>9. \A s \in Slots : pageId[s] \in Int
  BY <1>3, <1>8 DEF Empty, Warming
<1> QED BY <1>1, <1>2, <1>3, <1>4, <1>5, <1>7, <1>8, <1>9

\* The page the warmer is at.
LEMMA TargetRange ==
  ASSUME PlacesInv, warmer \notin {"loop", "done"}
  PROVE  /\ seen \in Nat /\ seen >= 1 /\ seen <= currentPage /\ currentPage \in Nat
         /\ currentPage <= currentId
         /\ step \in Nat /\ step >= 1 /\ step <= warmupDistance + 1
         /\ Target \in Nat /\ Target = seen + step
         /\ warmer = "claim" \/ Busy => /\ Target \in Pages /\ step <= warmupDistance
                                        /\ ~InRing(Target)
<1>1. /\ seen \in Int /\ step \in Nat /\ currentPage \in Int /\ currentId \in Nat
      /\ currentId >= 1 /\ currentId <= MaxPage
  BY Ranges DEF PlacesInv, WarmerTypeOK
<1>2. seen >= 1 /\ step \in 1 .. warmupDistance + 1 /\ seen <= currentPage
  BY DEF PlacesInv, WarmerAt
<1>3. currentPage <= currentId
  BY DEF PlacesInv, CurrentPage
<1>4. warmer = "claim" \/ Busy => step <= warmupDistance /\ ~InRing(Target)
  BY DEF PlacesInv, WarmerAt
<1>5. Target \in Nat /\ Target = seen + step
  BY <1>1, <1>2 DEF Target
<1>6. step <= warmupDistance => Target \in Pages
  BY <1>1, <1>2, <1>3, <1>5, Sizes DEF Pages
<1> QED BY <1>1, <1>2, <1>3, <1>4, <1>5, <1>6, Sizes

\* An address mmap may return is one.
LEMMA FreeAddrFree ==
  ASSUME \E a \in Addrs : mapped[a] = 0
  PROVE  FreeAddr \in Addrs /\ mapped[FreeAddr] = 0
BY DEF FreeAddr

-----------------------------------------------------------------------------
(* The threads' places. *)

\* A writer starts with an empty ring, before its first announcement.
LEMMA PlacesInit == Init => PlacesInv
<1> SUFFICES ASSUME Init PROVE PlacesInv
  OBVIOUS
<1>a. Addrs # {} /\ Null \notin Addrs /\ RetainedLimit \in Nat
  BY WarmerAssumption, Zenon
<1>1. WarmerTypeOK
  <2>1. file \in [Pages -> {"absent", "sized", "ready"}]
    BY DEF Init
  <2>2. PICK a \in Addrs : mapped = [b \in Addrs |-> IF b = a THEN 1 ELSE 0] /\ current = a
    BY <1>a DEF Init
  <2>3. 0 \in Slots /\ 1 \in 1 .. MaxPage
    BY Sizes DEF Slots
  <2> QED BY <2>1, <2>2, <2>3 DEF Init, WarmerTypeOK, Mapping
<1>2. FlagsOK
  BY Zenon DEF Init, FlagsOK
<1>3. CurrentPage /\ WarmerAt
  BY DEF Init, CurrentPage, GettingPage, WarmerAt, Busy
<1>5. Rotating
  <2>1. current # Null
    BY <1>a DEF Init
  <2> QED BY <2>1 DEF Init, Rotating
<1>4. RingShape
  <2>1. \A s \in Slots : pageId[s] = Empty
    BY DEF Init
  <2>2. Empty \notin Pages /\ Empty # Warming
    BY Sizes DEF Pages, Empty, Warming
  <2>3. ~Busy
    BY DEF Init, Busy
  <2> QED BY <2>1, <2>2, <2>3 DEF RingShape
<1> QED BY <1>1, <1>2, <1>3, <1>4, <1>5 DEF PlacesInv

\* The flags.
LEMMA FlagsNext == FlagsOK /\ [Next]_vars => FlagsOK'
<1> SUFFICES ASSUME FlagsOK, [Next]_vars PROVE FlagsOK'
  OBVIOUS
<1> USE DEF FlagsOK, fileVars, ringVars, writerVars, warmerVars, indexVars
<1>1. CASE Commit
  <2>1. frames' = [frames EXCEPT ![onPage] = TRUE] /\ owned' = owned
    BY <1>1, Zenon DEF Commit
  <2> QED BY <2>1, Zenon
<1>2. CASE RotateStep
  <2>1. CASE Disown
    <3>1. frames' = frames /\ owned' = [owned EXCEPT ![ProbedSlot] = FALSE]
      BY <2>1, Zenon DEF Disown
    <3> QED BY <3>1, Zenon
  <2>2. CASE Swap
    <3>1. /\ owned' = owned
          /\ frames' = [frames EXCEPT ![onPage] = @ \/ onPage \notin written]
      BY <2>2, Zenon DEF Swap
    <3> QED BY <3>1, Zenon
  <2>3. CASE ~Disown /\ ~Swap
    <3>1. frames' = frames /\ owned' = owned
      BY <1>2, <2>3, Zenon DEF RotateStep, Rotate, Look, Claim, Take, Validate, LoadSample,
                        LoadMap, LoadThrows, LoadZero, LoadHeader, Update
    <3> QED BY <3>1, Zenon
  <2> QED BY <2>1, <2>2, <2>3
<1>3. CASE StopWarmer \/ CloseStep
  <2>1. CASE ReleaseAllPages
    <3>1. frames' = frames /\ owned' = [s \in Slots |-> FALSE]
      BY <2>1, Zenon DEF ReleaseAllPages
    <3> QED BY <3>1, Zenon
  <2>2. CASE StopWarmer \/ ClearRetired
    <3>1. frames' = frames /\ owned' = owned
      BY <2>2, Zenon DEF StopWarmer, ClearRetired
    <3> QED BY <3>1, Zenon
  <2> QED BY <1>3, <2>1, <2>2 DEF CloseStep
<1>4. CASE WarmerStep
  <2>1. CASE WarmerZero \/ WarmerHeader
    <3>1. owned' = owned /\ (frames' = frames \/ frames' = [frames EXCEPT ![Target] = FALSE])
      BY <2>1, Zenon DEF WarmerZero, WarmerHeader
    <3> QED BY <3>1, Zenon
  <2>2. CASE WarmerFill
    <3>1. frames' = frames /\ owned' = [owned EXCEPT ![WriteSlot] = TRUE]
      BY <2>2, Zenon DEF WarmerFill
    <3> QED BY <3>1, Zenon
  <2>3. CASE WarmerClean
    <3>1. frames' = frames /\ owned' = [s \in Slots |-> s \notin OldSlots /\ owned[s]]
      BY <2>3, Zenon DEF WarmerClean
    <3> QED BY <3>1, Zenon
  <2>4. CASE ~WarmerZero /\ ~WarmerHeader /\ ~WarmerFill /\ ~WarmerClean
    <3>1. frames' = frames /\ owned' = owned
      BY <1>4, <2>4, Zenon DEF WarmerStep, WarmerLoop, WarmerNext, WarmerClaim, WarmerSample,
                        WarmerStat, WarmerMap, WarmerMapThrows, WarmerPublish
    <3> QED BY <3>1, Zenon
  <2> QED BY <2>1, <2>2, <2>3, <2>4
<1>5. CASE UNCHANGED vars
  <2>1. frames' = frames /\ owned' = owned
    BY <1>5, Zenon DEF vars
  <2> QED BY <2>1, Zenon
<1> QED BY <1>1, <1>2, <1>3, <1>4, <1>5 DEF Next

\* Steps of the writer's thread keep the types.
LEMMA WriterTypes ==
  ASSUME PlacesInv, Commit \/ RotateStep \/ StopWarmer \/ CloseStep
  PROVE  WarmerTypeOK'
<1>t. WarmerTypeOK
  BY DEF PlacesInv
<1>a. RetainedLimit \in Nat
  BY WarmerAssumption, Zenon
<1> USE DEF WarmerTypeOK, Mapping, fileVars, ringVars, writerVars, warmerVars, indexVars
<1>1. CASE Commit
  <2>1. onPage \in Pages
    BY <1>t, Sizes DEF Pages
  <2> QED BY <1>1, <1>t, <2>1 DEF Commit
<1>2. CASE Rotate
  <2>1. currentId + 1 \in 1 .. MaxPage
    BY <1>2, <1>t, Sizes, Ranges DEF Rotate
  <2> QED BY <1>2, <1>t, <2>1 DEF Rotate
<1>3. CASE Look
  <2>1. probe + 1 \in Nat
    BY <1>t
  <2> QED BY <1>3, <1>t, <2>1 DEF Look
<1>4. CASE Claim
  <2>1. probe + 1 \in Nat
    BY <1>t
  <2> QED BY <1>4, <1>t, <2>1 DEF Claim
<1>5. CASE Take
  <2>1. ProbedSlot \in Slots /\ currentId \in Pages
    BY <1>t, Ranges
  <2> QED BY <1>5, <1>t, <2>1 DEF Take
<1>6. CASE Disown
  <2>1. (ProbedSlot + 1) % RingSize \in Slots
    <3>1. ProbedSlot \in Nat
      BY <1>t, Ranges, Zenon
    <3>2. ProbedSlot + 1 \in Nat
      BY <3>1
    <3> QED BY <3>2, RingIndex, Zenon
  <2> QED BY <1>6, <1>t, <2>1 DEF Disown
<1>7. CASE Validate \/ LoadSample \/ Update \/ StopWarmer
  BY <1>7, <1>t DEF Validate, LoadSample, Update, StopWarmer
<1>8. CASE LoadMap
  <2>1. /\ file' = [file EXCEPT ![currentId] = IF @ = "absent" THEN "sized" ELSE @]
        /\ mapped' = [mapped EXCEPT ![FreeAddr] = currentId]
        /\ next' = FreeAddr /\ FreeAddr \in Addrs
    BY <1>8, FreeAddrFree DEF LoadMap, Map, Create
  <2>2. file' \in [Pages -> {"absent", "sized", "ready"}]
    BY <1>t, <2>1
  <2>3. mapped' \in [Addrs -> Nat] /\ next' \in Mapping
    BY <1>t, <2>1
  <2> QED BY <1>8, <1>t, <2>2, <2>3 DEF LoadMap
<1>14. CASE LoadThrows
  <2>1. \/ file' = [file EXCEPT ![currentId] = IF @ = "absent" THEN "sized" ELSE @]
        \/ file' = file
    BY <1>14 DEF LoadThrows, Create
  <2>2. file' \in [Pages -> {"absent", "sized", "ready"}]
    BY <1>t, <2>1
  <2> QED BY <1>14, <1>t, <2>2 DEF LoadThrows
<1>9. CASE LoadZero
  <2>1. file' \in [Pages -> {"absent", "sized", "ready"}]
    BY <1>9, <1>t DEF LoadZero
  <2> QED BY <1>9, <1>t, <2>1 DEF LoadZero
<1>10. CASE LoadHeader
  BY <1>10, <1>t DEF LoadHeader
<1>11. CASE Swap
  <2>1. onPage \in Pages /\ current \in Addrs
    BY <1>11, <1>t, Ranges, Sizes DEF Pages, PlacesInv, Rotating, Swap
  <2>2. written' \subseteq Pages
    BY <1>11, <1>t, <2>1 DEF Swap
  <2>3. Append(retired, current) \in Seq(Addrs) /\ Append(retired, current) # <<>>
    BY <1>t, <2>1
  <2>4. retired' = Tail(Append(retired, current)) \/ retired' = Append(retired, current)
    BY <1>11 DEF Swap
  <2>5. retired' \in Seq(Addrs)
    <3>1. Tail(Append(retired, current)) \in Seq(Addrs)
      BY <2>3
    <3> QED BY <2>3, <2>4, <3>1
  <2>6. mapped' \in [Addrs -> Nat]
    BY <1>11, <1>t DEF Swap, Unmap
  <2> QED BY <1>11, <1>t, <2>2, <2>5, <2>6 DEF Swap
<1>12. CASE ReleaseAllPages
  <2>1. mapped' \in [Addrs -> Nat] /\ address' \in [Slots -> Mapping]
    BY <1>12, <1>t DEF ReleaseAllPages, Unmap
  <2> QED BY <1>12, <1>t, <2>1 DEF ReleaseAllPages
<1>13. CASE ClearRetired
  <2>1. mapped' \in [Addrs -> Nat] /\ retired' = <<>>
    BY <1>13, <1>t DEF ClearRetired, Unmap
  <2> QED BY <1>13, <1>t, <2>1 DEF ClearRetired
<1> QED BY <1>1, <1>2, <1>3, <1>4, <1>5, <1>6, <1>7, <1>8, <1>9, <1>10, <1>11, <1>12,
           <1>13, <1>14 DEF RotateStep, CloseStep

\* And so do the warmer's.
LEMMA WarmerTypes ==
  ASSUME PlacesInv, WarmerStep
  PROVE  WarmerTypeOK'
<1>t. WarmerTypeOK
  BY DEF PlacesInv
<1>w. WriteSlot = writeIndex /\ writeIndex \in Slots
  BY <1>t, Ranges
<1>s. step + 1 \in Nat
  BY <1>t DEF WarmerTypeOK
<1> USE DEF WarmerTypeOK, Mapping, fileVars, ringVars, writerVars, warmerVars, indexVars
<1>1. CASE WarmerLoop
  BY <1>1, <1>t DEF WarmerLoop
<1>2. CASE WarmerNext
  BY <1>2, <1>t, <1>s DEF WarmerNext
<1>3. CASE WarmerClaim
  BY <1>3, <1>t, <1>s DEF WarmerClaim
<1>4. CASE WarmerSample \/ WarmerStat
  BY <1>4, <1>t DEF WarmerSample, WarmerStat
<1>5. CASE WarmerMap
  <2>0. Target \in Pages
    BY <1>5, TargetRange DEF WarmerMap, Busy
  <2>1. /\ file' = [file EXCEPT ![Target] = IF @ = "absent" THEN "sized" ELSE @]
        /\ mapped' = [mapped EXCEPT ![FreeAddr] = Target]
        /\ addr' = FreeAddr /\ FreeAddr \in Addrs
    BY <1>5, FreeAddrFree DEF WarmerMap, Map, Create
  <2>2. file' \in [Pages -> {"absent", "sized", "ready"}]
    BY <1>t, <2>1
  <2>3. mapped' \in [Addrs -> Nat] /\ addr' \in Mapping
    BY <1>t, <2>0, <2>1, Ranges
  <2> QED BY <1>5, <1>t, <2>2, <2>3 DEF WarmerMap
<1>6. CASE WarmerMapThrows
  <2>1. \/ file' = [file EXCEPT ![Target] = IF @ = "absent" THEN "sized" ELSE @]
        \/ file' = file
    BY <1>6 DEF WarmerMapThrows, Create
  <2>2. file' \in [Pages -> {"absent", "sized", "ready"}]
    BY <1>t, <2>1
  <2> QED BY <1>6, <1>t, <1>s, <2>2 DEF WarmerMapThrows
<1>7. CASE WarmerZero \/ WarmerHeader
  <2>1. \/ file' = [file EXCEPT ![Target] = "sized"]
        \/ file' = [file EXCEPT ![Target] = "ready"]
        \/ file' = file
    BY <1>7 DEF WarmerZero, WarmerHeader
  <2>2. file' \in [Pages -> {"absent", "sized", "ready"}]
    BY <1>t, <2>1
  <2> QED BY <1>7, <1>t, <2>2 DEF WarmerZero, WarmerHeader
<1>8. CASE WarmerFill
  BY <1>8, <1>t DEF WarmerFill
<1>9. CASE WarmerPublish
  <2>1. Target \in Pages
    BY <1>9, TargetRange DEF WarmerPublish, Busy
  <2>2. (writeIndex + 1) % RingSize \in Slots
    <3>1. writeIndex \in Nat
      BY <1>t, Ranges, Zenon
    <3>2. writeIndex + 1 \in Nat
      BY <3>1
    <3> QED BY <3>2, RingIndex, Zenon
  <2> QED BY <1>9, <1>t, <1>s, <2>1, <2>2 DEF WarmerPublish
<1>10. CASE WarmerClean
  <2>1. mapped' \in [Addrs -> Nat] /\ address' \in [Slots -> Mapping]
    BY <1>10, <1>t DEF WarmerClean, Unmap
  <2>2. pageId' \in [Slots -> Pages \cup {Empty, Warming}]
    BY <1>10, <1>t DEF WarmerClean
  <2> QED BY <1>10, <1>t, <2>1, <2>2 DEF WarmerClean
<1> QED BY <1>1, <1>2, <1>3, <1>4, <1>5, <1>6, <1>7, <1>8, <1>9, <1>10 DEF WarmerStep

\* The writer's steps leave the warmer alone, and only empty a slot it asks for.
LEMMA WriterLeaves ==
  ASSUME PlacesInv, Commit \/ RotateStep \/ StopWarmer \/ CloseStep
  PROVE  /\ UNCHANGED <<warmerVars, writeIndex>>
         /\ \/ pageId' = pageId
            \/ /\ writer = "claim" /\ writer' = "take" /\ pageId[ProbedSlot] = currentId
               /\ pageId' = [pageId EXCEPT ![ProbedSlot] = Empty]
               /\ UNCHANGED <<currentId, currentPage>>
<1> USE DEF ringVars, indexVars, writerVars, fileVars
<1>1. CASE Claim
  BY <1>1 DEF Claim
<1>2. CASE Commit \/ Rotate \/ Look \/ Take \/ Disown \/ Validate
  BY <1>2 DEF Commit, Rotate, Look, Take, Disown, Validate
<1>3. CASE LoadSample \/ LoadMap \/ LoadThrows \/ LoadZero \/ LoadHeader \/ Update \/ Swap
  BY <1>3 DEF LoadSample, LoadMap, LoadThrows, LoadZero, LoadHeader, Update, Swap
<1>4. CASE StopWarmer \/ CloseStep
  BY <1>4 DEF StopWarmer, CloseStep, ReleaseAllPages, ClearRetired
<1> QED BY <1>1, <1>2, <1>3, <1>4 DEF RotateStep

\* The warmer's steps leave the writer alone.
LEMMA WarmerLeaves ==
  ASSUME WarmerStep
  PROVE  UNCHANGED <<writerVars, readIndex, currentPage, running, written>>
<1> USE DEF WarmerStep, indexVars, fileVars
<1>1. CASE WarmerLoop \/ WarmerNext \/ WarmerClaim \/ WarmerSample \/ WarmerStat
  BY <1>1 DEF WarmerLoop, WarmerNext, WarmerClaim, WarmerSample, WarmerStat
<1>2. CASE WarmerMap \/ WarmerMapThrows \/ WarmerZero \/ WarmerHeader
  BY <1>2 DEF WarmerMap, WarmerMapThrows, WarmerZero, WarmerHeader
<1>3. CASE WarmerFill \/ WarmerPublish \/ WarmerClean
  BY <1>3 DEF WarmerFill, WarmerPublish, WarmerClean
<1> QED BY <1>1, <1>2, <1>3

\* Where the writer is.
LEMMA CurrentNext ==
  ASSUME PlacesInv, Next
  PROVE  CurrentPage' /\ Rotating' /\ currentPage <= currentPage'
<1>t. /\ currentId \in Nat /\ currentPage \in Int /\ currentId >= 1
      /\ current \in Mapping /\ next \in Mapping
      /\ writer \in {"update", "idle", "look", "claim", "take", "disown", "validate",
                     "sample", "map", "zero", "header", "swap", "joinWarmer", "clear",
                     "gone"}
  BY Ranges DEF PlacesInv, WarmerTypeOK
<1>i. CurrentPage /\ Rotating
  BY DEF PlacesInv
<1>a. Null \notin Addrs
  BY WarmerAssumption, Zenon
<1> USE <1>t, <1>i DEF ringVars, indexVars, fileVars, CurrentPage, Rotating, GettingPage
<1>1. CASE Commit
  BY <1>1 DEF Commit, writerVars
<1>2. CASE Rotate
  BY <1>2 DEF Rotate
<1>3. CASE Look
  BY <1>3 DEF Look
<1>4. CASE Claim
  BY <1>4 DEF Claim
<1>5. CASE Take
  BY <1>5 DEF Take
<1>6. CASE Disown
  BY <1>6 DEF Disown
<1>7. CASE Validate
  BY <1>7 DEF Validate
<1>8. CASE LoadSample
  BY <1>8 DEF LoadSample
<1>9. CASE LoadMap
  BY <1>9 DEF LoadMap
<1>17. CASE LoadThrows
  BY <1>17 DEF LoadThrows
<1>10. CASE LoadZero
  BY <1>10 DEF LoadZero
<1>11. CASE LoadHeader
  BY <1>11 DEF LoadHeader
<1>12. CASE Update
  BY <1>12 DEF Update
<1>13. CASE Swap
  BY <1>13 DEF Swap
<1>14. CASE StopWarmer
  BY <1>14 DEF StopWarmer
<1>15. CASE CloseStep
  BY <1>15 DEF CloseStep, ReleaseAllPages, ClearRetired
<1>16. CASE WarmerStep
  BY <1>16, WarmerLeaves DEF writerVars
<1> QED BY <1>1, <1>2, <1>3, <1>4, <1>5, <1>6, <1>7, <1>8, <1>9, <1>10, <1>11, <1>12,
           <1>13, <1>14, <1>15, <1>16, <1>17 DEF Next, RotateStep

\* The ring and the warmer's place in it, while the writer goes on.
LEMMA RingWriterNext ==
  ASSUME PlacesInv, Commit \/ RotateStep \/ StopWarmer \/ CloseStep
  PROVE  /\ WarmerAt' /\ RingShape'
         /\ \A p \in Pages : InRing(p)' => InRing(p)
         /\ \A p \in Pages : p # currentId => (InRing(p)' <=> InRing(p))
<1>t. WarmerTypeOK /\ WarmerAt /\ RingShape
  BY DEF PlacesInv
<1>r. ProbedSlot \in Slots /\ pageId \in [Slots -> Pages \cup {Empty, Warming}]
  BY <1>t, Ranges DEF WarmerTypeOK
<1>e. /\ \A p \in Pages : p \in Int /\ p # Empty /\ p # Warming
      /\ Empty # Warming /\ currentId \in Pages
  BY <1>t, Ranges DEF Empty, Warming
<1>1. /\ UNCHANGED <<warmer, seen, step, writeIndex>>
      /\ \/ pageId' = pageId
         \/ pageId[ProbedSlot] = currentId /\ pageId' = [pageId EXCEPT ![ProbedSlot] = Empty]
  BY WriterLeaves DEF warmerVars
<1>2. \A s \in Slots : \/ pageId'[s] = pageId[s]
                       \/ pageId[s] = currentId /\ pageId'[s] = Empty
  BY <1>1, <1>r
<1>3. ASSUME NEW p \in Pages PROVE InRing(p)' => InRing(p)
  BY <1>2, <1>e DEF InRing
<1>4. ASSUME NEW p \in Pages, p # currentId PROVE InRing(p)' <=> InRing(p)
  BY <1>2, <1>e, <1>4 DEF InRing
<1>5. WarmerAt'
  <2>1. currentPage <= currentPage' /\ currentPage \in Int /\ seen \in Int /\ currentPage' \in Int
    BY CurrentNext, WriterTypes, <1>t DEF Next, WarmerTypeOK
  <2>2. seen' <= currentPage'
    BY <1>1, <1>t, <2>1 DEF WarmerAt
  <2>3. Busy' = Busy /\ Target' = Target
    BY <1>1 DEF Busy, Target
  <2>4. ASSUME warmer = "claim" \/ Busy PROVE ~InRing(Target)'
    <3>1. Target \in Pages /\ ~InRing(Target)
      BY <2>4, TargetRange DEF Busy
    <3>2. PICK p \in Pages : p = Target
      BY <3>1
    <3>3. ~InRing(p)'
      BY <1>3, <3>1, <3>2
    <3> QED BY <2>3, <3>2, <3>3 DEF InRing
  <2> QED BY <1>1, <1>t, <2>2, <2>3, <2>4 DEF WarmerAt
<1>6. RingShape'
  <2>1. Busy' = Busy
    BY <1>1 DEF Busy
  <2>2. ASSUME NEW s \in Slots
        PROVE  /\ pageId'[s] \in Pages => pageId'[s] <= seen' + warmupDistance
               /\ pageId'[s] = Warming <=> Busy' /\ s = writeIndex'
    BY <1>1, <1>2, <1>e, <1>t, <2>1 DEF RingShape
  <2>3. ASSUME NEW s \in Slots, NEW u \in Slots, pageId'[s] \in Pages, pageId'[s] = pageId'[u]
        PROVE  s = u
    BY <1>2, <1>e, <1>t, <2>3 DEF RingShape
  <2> QED BY <2>2, <2>3 DEF RingShape
<1> QED BY <1>3, <1>4, <1>5, <1>6

\* The warmer's own steps.
LEMMA RingWarmerNext ==
  ASSUME PlacesInv, WarmerStep
  PROVE  /\ WarmerAt' /\ RingShape' /\ seen <= seen'
         /\ \/ pageId' = pageId /\ writeIndex' = writeIndex
            \/ /\ WarmerClaim /\ pageId[writeIndex] = Empty
               /\ pageId' = [pageId EXCEPT ![writeIndex] = Warming]
               /\ writeIndex' = writeIndex
            \/ /\ WarmerMapThrows /\ pageId[writeIndex] = Warming
               /\ pageId' = [pageId EXCEPT ![writeIndex] = Empty]
               /\ writeIndex' = writeIndex
            \/ /\ WarmerPublish /\ pageId[writeIndex] = Warming /\ Target \in Pages
               /\ pageId' = [pageId EXCEPT ![writeIndex] = Target]
               /\ writeIndex' = (writeIndex + 1) % RingSize
            \/ /\ WarmerClean /\ writeIndex' = writeIndex
               /\ pageId' = [s \in Slots |-> IF s \in OldSlots THEN Empty ELSE pageId[s]]
<1>t. WarmerTypeOK /\ WarmerAt /\ RingShape /\ CurrentPage /\ Rotating
  BY DEF PlacesInv
<1>r. /\ WriteSlot = writeIndex /\ writeIndex \in Slots
      /\ pageId \in [Slots -> Pages \cup {Empty, Warming}]
      /\ seen \in Int /\ step \in Nat /\ currentPage \in Int /\ currentId \in Nat
  BY <1>t, Ranges DEF WarmerTypeOK
<1>e. /\ \A p \in Pages : p \in Int /\ p # Empty /\ p # Warming
      /\ Empty # Warming
  BY <1>t, Ranges DEF Empty, Warming
<1>d. warmupDistance \in Nat /\ warmupDistance >= 1
  BY Sizes
<1>c. currentPage' = currentPage
  BY WarmerLeaves
<1> USE DEF ringVars, indexVars
<1>1. CASE WarmerLoop
  <2>1. /\ warmer = "loop" /\ pageId' = pageId /\ writeIndex' = writeIndex
        /\ \/ warmer' = "done" /\ seen' = seen
           \/ warmer' = "next" /\ seen' = currentPage /\ step' = 1 /\ currentPage >= 0
    BY <1>1 DEF WarmerLoop
  <2>2. ~Busy /\ ~Busy'
    BY <2>1 DEF Busy
  <2>3. currentPage >= 0 => currentPage >= 1
    BY <1>t, <1>r, Ranges DEF CurrentPage, Rotating
  <2>4. seen <= seen' /\ seen' \in Int
    BY <1>t, <1>r, <2>1 DEF WarmerAt
  <2>5. WarmerAt'
    BY <1>t, <1>r, <1>c, <1>d, <2>1, <2>2, <2>3 DEF WarmerAt
  <2>6. RingShape'
    <3>1. ASSUME NEW s \in Slots, pageId[s] \in Pages PROVE pageId[s] <= seen' + warmupDistance
      <4>1. pageId[s] <= seen + warmupDistance /\ pageId[s] \in Int
        BY <1>t, <1>e, <3>1 DEF RingShape
      <4> QED BY <1>r, <1>d, <2>4, <4>1
    <3> QED BY <1>t, <2>1, <2>2, <3>1 DEF RingShape
  <2> QED BY <2>1, <2>4, <2>5, <2>6
<1>2. CASE WarmerNext
  <2>1. /\ warmer = "next" /\ pageId' = pageId /\ writeIndex' = writeIndex /\ seen' = seen
        /\ \/ warmer' = "clean" /\ step' = step
           \/ warmer' = "next" /\ step' = step + 1 /\ step <= warmupDistance
           \/ warmer' = "claim" /\ step' = step /\ step <= warmupDistance /\ ~InRing(Target)
    BY <1>2, <1>r, <1>d DEF WarmerNext, InRing
  <2>2. ~Busy /\ ~Busy'
    BY <2>1 DEF Busy
  <2>3. seen >= 1 /\ step \in 1 .. warmupDistance + 1
    BY <1>t, <2>1 DEF WarmerAt
  <2>4. warmer' = "claim" => ~InRing(Target)'
    BY <2>1 DEF InRing, Target
  <2>5. WarmerAt'
    BY <1>t, <1>r, <1>c, <1>d, <2>1, <2>2, <2>3, <2>4 DEF WarmerAt
  <2>6. RingShape'
    BY <1>t, <2>1, <2>2 DEF RingShape
  <2> QED BY <1>r, <2>1, <2>5, <2>6
<1>3. CASE WarmerClaim /\ pageId[writeIndex] # Empty
  <2>1. /\ warmer = "claim" /\ pageId' = pageId /\ writeIndex' = writeIndex /\ seen' = seen
        /\ warmer' = "next" /\ step' = step + 1
    BY <1>3, <1>r DEF WarmerClaim
  <2>2. ~Busy /\ ~Busy'
    BY <2>1 DEF Busy
  <2>3. seen >= 1 /\ step \in 1 .. warmupDistance
    BY <1>t, <1>d, <2>1 DEF WarmerAt
  <2>5. WarmerAt'
    BY <1>t, <1>r, <1>c, <1>d, <2>1, <2>2, <2>3 DEF WarmerAt
  <2>6. RingShape'
    BY <1>t, <2>1, <2>2 DEF RingShape
  <2> QED BY <1>r, <2>1, <2>5, <2>6
<1>4. CASE WarmerClaim /\ pageId[writeIndex] = Empty
  <2>1. /\ warmer = "claim" /\ pageId' = [pageId EXCEPT ![writeIndex] = Warming]
        /\ writeIndex' = writeIndex /\ seen' = seen
        /\ warmer' = "sample" /\ step' = step
    BY <1>4, <1>r DEF WarmerClaim
  <2>2. ~Busy /\ Busy'
    BY <2>1 DEF Busy
  <2>3. /\ seen >= 1 /\ step \in 1 .. warmupDistance /\ ~InRing(Target) /\ Target' = Target
        /\ Target \in Pages
    BY <1>t, <1>d, <2>1, TargetRange DEF WarmerAt, Target
  <2>4. ~InRing(Target)'
    BY <1>r, <1>e, <2>1, <2>3 DEF InRing
  <2>5. WarmerAt'
    BY <1>t, <1>r, <1>c, <1>d, <2>1, <2>2, <2>3, <2>4 DEF WarmerAt
  <2>6. \A s \in Slots : pageId'[s] = IF s = writeIndex THEN Warming ELSE pageId[s]
    BY <1>r, <2>1
  <2>7. RingShape'
    <3>1. ASSUME NEW s \in Slots
          PROVE  /\ pageId'[s] \in Pages => pageId'[s] <= seen' + warmupDistance
                 /\ pageId'[s] = Warming <=> Busy' /\ s = writeIndex'
      BY <1>t, <1>e, <2>1, <2>2, <2>6 DEF RingShape
    <3>2. ASSUME NEW s \in Slots, NEW u \in Slots, pageId'[s] \in Pages, pageId'[s] = pageId'[u]
          PROVE  s = u
      BY <1>t, <1>e, <2>6, <3>2 DEF RingShape
    <3> QED BY <3>1, <3>2 DEF RingShape
  <2> QED BY <1>4, <1>r, <2>1, <2>5, <2>7
<1>5. CASE WarmerSample \/ WarmerStat \/ WarmerMap \/ WarmerZero \/ WarmerHeader \/ WarmerFill
  <2>1. /\ pageId' = pageId /\ writeIndex' = writeIndex /\ seen' = seen /\ step' = step
        /\ Busy /\ Busy' /\ warmer' \notin {"loop", "done"}
    BY <1>5 DEF WarmerSample, WarmerStat, WarmerMap, WarmerZero, WarmerHeader, WarmerFill, Busy
  <2>2. Target' = Target /\ warmer \notin {"loop", "done"}
    BY <2>1 DEF Target, Busy
  <2>3. ~InRing(Target)'
    BY <1>t, <2>1, <2>2 DEF WarmerAt, InRing
  <2>5. WarmerAt'
    BY <1>t, <1>c, <2>1, <2>2, <2>3 DEF WarmerAt
  <2>6. RingShape'
    BY <1>t, <2>1 DEF RingShape
  <2> QED BY <1>r, <2>1, <2>5, <2>6
<1>6. CASE WarmerMapThrows
  <2>1. /\ warmer = "map" /\ pageId' = [pageId EXCEPT ![writeIndex] = Empty]
        /\ writeIndex' = writeIndex /\ seen' = seen
        /\ warmer' = "next" /\ step' = step + 1
    BY <1>6, <1>r DEF WarmerMapThrows
  <2>2. Busy /\ ~Busy' /\ pageId[writeIndex] = Warming
    BY <1>t, <1>r, <2>1 DEF Busy, RingShape
  <2>3. seen >= 1 /\ step \in 1 .. warmupDistance
    BY <1>t, <1>d, <2>1, <2>2 DEF WarmerAt
  <2>5. WarmerAt'
    BY <1>t, <1>r, <1>c, <1>d, <2>1, <2>2, <2>3 DEF WarmerAt
  <2>6. \A s \in Slots : pageId'[s] = IF s = writeIndex THEN Empty ELSE pageId[s]
    BY <1>r, <2>1
  <2>7. RingShape'
    <3>1. ASSUME NEW s \in Slots
          PROVE  /\ pageId'[s] \in Pages => pageId'[s] <= seen' + warmupDistance
                 /\ pageId'[s] = Warming <=> Busy' /\ s = writeIndex'
      BY <1>t, <1>e, <2>1, <2>2, <2>6 DEF RingShape
    <3>2. ASSUME NEW s \in Slots, NEW u \in Slots, pageId'[s] \in Pages, pageId'[s] = pageId'[u]
          PROVE  s = u
      BY <1>t, <1>e, <2>6, <3>2 DEF RingShape
    <3> QED BY <3>1, <3>2 DEF RingShape
  <2> QED BY <1>6, <1>r, <2>1, <2>2, <2>5, <2>7
<1>7. CASE WarmerPublish
  <2>1. /\ warmer = "publish" /\ pageId' = [pageId EXCEPT ![writeIndex] = Target]
        /\ writeIndex' = (writeIndex + 1) % RingSize /\ seen' = seen
        /\ warmer' = "next" /\ step' = step + 1
    BY <1>7, <1>r DEF WarmerPublish
  <2>2. Busy /\ ~Busy' /\ pageId[writeIndex] = Warming
    BY <1>t, <1>r, <2>1 DEF Busy, RingShape
  <2>3. /\ seen >= 1 /\ step \in 1 .. warmupDistance /\ Target \in Pages /\ ~InRing(Target)
        /\ Target = seen + step
    BY <1>d, <2>1, <2>2, TargetRange
  <2>5. WarmerAt'
    BY <1>t, <1>r, <1>c, <1>d, <2>1, <2>2, <2>3 DEF WarmerAt
  <2>6. \A s \in Slots : pageId'[s] = IF s = writeIndex THEN Target ELSE pageId[s]
    BY <1>r, <2>1
  <2>7. RingShape'
    <3>1. ASSUME NEW s \in Slots PROVE pageId'[s] \in Pages => pageId'[s] <= seen' + warmupDistance
      BY <1>t, <1>r, <1>d, <2>1, <2>3, <2>6 DEF RingShape
    <3>2. ASSUME NEW s \in Slots PROVE pageId'[s] # Warming
      BY <1>t, <1>e, <2>3, <2>6 DEF RingShape
    <3>3. ASSUME NEW s \in Slots, NEW u \in Slots, pageId'[s] \in Pages, pageId'[s] = pageId'[u]
          PROVE  s = u
      BY <1>t, <2>3, <2>6, <3>3 DEF RingShape, InRing
    <3> QED BY <2>2, <3>1, <3>2, <3>3 DEF RingShape
  <2> QED BY <1>7, <1>r, <2>1, <2>2, <2>3, <2>5, <2>7
<1>8. CASE WarmerClean
  <2>1. /\ warmer = "clean" /\ writeIndex' = writeIndex /\ seen' = seen /\ step' = step
        /\ pageId' = [s \in Slots |-> IF s \in OldSlots THEN Empty ELSE pageId[s]]
        /\ warmer' = "loop"
    BY <1>8 DEF WarmerClean
  <2>2. ~Busy /\ ~Busy'
    BY <2>1 DEF Busy
  <2>5. WarmerAt'
    BY <1>t, <1>r, <1>c, <2>1, <2>2 DEF WarmerAt
  <2>6. \A s \in Slots : pageId'[s] = pageId[s] \/ pageId'[s] = Empty
    BY <2>1
  <2>7. RingShape'
    <3>1. ASSUME NEW s \in Slots
          PROVE  /\ pageId'[s] \in Pages => pageId'[s] <= seen' + warmupDistance
                 /\ pageId'[s] # Warming
      BY <1>t, <1>e, <2>1, <2>2, <2>6 DEF RingShape
    <3>2. ASSUME NEW s \in Slots, NEW u \in Slots, pageId'[s] \in Pages, pageId'[s] = pageId'[u]
          PROVE  s = u
      BY <1>t, <1>e, <2>6, <3>2 DEF RingShape
    <3> QED BY <2>2, <3>1, <3>2 DEF RingShape
  <2> QED BY <1>8, <1>r, <2>1, <2>5, <2>7
<1> QED BY <1>1, <1>2, <1>3, <1>4, <1>5, <1>6, <1>7, <1>8 DEF WarmerStep

\* No step of the writer or of the warmer disturbs the threads' places.
LEMMA PlacesNext == PlacesInv /\ [Next]_vars => PlacesInv'
<1> SUFFICES ASSUME PlacesInv, [Next]_vars PROVE PlacesInv'
  OBVIOUS
<1>1. FlagsOK'
  BY FlagsNext DEF PlacesInv
<1>2. CASE Commit \/ RotateStep \/ StopWarmer \/ CloseStep
  BY <1>1, <1>2, WriterTypes, CurrentNext, RingWriterNext DEF PlacesInv, Next
<1>3. CASE WarmerStep
  BY <1>1, <1>3, WarmerTypes, CurrentNext, RingWarmerNext DEF PlacesInv, Next
<1>4. CASE UNCHANGED vars
  <2>1. /\ UNCHANGED <<file, written, viaRing, mapped, pageId, address, writeIndex, readIndex,
                       currentPage, writer, current, next>>
        /\ UNCHANGED <<addr, onPage, currentId, probe, retired, warmer, seen, step>>
    BY <1>4 DEF vars, fileVars, ringVars, indexVars, writerVars, warmerVars
  <2>2. WarmerTypeOK'
    BY <2>1 DEF PlacesInv, WarmerTypeOK
  <2>3. CurrentPage' /\ Rotating'
    BY <2>1 DEF PlacesInv, CurrentPage, GettingPage, Rotating
  <2>4. WarmerAt' /\ RingShape'
    BY <2>1 DEF PlacesInv, WarmerAt, RingShape, Busy, InRing, Target
  <2> QED BY <1>1, <2>2, <2>3, <2>4 DEF PlacesInv
<1> QED BY <1>2, <1>3, <1>4 DEF Next

-----------------------------------------------------------------------------
(* Frames of pages from the ring are kept. *)

\* At first no page has frames that the warmer could wipe.
LEMMA KeptInit == Init => KeptInv
<1> SUFFICES ASSUME Init PROVE KeptInv
  OBVIOUS
<1>1. PlacesInv
  BY PlacesInit
<1>2. \A s \in Slots : pageId[s] \notin Pages
  BY Sizes DEF Init, Pages, Empty
<1>3. /\ viaRing = {} /\ written = {} /\ writer = "update" /\ warmer = "loop"
      /\ onPage = 1 /\ currentId = 1 /\ next = Null
  BY DEF Init
<1> QED BY <1>1, <1>2, <1>3 DEF KeptInv, FilesThere, ClaimedExist, WrittenBehind,
                                GettingPage, RingPagesKept

\* No step removes a file.
LEMMA FilesStay ==
  ASSUME PlacesInv, Next, NEW p \in Pages, file[p] # "absent"
  PROVE  file'[p] # "absent"
<1>t. file \in [Pages -> {"absent", "sized", "ready"}]
  BY DEF PlacesInv, WarmerTypeOK
<1> USE <1>t DEF fileVars
<1>1. CASE Commit \/ StopWarmer \/ CloseStep
  BY <1>1 DEF Commit, StopWarmer, CloseStep, ReleaseAllPages, ClearRetired
<1>2. CASE Rotate \/ Look \/ Claim \/ Take \/ Disown \/ Validate
  BY <1>2 DEF Rotate, Look, Claim, Take, Disown, Validate
<1>3. CASE LoadSample \/ LoadMap \/ LoadThrows \/ LoadZero \/ LoadHeader \/ Update \/ Swap
  BY <1>3 DEF LoadSample, LoadMap, LoadThrows, LoadZero, LoadHeader, Update, Swap, Create
<1>4. CASE WarmerLoop \/ WarmerNext \/ WarmerClaim \/ WarmerSample \/ WarmerStat
  BY <1>4 DEF WarmerLoop, WarmerNext, WarmerClaim, WarmerSample, WarmerStat
<1>5. CASE WarmerMap \/ WarmerMapThrows \/ WarmerZero \/ WarmerHeader
  BY <1>5 DEF WarmerMap, WarmerMapThrows, WarmerZero, WarmerHeader, Create
<1>6. CASE WarmerFill \/ WarmerPublish \/ WarmerClean
  BY <1>6 DEF WarmerFill, WarmerPublish, WarmerClean
<1> QED BY <1>1, <1>2, <1>3, <1>4, <1>5, <1>6 DEF Next, RotateStep, WarmerStep

\* What is in the ring has a file.
LEMMA FilesThereNext ==
  ASSUME KeptInv, Next
  PROVE  FilesThere'
<1>p. PlacesInv /\ FilesThere /\ PlacesInv'
  BY PlacesNext DEF KeptInv
<1>t. /\ file \in [Pages -> {"absent", "sized", "ready"}] /\ Empty \notin Pages
      /\ pageId \in [Slots -> Pages \cup {Empty, Warming}] /\ Warming \notin Pages
      /\ WriteSlot = writeIndex /\ writeIndex \in Slots /\ ProbedSlot \in Slots
  BY <1>p, Ranges DEF PlacesInv, WarmerTypeOK
<1>1. ASSUME NEW s \in Slots, pageId'[s] \in Pages, pageId'[s] = pageId[s]
      PROVE  file'[pageId'[s]] # "absent"
  <2>1. PICK q \in Pages : q = pageId[s]
    BY <1>1
  <2>2. file[q] # "absent"
    BY <1>p, <2>1 DEF FilesThere
  <2>3. file'[q] # "absent"
    BY <1>p, <2>2, FilesStay
  <2> QED BY <1>1, <2>1, <2>3
<1>2. CASE Commit \/ RotateStep \/ StopWarmer \/ CloseStep
  <2>1. /\ UNCHANGED <<warmer, seen, step>>
        /\ pageId' = pageId \/ pageId' = [pageId EXCEPT ![ProbedSlot] = Empty]
    BY <1>2, <1>p, WriterLeaves DEF warmerVars
  <2>2. \A s \in Slots : pageId'[s] \in Pages => pageId'[s] = pageId[s]
    BY <1>t, <2>1
  <2>3. ASSUME warmer \in {"zero", "header", "fill", "publish"}
        PROVE  file'[Target'] # "absent"
    <3>1. PICK q \in Pages : q = Target
      BY <1>p, <2>3, TargetRange DEF Busy
    <3>2. file'[q] # "absent" /\ Target' = q
      BY <1>p, <2>1, <2>3, <3>1, FilesStay DEF FilesThere, Target
    <3> QED BY <3>2
  <2> QED BY <1>1, <2>1, <2>2, <2>3 DEF FilesThere
<1>3. CASE WarmerStep
  <2>0. /\ pageId' = pageId
        \/ pageId' = [pageId EXCEPT ![writeIndex] = Warming]
        \/ pageId' = [pageId EXCEPT ![writeIndex] = Empty]
        \/ /\ warmer = "publish" /\ pageId' = [pageId EXCEPT ![writeIndex] = Target]
           /\ UNCHANGED <<seen, file>>
        \/ pageId' = [s \in Slots |-> IF s \in OldSlots THEN Empty ELSE pageId[s]]
    BY <1>3, <1>p, RingWarmerNext DEF WarmerPublish, fileVars
  <2>1. ASSUME NEW s \in Slots, pageId'[s] \in Pages, pageId'[s] # pageId[s]
        PROVE  file'[pageId'[s]] # "absent"
    <3>1. warmer = "publish" /\ file' = file /\ pageId'[s] = Target
      BY <1>t, <2>0, <2>1
    <3> QED BY <1>p, <3>1 DEF FilesThere
  <2>2. ASSUME warmer' \in {"zero", "header", "fill", "publish"}
        PROVE  file'[Target'] # "absent"
    <3>1. UNCHANGED <<seen, step>> /\ warmer \in {"map", "zero", "header", "fill"}
      BY <1>3, <2>2 DEF WarmerStep, WarmerLoop, WarmerNext, WarmerClaim, WarmerSample,
           WarmerStat, WarmerMap, WarmerMapThrows, WarmerZero, WarmerHeader, WarmerFill,
           WarmerPublish, WarmerClean
    <3>2. PICK q \in Pages : q = Target
      BY <1>p, <3>1, TargetRange DEF Busy
    <3>3. Target' = q
      BY <3>1, <3>2 DEF Target
    <3>4. CASE warmer = "map"
      <4>1. file' = [file EXCEPT ![q] = IF @ = "absent" THEN "sized" ELSE @]
        BY <1>3, <2>2, <3>2, <3>4 DEF WarmerStep, WarmerLoop, WarmerNext, WarmerClaim,
             WarmerSample, WarmerStat, WarmerMap, WarmerMapThrows, WarmerZero, WarmerHeader,
             WarmerFill, WarmerPublish, WarmerClean, Create
      <4> QED BY <1>t, <3>3, <4>1
    <3>5. CASE warmer # "map"
      <4>1. file[q] # "absent"
        BY <1>p, <3>1, <3>2, <3>5 DEF FilesThere
      <4> QED BY <1>p, <3>3, <4>1, FilesStay
    <3> QED BY <3>4, <3>5
  <2> QED BY <1>1, <2>1, <2>2 DEF FilesThere
<1> QED BY <1>2, <1>3 DEF Next

\* Once a page was seen to exist it is.
LEMMA SeenStays ==
  ASSUME PlacesInv, Next, NEW p \in Pages, SeenToExist(p)
  PROVE  SeenToExist(p)'
<1>1. file'[p] # "absent" /\ file[p] # "absent"
  BY FilesStay DEF SeenToExist
<1>2. CASE Commit \/ RotateStep \/ StopWarmer \/ CloseStep
  <2>1. UNCHANGED <<warmer, seen, step, existed, exists>>
    BY <1>2, WriterLeaves DEF warmerVars
  <2> QED BY <1>1, <2>1 DEF SeenToExist, Target
<1>3. CASE WarmerStep
  <2>1. CASE WarmerSample
    <3>1. /\ warmer' = "stat" /\ UNCHANGED <<seen, step>>
          /\ existed' = (file[Target] # "absent")
      BY <2>1 DEF WarmerSample
    <3> QED BY <1>1, <3>1 DEF SeenToExist, Target
  <2>2. CASE WarmerStat
    <3>1. /\ warmer = "stat" /\ warmer' = "map" /\ UNCHANGED <<seen, step, existed>>
          /\ exists' = (file[Target] # "absent")
      BY <2>2 DEF WarmerStat
    <3> QED BY <1>1, <3>1 DEF SeenToExist, Target
  <2>3. CASE WarmerMap \/ WarmerZero
    <3>1. /\ warmer \in {"map", "zero"} /\ UNCHANGED <<seen, step, existed, exists>>
      BY <2>3 DEF WarmerMap, WarmerZero
    <3> QED BY <1>1, <3>1 DEF SeenToExist, Target
  <2>4. CASE ~WarmerSample /\ ~WarmerStat /\ ~WarmerMap /\ ~WarmerZero
    <3>1. warmer' \notin {"stat", "map", "zero", "header"}
      BY <1>3, <2>4 DEF WarmerStep, WarmerLoop, WarmerNext, WarmerClaim, WarmerMapThrows,
           WarmerHeader, WarmerFill, WarmerPublish, WarmerClean
    <3> QED BY <1>1, <3>1 DEF SeenToExist
  <2> QED BY <2>1, <2>2, <2>3, <2>4
<1> QED BY <1>2, <1>3 DEF Next

\* A page that is claimed was in the ring, and so not under work.
LEMMA ClaimedExistNext ==
  ASSUME KeptInv, Next
  PROVE  ClaimedExist'
<1>p. PlacesInv /\ FilesThere /\ ClaimedExist /\ viaRing \subseteq Pages
  BY DEF KeptInv, PlacesInv, WarmerTypeOK
<1>r. currentId \in Pages /\ ProbedSlot \in Slots
  BY <1>p, Ranges DEF PlacesInv
<1>1. CASE Claim /\ writer' = "take"
  <2>1. /\ pageId[ProbedSlot] = currentId /\ UNCHANGED <<viaRing, currentId, file, warmerVars>>
    BY <1>1 DEF Claim, fileVars
  <2>2. file[currentId] # "absent" /\ InRing(currentId)
    BY <1>p, <1>r, <2>1 DEF FilesThere, InRing
  <2>3. Target = currentId => ~Busy
    BY <1>p, <2>2 DEF PlacesInv, WarmerAt
  <2>4. SeenToExist(currentId)
    BY <2>2, <2>3 DEF SeenToExist, Busy
  <2>5. ASSUME NEW p \in viaRing \cup {currentId} PROVE SeenToExist(p)'
    BY <1>p, <1>r, <2>4, SeenStays DEF ClaimedExist
  <2>6. \A p \in viaRing : SeenToExist(p)'
    BY <2>5
  <2>7. SeenToExist(currentId)'
    BY <2>1, <2>5 DEF SeenToExist
  <2> QED BY <2>1, <2>6, <2>7 DEF ClaimedExist, SeenToExist
<1>2. CASE ~(Claim /\ writer' = "take")
  <2>1. /\ writer' = "take" => writer = "take" /\ currentId' = currentId
        /\ viaRing' = viaRing \/ (viaRing' = viaRing \cup {currentId} /\ writer = "take")
    <3>1. CASE Commit \/ Rotate \/ Look \/ Claim \/ Take
      BY <1>2, <3>1 DEF Commit, Rotate, Look, Claim, Take, writerVars
    <3>2. CASE Disown \/ Validate \/ LoadSample \/ LoadMap \/ LoadThrows \/ LoadZero \/ LoadHeader
      BY <3>2 DEF Disown, Validate, LoadSample, LoadMap, LoadThrows, LoadZero, LoadHeader
    <3>3. CASE Update \/ Swap \/ StopWarmer \/ CloseStep
      BY <3>3 DEF Update, Swap, StopWarmer, CloseStep, ReleaseAllPages, ClearRetired
    <3>4. CASE WarmerStep
      BY <3>4, WarmerLeaves DEF writerVars
    <3> QED BY <3>1, <3>2, <3>3, <3>4 DEF Next, RotateStep
  <2>2. ASSUME NEW p \in viaRing' PROVE SeenToExist(p)'
    BY <1>p, <1>r, <2>1, SeenStays DEF ClaimedExist
  <2>3. ASSUME writer' = "take" PROVE SeenToExist(currentId)'
    <3>1. PICK q \in Pages : q = currentId
      BY <1>r
    <3>2. SeenToExist(q)'
      BY <1>p, <2>1, <2>3, <3>1, SeenStays DEF ClaimedExist
    <3> QED BY <2>1, <2>3, <3>1, <3>2 DEF SeenToExist
  <2> QED BY <2>2, <2>3 DEF ClaimedExist
<1> QED BY <1>1, <1>2

\* Pages the writer has left stay behind the one it is on.
LEMMA WrittenNext ==
  ASSUME KeptInv, Next
  PROVE  WrittenBehind'
<1>p. /\ WrittenBehind /\ currentId \in Nat /\ onPage \in Nat /\ written \subseteq Pages
      /\ Rotating
  BY Ranges DEF KeptInv, PlacesInv, WarmerTypeOK
<1>n. \A p \in written : p \in Nat
  BY <1>p, Sizes DEF Pages
<1> USE <1>p, <1>n DEF fileVars, writerVars, WrittenBehind, GettingPage, Rotating
<1>1. CASE Commit
  BY <1>1 DEF Commit
<1>2. CASE Rotate
  BY <1>2 DEF Rotate
<1>3. CASE Look \/ Claim \/ Take \/ Disown \/ Validate
  BY <1>3 DEF Look, Claim, Take, Disown, Validate
<1>4. CASE LoadSample \/ LoadMap \/ LoadThrows \/ LoadZero \/ LoadHeader \/ Update
  BY <1>4 DEF LoadSample, LoadMap, LoadThrows, LoadZero, LoadHeader, Update
<1>5. CASE Swap
  BY <1>5 DEF Swap
<1>6. CASE StopWarmer \/ CloseStep
  BY <1>6 DEF StopWarmer, CloseStep, ReleaseAllPages, ClearRetired
<1>7. CASE WarmerStep
  BY <1>7, WarmerLeaves
<1> QED BY <1>1, <1>2, <1>3, <1>4, <1>5, <1>6, <1>7 DEF Next, RotateStep

\* A warm-up wipes only what it did not see.
LEMMA RingPagesKeptNext ==
  ASSUME KeptInv, Next
  PROVE  RingPagesKept'
<1>p. /\ PlacesInv /\ ClaimedExist /\ WrittenBehind /\ RingPagesKept
      /\ currentId \in Pages /\ currentId \in Nat /\ viaRing \subseteq Pages
      /\ written \subseteq Pages
  BY Ranges DEF KeptInv, PlacesInv, WarmerTypeOK
<1>d. DOMAIN frames = Pages
  BY <1>p, Zenon DEF PlacesInv, FlagsOK
<1> USE DEF fileVars
<1>1. CASE Commit
  <2>1. /\ frames' = [frames EXCEPT ![onPage] = TRUE] /\ viaRing' = viaRing
        /\ written' = written \cup {onPage}
    BY <1>1 DEF Commit, writerVars
  <2> QED BY <1>p, <1>d, <2>1 DEF RingPagesKept
<1>2. CASE Take
  <2>1. /\ frames' = frames /\ written' = written /\ writer = "take"
        /\ viaRing' = viaRing \cup {currentId}
    BY <1>2 DEF Take
  <2>2. currentId \notin written
    <3>1. onPage \in Nat
      BY <1>p DEF PlacesInv, WarmerTypeOK
    <3> QED BY <1>p, <2>1, <3>1 DEF WrittenBehind, GettingPage
  <2> QED BY <1>p, <2>1, <2>2 DEF RingPagesKept
<1>3. CASE Swap
  <2>1. /\ frames' = [frames EXCEPT ![onPage] = @ \/ onPage \notin written]
        /\ written' = written \cup {onPage} /\ viaRing' = viaRing
    BY <1>3 DEF Swap
  <2>2. ASSUME NEW p \in written' \cap viaRing' PROVE frames'[p]
    <3>1. CASE p = onPage
      <4>1. frames'[p] = (frames[p] \/ p \notin written)
        BY <1>p, <1>d, <2>1, <2>2, <3>1
      <4> QED BY <1>p, <2>1, <2>2, <4>1 DEF RingPagesKept
    <3>2. CASE p # onPage
      <4>1. frames'[p] = frames[p] /\ p \in written /\ p \in viaRing
        BY <1>p, <1>d, <2>1, <2>2, <3>2
      <4> QED BY <1>p, <4>1 DEF RingPagesKept
    <3> QED BY <3>1, <3>2
  <2> QED BY <2>2 DEF RingPagesKept
<1>4. CASE WarmerZero \/ WarmerHeader
  <2>1. /\ viaRing' = viaRing /\ written' = written
        /\ \/ frames' = frames
           \/ /\ frames' = [frames EXCEPT ![Target] = FALSE]
              /\ \/ warmer = "zero" /\ ~exists
                 \/ warmer = "header" /\ ~existed
    BY <1>4 DEF WarmerZero, WarmerHeader, writerVars
  <2>2. ASSUME frames' # frames PROVE Target \notin viaRing
    BY <1>p, <2>1, <2>2 DEF ClaimedExist, SeenToExist
  <2>3. ASSUME NEW p \in viaRing PROVE frames'[p] = frames[p]
    BY <1>p, <1>d, <2>1, <2>2
  <2> QED BY <1>p, <2>1, <2>3 DEF RingPagesKept
<1>5. CASE Rotate \/ Look \/ Claim \/ Disown \/ Validate
  BY <1>p, <1>5 DEF RingPagesKept, Rotate, Look, Claim, Disown, Validate
<1>6. CASE LoadSample \/ LoadMap \/ LoadThrows \/ LoadZero \/ LoadHeader \/ Update \/ StopWarmer \/ CloseStep
  BY <1>p, <1>6 DEF RingPagesKept, LoadSample, LoadMap, LoadThrows, LoadZero, LoadHeader, Update,
                    StopWarmer, CloseStep, ReleaseAllPages, ClearRetired
<1>7. CASE WarmerStep /\ ~WarmerZero /\ ~WarmerHeader
  <2>1. UNCHANGED <<frames, written, viaRing>>
    BY <1>7 DEF WarmerStep, WarmerLoop, WarmerNext, WarmerClaim, WarmerSample, WarmerStat,
         WarmerMap, WarmerMapThrows, WarmerFill, WarmerPublish, WarmerClean, writerVars
  <2> QED BY <1>p, <2>1 DEF RingPagesKept
<1> QED BY <1>1, <1>2, <1>3, <1>4, <1>5, <1>6, <1>7 DEF Next, RotateStep

\* Frames of pages from the ring survive every step of both threads.
LEMMA KeptNext == KeptInv /\ [Next]_vars => KeptInv'
<1> SUFFICES ASSUME KeptInv, [Next]_vars PROVE KeptInv'
  OBVIOUS
<1>1. PlacesInv'
  BY PlacesNext DEF KeptInv
<1>2. CASE Next
  BY <1>1, <1>2, FilesThereNext, ClaimedExistNext, WrittenNext, RingPagesKeptNext DEF KeptInv
<1>3. CASE UNCHANGED vars
  <2>1. UNCHANGED <<file, frames, written, pageId, writer, onPage, currentId, next, viaRing,
                    warmer, seen, step, existed, exists>>
    BY <1>3 DEF vars, fileVars, ringVars, writerVars, warmerVars
  <2>2. FilesThere' /\ ClaimedExist'
    BY <2>1 DEF KeptInv, FilesThere, ClaimedExist, SeenToExist, Target
  <2>3. WrittenBehind' /\ RingPagesKept'
    BY <2>1 DEF KeptInv, WrittenBehind, GettingPage, RingPagesKept
  <2> QED BY <1>1, <2>2, <2>3 DEF KeptInv
<1> QED BY <1>2, <1>3

\* A page that the writer took from the ring keeps its frames, for every ring and
\* distance, whatever fails in the warmer and however often it prepares the page
\* once more.
THEOREM RingKeepsFrames == Spec => []RingPagesKept
<1>1. KeptInv => RingPagesKept
  BY DEF KeptInv
<1> QED BY <1>1, KeptInit, KeptNext, PTL DEF Spec

-----------------------------------------------------------------------------
(* How far the ring turns. *)

\* The pages of a range are finitely many.
LEMMA RangeSize ==
  ASSUME NEW a \in Int, NEW b \in Int
  PROVE  /\ IsFiniteSet(a .. b)
         /\ a <= b => Cardinality(a .. b) = b - a + 1
         /\ a > b => Cardinality(a .. b) = 0
<1>1. IsFiniteSet(a .. b) /\ Cardinality(a .. b) = IF a > b THEN 0 ELSE b - a + 1
  BY FS_Interval, Zenon
<1>2. ASSUME a <= b PROVE Cardinality(a .. b) = b - a + 1
  BY <1>1, <1>2
<1>3. ASSUME a > b PROVE Cardinality(a .. b) = 0
  BY <1>1, <1>3
<1> QED BY <1>1, <1>2, <1>3

\* There are finitely many holes around a page.
LEMMA HolesFinite ==
  ASSUME NEW p \in Int
  PROVE  IsFiniteSet(Holes(p)) /\ Cardinality(Holes(p)) \in Nat
<1> DEFINE a == p - warmupDistance + 1
           b == p + warmupDistance - 1
<1>1. a \in Int /\ b \in Int
  BY Sizes
<1> HIDE DEF a, b
<1>2. IsFiniteSet(a .. b)
  BY <1>1, RangeSize, Zenon
<1>3. Holes(p) \subseteq a .. b
  BY DEF Holes, a, b
<1>4. IsFiniteSet(Holes(p))
  BY <1>2, <1>3, FS_Subset, Zenon
<1> QED BY <1>4, FS_CardinalityType, Zenon

\* The same after a step.
LEMMA HolesFiniteNext ==
  ASSUME NEW p \in Int
  PROVE  IsFiniteSet(Holes(p)') /\ Cardinality(Holes(p)') \in Nat
<1> DEFINE a == p - warmupDistance + 1
           b == p + warmupDistance - 1
<1>1. a \in Int /\ b \in Int
  BY Sizes
<1> HIDE DEF a, b
<1>2. IsFiniteSet(a .. b)
  BY <1>1, RangeSize, Zenon
<1>3. Holes(p)' \subseteq a .. b
  BY DEF Holes, a, b, warmupDistance
<1>4. IsFiniteSet(Holes(p)')
  BY <1>2, <1>3, FS_Subset, Zenon
<1> QED BY <1>4, FS_CardinalityType, Zenon

\* Fewer holes, a smaller number.
LEMMA HolesShrink ==
  ASSUME NEW p \in Int, Holes(p)' \subseteq Holes(p)
  PROVE  Cardinality(Holes(p)') <= Cardinality(Holes(p))
BY HolesFinite, FS_Subset, Zenon

\* A publication near a page fills one of its holes.
LEMMA HoleFilled ==
  ASSUME NEW p \in Int, NEW t \in Holes(p), Holes(p)' \subseteq Holes(p) \ {t}
  PROVE  Cardinality(Holes(p)') <= Cardinality(Holes(p)) - 1
<1>1. IsFiniteSet(Holes(p)) /\ Cardinality(Holes(p)) \in Nat
  BY HolesFinite
<1>2. /\ IsFiniteSet(Holes(p) \ {t})
      /\ Cardinality(Holes(p) \ {t}) = Cardinality(Holes(p)) - 1
  BY <1>1, FS_RemoveElement
<1>3. Cardinality(Holes(p)') <= Cardinality(Holes(p) \ {t})
  BY <1>2, FS_Subset, Zenon
<1> QED BY <1>2, <1>3

\* And finitely many pages that were published too late.
LEMMA SpentFinite ==
  ASSUME NEW p \in Int
  PROVE  /\ IsFiniteSet(Spent(p)) /\ Cardinality(Spent(p)) \in Nat
         /\ \A q \in p - warmupDistance + 1 .. p :
              q \notin Spent(p) => Cardinality(Spent(p)) <= warmupDistance - 1
         /\ Cardinality(Spent(p)) <= warmupDistance
<1> DEFINE a == p - warmupDistance + 1
<1>1. a \in Int /\ a <= p /\ p - a + 1 = warmupDistance
  BY Sizes
<1>2. Spent(p) \subseteq a .. p
  BY DEF Spent
<1>3. \A q \in p - warmupDistance + 1 .. p : q \in a .. p
  OBVIOUS
<1> HIDE DEF a
<1>4. IsFiniteSet(a .. p) /\ Cardinality(a .. p) = warmupDistance
  BY <1>1, RangeSize
<1>5. IsFiniteSet(Spent(p)) /\ Cardinality(Spent(p)) <= warmupDistance
  <2>1. IsFiniteSet(Spent(p)) /\ Cardinality(Spent(p)) <= Cardinality(a .. p)
    BY <1>2, <1>4, FS_Subset, Zenon
  <2> QED BY <1>4, <2>1, Zenon
<1>6. ASSUME NEW q \in a .. p, q \notin Spent(p) PROVE Cardinality(Spent(p)) <= warmupDistance - 1
  <2>1. /\ IsFiniteSet((a .. p) \ {q})
        /\ Cardinality((a .. p) \ {q}) = Cardinality(a .. p) - 1
    BY <1>4, FS_RemoveElement, Zenon
  <2>2. Spent(p) \subseteq (a .. p) \ {q}
    BY <1>2, <1>6
  <2>3. Cardinality(Spent(p)) <= Cardinality((a .. p) \ {q})
    BY <2>1, <2>2, FS_Subset, Zenon
  <2> QED BY <1>4, <2>1, <2>3, Zenon
<1>7. Cardinality(Spent(p)) \in Nat
  BY <1>5, FS_CardinalityType, Zenon
<1> QED BY <1>3, <1>5, <1>6, <1>7

\* The same after a step.
LEMMA SpentFiniteNext ==
  ASSUME NEW p \in Int
  PROVE  IsFiniteSet(Spent(p)') /\ Cardinality(Spent(p)') \in Nat
<1> DEFINE a == p - warmupDistance + 1
<1>1. a \in Int
  BY Sizes
<1>3. Spent(p)' \subseteq a .. p
  BY DEF Spent, warmupDistance
<1> HIDE DEF a
<1>2. IsFiniteSet(a .. p)
  BY <1>1, RangeSize, Zenon
<1>4. IsFiniteSet(Spent(p)')
  BY <1>2, <1>3, FS_Subset, Zenon
<1> QED BY <1>4, FS_CardinalityType, Zenon

\* More of them, a larger number; a late publication is one more.
LEMMA SpentGrows ==
  ASSUME NEW p \in Int, Spent(p) \subseteq Spent(p)'
  PROVE  /\ Cardinality(Spent(p)) <= Cardinality(Spent(p)')
         /\ \A t \in Spent(p)' :
              t \notin Spent(p) => Cardinality(Spent(p)) + 1 <= Cardinality(Spent(p)')
<1>1. /\ IsFiniteSet(Spent(p)) /\ IsFiniteSet(Spent(p)')
      /\ Cardinality(Spent(p)) \in Nat /\ Cardinality(Spent(p)') \in Nat
  BY SpentFinite, SpentFiniteNext
<1>2. Cardinality(Spent(p)) <= Cardinality(Spent(p)')
  BY <1>1, FS_Subset, Zenon
<1>3. ASSUME NEW t \in Spent(p)', t \notin Spent(p)
      PROVE  Cardinality(Spent(p)) + 1 <= Cardinality(Spent(p)')
  <2>1. /\ IsFiniteSet(Spent(p)' \ {t})
        /\ Cardinality(Spent(p)' \ {t}) = Cardinality(Spent(p)') - 1
    BY <1>1, FS_RemoveElement, Zenon
  <2>2. Spent(p) \subseteq Spent(p)' \ {t}
    BY <1>3
  <2>3. Cardinality(Spent(p)) <= Cardinality(Spent(p)' \ {t})
    BY <2>1, <2>2, FS_Subset, Zenon
  <2> QED BY <1>1, <2>1, <2>3
<1> QED BY <1>2, <1>3

\* A page that can be asked for was not passed.
LEMMA LiveAhead ==
  ASSUME PlacesInv, NEW q \in Int, Live(q)
  PROVE  currentPage < q /\ currentId <= q /\ seen < q
<1>1. currentId \in Nat /\ currentPage \in Int /\ seen \in Int /\ currentId >= 1
  BY Ranges DEF PlacesInv, WarmerTypeOK
<1>2. currentId <= q
  BY <1>1 DEF Live
<1>3. currentPage < q
  <2>1. CASE q > currentId
    BY <1>1, <2>1 DEF PlacesInv, CurrentPage
  <2>2. CASE q = currentId /\ writer \in {"look", "claim"}
    BY <1>1, <2>2 DEF PlacesInv, CurrentPage, GettingPage
  <2> QED BY <2>1, <2>2 DEF Live
<1> QED BY <1>1, <1>2, <1>3 DEF PlacesInv, WarmerAt

\* And no step brings one back.
LEMMA LiveShrinks ==
  ASSUME PlacesInv, Next
  PROVE  /\ \A q \in Int : Live(q)' => Live(q)
         /\ currentId' \in Int /\ currentId <= currentId'
<1>1. currentId \in Nat
  BY Ranges DEF PlacesInv
<1> USE DEF Live, writerVars
<1>2. CASE Commit \/ StopWarmer \/ CloseStep
  BY <1>1, <1>2 DEF Commit, StopWarmer, CloseStep, ReleaseAllPages, ClearRetired
<1>3. CASE Rotate
  BY <1>1, <1>3 DEF Rotate
<1>4. CASE Look
  BY <1>1, <1>4 DEF Look
<1>5. CASE Claim
  BY <1>1, <1>5 DEF Claim
<1>6. CASE Take \/ Disown \/ Validate \/ LoadSample
  BY <1>1, <1>6 DEF Take, Disown, Validate, LoadSample
<1>7. CASE LoadMap \/ LoadThrows \/ LoadZero \/ LoadHeader \/ Update \/ Swap
  BY <1>1, <1>7 DEF LoadMap, LoadThrows, LoadZero, LoadHeader, Update, Swap
<1>8. CASE WarmerStep
  BY <1>1, <1>8, WarmerLeaves
<1> QED BY <1>2, <1>3, <1>4, <1>5, <1>6, <1>7, <1>8 DEF Next, RotateStep

\* Nor was one the writer is claiming.
LEMMA HotAhead ==
  ASSUME PlacesInv, NEW s \in Slots, NEW p \in Pages, Hot(s, p)
  PROVE  p \in Int /\ currentPage < p /\ currentId <= p /\ seen < p
<1>1. /\ p \in Int /\ currentId \in Int /\ currentPage \in Int /\ seen \in Int
      /\ seen <= currentPage
  BY Ranges DEF PlacesInv, WarmerTypeOK, WarmerAt
<1>2. CASE Live(p)
  BY <1>1, <1>2, LiveAhead
<1>3. CASE Holding /\ p = currentId
  BY <1>1, <1>3 DEF Holding, PlacesInv, CurrentPage, GettingPage
<1> QED BY <1>2, <1>3 DEF Hot

\* What the warmer turns to is near every slot the writer may claim or has.
LEMMA TargetNear ==
  ASSUME PlacesInv, TurnsLeft, warmer = "claim" \/ Busy,
         NEW s \in Slots, NEW p \in Pages, Hot(s, p)
  PROVE  /\ p - warmupDistance + 1 <= Target /\ Target <= p + warmupDistance - 1
         /\ Live(Target) => Target \in Holes(p)
         /\ ~Live(Target) => Target \in p - warmupDistance + 1 .. p /\ Target \notin Spent(p)
<1>1. /\ seen \in Nat /\ step \in Nat /\ step >= 1 /\ Target = seen + step /\ Target \in Nat
      /\ ~InRing(Target) /\ step <= warmupDistance /\ seen <= currentPage
      /\ currentPage \in Nat /\ currentId \in Int
  BY TargetRange, Ranges DEF Busy, PlacesInv
<1>2. p \in Nat /\ p <= seen + warmupDistance /\ warmupDistance \in Nat
  BY Ranges, Sizes DEF TurnsLeft, PlacesInv
<1>3. currentPage < p /\ currentId <= p
  BY HotAhead
<1>4. p - warmupDistance + 1 <= Target /\ Target <= p + warmupDistance - 1
  BY <1>1, <1>2, <1>3
<1>5. Target \in p - warmupDistance + 1 .. p + warmupDistance - 1
  BY <1>1, <1>2, <1>4
<1>6. ASSUME ~Live(Target) PROVE Target \in p - warmupDistance + 1 .. p
  BY <1>1, <1>2, <1>3, <1>4, <1>6 DEF Live
<1> QED BY <1>1, <1>4, <1>5, <1>6 DEF Holes, Spent

\* How often the ring turns is a number.
LEMMA TurnNumbers == Turns \in Nat /\ Turns >= warmupDistance
BY Sizes DEF Turns

\* A slot that the writer may claim is not the warmer's next, and one it holds is
\* not when the warmer has a page for it.
LEMMA LeftAlone == Roomy /\ RingInv => SlotLeftAlone
<1> SUFFICES ASSUME Roomy, RingInv, NEW s \in Slots, NEW p \in Pages, Hot(s, p),
                    warmer = "claim" \/ Busy \/ ~Holding, s = writeIndex
             PROVE  FALSE
  BY DEF SlotLeftAlone
<1>1. PlacesInv /\ TurnsLeft
  BY DEF RingInv
<1>2. /\ p \in Int /\ RingSize \in Nat /\ warmupDistance \in Nat /\ s \in Nat
      /\ warmupDistance >= 1
  BY <1>1, Ranges, Sizes DEF PlacesInv
<1>3. Age(s) = RingSize
  BY <1>2 DEF Age
<1>4. RingSize + Cardinality(Holes(p)) <= Turns + Cardinality(Spent(p))
  BY <1>1, <1>3 DEF TurnsLeft
<1>5. /\ Cardinality(Holes(p)) \in Nat /\ Turns \in Nat /\ Cardinality(Spent(p)) \in Nat
      /\ Cardinality(Spent(p)) <= warmupDistance
  BY <1>2, HolesFinite, SpentFinite, TurnNumbers
<1>6. Turns + warmupDistance <= RingSize
  BY DEF Roomy
<1>7. ASSUME Cardinality(Spent(p)) <= warmupDistance - 1 PROVE FALSE
  BY <1>2, <1>4, <1>5, <1>6, <1>7
<1>8. CASE Live(p)
  <2>1. p \notin Spent(p) /\ p \in p - warmupDistance + 1 .. p
    BY <1>2, <1>8 DEF Spent
  <2> QED BY <1>2, <1>7, <2>1, SpentFinite
<1>9. CASE Holding
  <2>1. warmer = "claim" \/ Busy
    BY <1>9
  <2>2. CASE Live(Target)
    <3>1. Target \in Holes(p)
      BY <1>1, <2>1, <2>2, TargetNear
    <3>2. Cardinality(Holes(p)) # 0
      <4>1. IsFiniteSet(Holes(p)) /\ Holes(p) # {}
        BY <1>2, <3>1, HolesFinite
      <4> QED BY <4>1, FS_EmptySet, Zenon
    <3> QED BY <1>2, <1>4, <1>5, <1>6, <3>2
  <2>3. CASE ~Live(Target)
    <3>1. Target \in p - warmupDistance + 1 .. p /\ Target \notin Spent(p)
      BY <1>1, <2>1, <2>3, TargetNear
    <3> QED BY <1>2, <1>7, <3>1, SpentFinite
  <2> QED BY <2>2, <2>3
<1> QED BY <1>8, <1>9 DEF Hot

\* An empty ring has no age and no holes.
LEMMA RingInit == Init => RingInv
<1> SUFFICES ASSUME Init PROVE RingInv
  OBVIOUS
<1>1. PlacesInv
  BY PlacesInit
<1>2. /\ \A s \in Slots : pageId[s] = Empty
      /\ writer = "update" /\ warmer = "loop" /\ seen = -1 /\ currentId = 1
  BY DEF Init
<1>3. NoneSkipped
  BY <1>2 DEF NoneSkipped
<1>5. TurnsLeft
  <2>1. ASSUME NEW s \in Slots, NEW p \in Pages PROVE ~Hot(s, p)
    BY <1>2, Sizes DEF Hot, Pages, Empty, Holding
  <2> QED BY <2>1 DEF TurnsLeft
<1> QED BY <1>1, <1>3, <1>5 DEF RingInv

\* Nothing happens to the slots that matter.
LEMMA TurnsUndisturbed ==
  ASSUME PlacesInv, TurnsLeft, writeIndex' = writeIndex,
         seen' \in Int, seen <= seen',
         \A s \in Slots, p \in Pages : Hot(s, p)' => Hot(s, p),
         \A q \in Int : Live(q)' /\ ~InRing(q)' => Live(q) /\ ~InRing(q),
         \A q \in Pages : ~Live(q) /\ InRing(q) /\ q >= seen - RingSize =>
                            ~Live(q)' /\ InRing(q)'
  PROVE  TurnsLeft'
<1> SUFFICES ASSUME NEW s \in Slots, NEW p \in Pages, Hot(s, p)'
             PROVE  /\ p <= seen' + warmupDistance
                    /\ Age(s)' + Cardinality(Holes(p)') <= Turns + Cardinality(Spent(p)')
  BY DEF TurnsLeft, Turns, warmupDistance
<1>1. /\ p \in Int /\ seen \in Int /\ writeIndex \in Nat /\ s \in Nat
      /\ RingSize \in Nat /\ warmupDistance \in Nat /\ 2 * warmupDistance <= RingSize
  BY Ranges, Sizes DEF PlacesInv, WarmerTypeOK
<1>2. /\ p <= seen + warmupDistance /\ seen < p
      /\ Age(s) + Cardinality(Holes(p)) <= Turns + Cardinality(Spent(p))
  BY HotAhead DEF TurnsLeft
<1>3. Age(s)' = Age(s) /\ Age(s) \in Int
  BY <1>1 DEF Age
<1>4. Holes(p)' \subseteq Holes(p)
  <2>1. ASSUME NEW q \in Int, q \in Holes(p)' PROVE q \in Holes(p)
    <3>1. /\ q \in p - warmupDistance + 1 .. p + warmupDistance - 1
          /\ Live(q)' /\ ~InRing(q)'
      BY <2>1 DEF Holes, warmupDistance
    <3> QED BY <3>1 DEF Holes
  <2>2. \A q \in Holes(p)' : q \in Int
    BY <1>1 DEF Holes
  <2> QED BY <2>1, <2>2
<1>5. Cardinality(Holes(p)') <= Cardinality(Holes(p))
  BY <1>1, <1>4, HolesShrink
<1>a. Spent(p) \subseteq Spent(p)'
  <2>1. ASSUME NEW q \in Spent(p) PROVE q \in Spent(p)'
    <3>1. /\ q \in Int /\ q \in Pages /\ q \in p - warmupDistance + 1 .. p
          /\ ~Live(q) /\ InRing(q)
      BY <1>1, <2>1 DEF Spent
    <3>2. q >= seen - RingSize
      BY <1>1, <1>2, <3>1
    <3>3. ~Live(q)' /\ InRing(q)'
      BY <3>1, <3>2
    <3> QED BY <3>1, <3>3 DEF Spent, warmupDistance
  <2> QED BY <2>1
<1>b. Cardinality(Spent(p)) <= Cardinality(Spent(p)')
  BY <1>1, <1>a, SpentGrows
<1>6. /\ Cardinality(Holes(p)') \in Nat /\ Cardinality(Holes(p)) \in Nat
      /\ Turns \in Nat /\ Cardinality(Spent(p)) \in Nat /\ Cardinality(Spent(p)') \in Nat
  BY <1>1, HolesFinite, HolesFiniteNext, SpentFinite, SpentFiniteNext, TurnNumbers
<1>7. p <= seen' + warmupDistance
  <2>1. ASSUME NEW x \in Int, seen <= x PROVE p <= x + warmupDistance
    BY <1>1, <1>2, <2>1
  <2> QED BY <2>1, Zenon
<1>8. ASSUME NEW x \in Nat, NEW y \in Nat, NEW a \in Int, NEW z \in Nat, NEW u \in Nat,
             NEW v \in Nat, x <= y, u <= v, a + y <= z + u
      PROVE  a + x <= z + v
  BY <1>8
<1> QED BY <1>2, <1>3, <1>5, <1>b, <1>6, <1>7, <1>8

\* The writer's own steps: it only empties the slot of the page it asked for.
LEMMA WriterKeepsLive ==
  ASSUME PlacesInv, Commit \/ RotateStep \/ StopWarmer \/ CloseStep
  PROVE  /\ \A q \in Int : Live(q)' /\ ~InRing(q)' => Live(q) /\ ~InRing(q)
         /\ \A q \in Pages : ~Live(q) /\ InRing(q) => ~Live(q)' /\ InRing(q)'
         /\ \A s \in Slots, p \in Pages : Hot(s, p)' => Hot(s, p)
<1>1. WarmerTypeOK /\ ProbedSlot \in Slots /\ currentId \in Int
  BY Ranges DEF PlacesInv
<1>2. Next /\ \A q \in Int : Live(q)' => Live(q)
  BY LiveShrinks DEF Next
<1>3. \/ pageId' = pageId
      \/ /\ writer = "claim" /\ writer' = "take" /\ pageId[ProbedSlot] = currentId
         /\ pageId' = [pageId EXCEPT ![ProbedSlot] = Empty] /\ currentId' = currentId
  BY WriterLeaves
<1>4. ASSUME NEW q \in Int, Live(q)', ~InRing(q)' PROVE Live(q) /\ ~InRing(q)
  <2>1. CASE pageId' = pageId
    BY <1>2, <1>4, <2>1 DEF InRing
  <2>2. CASE pageId' # pageId
    <3>1. q # currentId
      BY <1>1, <1>3, <1>4, <2>2 DEF Live
    <3>2. \A s \in Slots : pageId[s] = q => pageId'[s] = q
      BY <1>1, <1>3, <2>2, <3>1 DEF WarmerTypeOK
    <3> QED BY <1>2, <1>4, <3>2 DEF InRing
  <2> QED BY <2>1, <2>2
<1>6. ASSUME NEW q \in Pages, ~Live(q), InRing(q) PROVE ~Live(q)' /\ InRing(q)'
  <2>0. q \in Int
    BY <1>1, Ranges
  <2>1. CASE pageId' = pageId
    BY <1>2, <1>6, <2>0, <2>1 DEF InRing
  <2>2. CASE pageId' # pageId
    <3>1. q # currentId
      BY <1>1, <1>3, <1>6, <2>2 DEF Live
    <3>2. \A s \in Slots : pageId[s] = q => pageId'[s] = q
      BY <1>1, <1>3, <2>2, <3>1 DEF WarmerTypeOK
    <3> QED BY <1>2, <1>6, <2>0, <3>2 DEF InRing
  <2> QED BY <2>1, <2>2
<1>5. ASSUME NEW s \in Slots, NEW p \in Pages, Hot(s, p)' PROVE Hot(s, p)
  <2>1. p \in Int /\ p # Empty
    BY <1>1, Ranges
  <2>2. ASSUME pageId'[s] = p, Live(p)' PROVE Hot(s, p)
    <3>1. pageId[s] = p
      BY <1>1, <1>3, <2>1, <2>2 DEF WarmerTypeOK
    <3> QED BY <1>2, <2>1, <2>2, <3>1 DEF Hot
  <2>3. ASSUME Holding', s = ProbedSlot', p = currentId' PROVE Hot(s, p)
    <3>1. CASE pageId' # pageId
      <4>1. ProbedSlot' = ProbedSlot
        BY <3>1 DEF Commit, RotateStep, StopWarmer, CloseStep, Rotate, Look, Claim, Take, Disown,
             Validate, LoadSample, LoadMap, LoadThrows, LoadZero, LoadHeader, Update, Swap,
             ReleaseAllPages, ClearRetired, ringVars, indexVars, ProbedSlot
      <4> QED BY <1>1, <1>3, <2>3, <3>1, <4>1 DEF Hot, Live
    <3>2. CASE pageId' = pageId
      <4>1. Take
        <5>1. currentId # Empty /\ pageId \in [Slots -> Pages \cup {Empty, Warming}]
          BY <1>1, Ranges DEF WarmerTypeOK
        <5>2. ~Claim
          <6>1. Claim => writer' = "look" \/ (pageId[ProbedSlot] = currentId /\ pageId'[ProbedSlot] = Empty)
            BY <1>1, <5>1 DEF Claim
          <6> QED BY <2>3, <3>2, <5>1, <6>1 DEF Holding
        <5>3. ~Commit /\ ~StopWarmer /\ ~CloseStep
          BY <2>3 DEF Commit, StopWarmer, CloseStep, ReleaseAllPages, ClearRetired, writerVars, Holding
        <5>4. ~Rotate /\ ~Look /\ ~Disown /\ ~Validate
          BY <2>3 DEF Rotate, Look, Disown, Validate, Holding
        <5>5. ~LoadSample /\ ~LoadMap /\ ~LoadThrows /\ ~LoadZero /\ ~LoadHeader /\ ~Update /\ ~Swap
          BY <2>3 DEF LoadSample, LoadMap, LoadThrows, LoadZero, LoadHeader, Update, Swap, Holding
        <5> QED BY <5>2, <5>3, <5>4, <5>5 DEF RotateStep
      <4>2. ProbedSlot' = ProbedSlot /\ currentId' = currentId /\ Holding
        BY <4>1 DEF Take, indexVars, ProbedSlot, Holding
      <4> QED BY <2>3, <4>2 DEF Hot
    <3> QED BY <3>1, <3>2
  <2> QED BY <1>5, <2>2, <2>3 DEF Hot
<1> QED BY <1>4, <1>5, <1>6

\* The writer's steps leave the ages of the slots within their bounds.
LEMMA RingInvWriter ==
  ASSUME Roomy, RingInv, Commit \/ RotateStep \/ StopWarmer \/ CloseStep
  PROVE  NoneSkipped' /\ TurnsLeft'
<1>1. PlacesInv /\ NoneSkipped /\ TurnsLeft /\ SlotLeftAlone
  BY LeftAlone DEF RingInv
<1>3. UNCHANGED <<warmer, seen, step, writeIndex>>
  BY <1>1, WriterLeaves DEF warmerVars
<1>4. /\ \/ pageId' = pageId
         \/ /\ writer = "claim" /\ pageId[ProbedSlot] = currentId
            /\ pageId' = [pageId EXCEPT ![ProbedSlot] = Empty]
      /\ \A q \in Int : Live(q)' /\ ~InRing(q)' => Live(q) /\ ~InRing(q)
      /\ \A q \in Pages : ~Live(q) /\ InRing(q) => ~Live(q)' /\ InRing(q)'
  BY <1>1, WriterLeaves, WriterKeepsLive
<1>5. /\ currentId \in Int /\ seen \in Int /\ step \in Int /\ currentId \in Pages
      /\ writeIndex \in Slots /\ ProbedSlot \in Slots /\ pageId \in [Slots -> Pages \cup {Empty, Warming}]
  BY <1>1, Ranges, Sizes DEF PlacesInv, WarmerTypeOK
<1>7. TurnsLeft'
  <2>1. \A s \in Slots, p \in Pages : Hot(s, p)' => Hot(s, p)
    BY <1>1, WriterKeepsLive
  <2>2. seen' \in Int /\ seen <= seen'
    BY <1>3, <1>5
  <2> QED BY <1>1, <1>3, <1>4, <2>1, <2>2, TurnsUndisturbed
<1>8. NoneSkipped'
  <2> SUFFICES ASSUME WarmFailures = {}, warmer \notin {"loop", "done"}
               PROVE  \/ \A q \in seen + 1 .. seen + step - 1 : Live(q)' => InRing(q)'
                      \/ pageId'[writeIndex] \in Pages
    BY <1>3 DEF NoneSkipped
  <2>1. CASE \A q \in seen + 1 .. seen + step - 1 : Live(q) => InRing(q)
    <3>1. \A q \in seen + 1 .. seen + step - 1 : q \in Int
      BY <1>5
    <3> QED BY <1>4, <2>1, <3>1
  <2>2. CASE pageId[writeIndex] \in Pages
    <3>1. CASE pageId' = pageId
      BY <2>2, <3>1
    <3>2. CASE pageId' # pageId
      <4>1. Hot(ProbedSlot, currentId) /\ ~Holding
        BY <1>4, <3>2 DEF Hot, Live, Holding
      <4>2. ProbedSlot # writeIndex
        BY <1>1, <1>5, <4>1 DEF SlotLeftAlone
      <4> QED BY <1>4, <1>5, <2>2, <3>2, <4>2
    <3> QED BY <3>1, <3>2
  <2> QED BY <1>1, <2>1, <2>2 DEF NoneSkipped
<1> QED BY <1>7, <1>8

\* The warmer empties no slot whose page can be asked for, and only a publication
\* makes one.
LEMMA WarmerKeepsLive ==
  ASSUME PlacesInv, WarmerStep
  PROVE  /\ \A q \in Int : (Live(q)' <=> Live(q)) /\ (Live(q) /\ InRing(q) => InRing(q)')
         /\ \A s \in Slots, p \in Pages : Hot(s, p)' => Hot(s, p) \/ WarmerPublish
         /\ \A q \in Pages : InRing(q) /\ q >= seen - RingSize => InRing(q)'
<1>1. /\ WarmerTypeOK /\ writeIndex \in Slots /\ RingShape
      /\ \A p \in Pages : p \in Nat /\ p >= 1 /\ p # Empty /\ p # Warming
      /\ pageId \in [Slots -> Pages \cup {Empty, Warming}] /\ seen \in Int /\ RingSize \in Nat
  BY Ranges, Sizes DEF PlacesInv, WarmerTypeOK
<1>2. UNCHANGED <<writer, currentId, readIndex, probe>>
  BY WarmerLeaves DEF writerVars
<1>3. \A q \in Int : Live(q)' <=> Live(q)
  BY <1>2 DEF Live
<1>4. ASSUME NEW s \in Slots, NEW q \in Pages, pageId[s] = q
      PROVE  pageId'[s] = q \/ q < seen - RingSize
  <2>1. CASE pageId' = pageId
    BY <1>4, <2>1
  <2>2. CASE \E x : pageId' = [pageId EXCEPT ![writeIndex] = x] /\ pageId[writeIndex] \in {Empty, Warming}
    BY <1>1, <1>4, <2>2
  <2>3. CASE pageId' = [t \in Slots |-> IF t \in OldSlots THEN Empty ELSE pageId[t]]
    BY <1>4, <2>3 DEF OldSlots
  <2> QED BY <2>1, <2>2, <2>3, RingWarmerNext
<1>5. ASSUME NEW q \in Pages, InRing(q), q >= seen - RingSize PROVE InRing(q)'
  <2>1. PICK s \in Slots : pageId[s] = q
    BY <1>5 DEF InRing
  <2>2. pageId'[s] = q \/ q < seen - RingSize
    BY <1>4, <2>1
  <2> QED BY <1>1, <1>5, <2>2 DEF InRing
<1>6. ASSUME NEW q \in Int, Live(q), InRing(q) PROVE InRing(q)'
  <2>1. seen < q /\ currentId <= q /\ currentId \in Nat /\ currentId >= 1
    BY <1>1, <1>6, LiveAhead, Ranges
  <2>2. q \in Pages
    BY <1>1, <1>6, <2>1 DEF InRing, Empty, Warming
  <2>3. q >= seen - RingSize
    BY <1>1, <1>6, <2>1
  <2> QED BY <1>5, <1>6, <2>2, <2>3
<1>7. ASSUME NEW s \in Slots, NEW p \in Pages, Hot(s, p)', ~WarmerPublish PROVE Hot(s, p)
  <2>1. ASSUME pageId'[s] = p PROVE pageId[s] = p
    <3>1. CASE pageId' = pageId
      BY <2>1, <3>1
    <3>2. CASE \E x \in {Empty, Warming} : pageId' = [pageId EXCEPT ![writeIndex] = x]
      BY <1>1, <2>1, <3>2
    <3>3. CASE pageId' = [t \in Slots |-> IF t \in OldSlots THEN Empty ELSE pageId[t]]
      BY <1>1, <2>1, <3>3
    <3> QED BY <1>7, <3>1, <3>2, <3>3, RingWarmerNext
  <2>2. Holding' = Holding /\ ProbedSlot' = ProbedSlot
    BY <1>2 DEF Holding, ProbedSlot
  <2>3. p \in Int
    BY <1>1
  <2>4. Hot(s, p)' = ((pageId'[s] = p /\ Live(p)') \/ (Holding' /\ s = ProbedSlot' /\ p = currentId'))
    BY DEF Hot
  <2> QED BY <1>2, <1>3, <1>7, <2>1, <2>2, <2>3, <2>4 DEF Hot
<1> QED BY <1>3, <1>5, <1>6, <1>7

\* The warmer's steps other than a publication.
LEMMA RingInvWarmer ==
  ASSUME Roomy, RingInv, WarmerStep, ~WarmerPublish
  PROVE  NoneSkipped' /\ TurnsLeft'
<1>1. PlacesInv /\ NoneSkipped /\ TurnsLeft
  BY DEF RingInv
<1>3. UNCHANGED <<writer, currentId, currentPage>> /\ writeIndex' = writeIndex /\ seen <= seen'
  BY <1>1, WarmerLeaves, RingWarmerNext DEF writerVars, WarmerPublish
<1>4. /\ \A q \in Int : (Live(q)' <=> Live(q)) /\ (Live(q) /\ InRing(q) => InRing(q)')
      /\ \A s \in Slots, p \in Pages : Hot(s, p)' => Hot(s, p)
      /\ \A q \in Pages : InRing(q) /\ q >= seen - RingSize => InRing(q)'
      /\ \A q \in Pages : q \in Int
  BY <1>1, WarmerKeepsLive, Ranges DEF PlacesInv
<1>5. /\ currentId \in Int /\ seen \in Int /\ step \in Int /\ seen' \in Int
      /\ writeIndex \in Slots /\ step' \in Int /\ currentPage \in Int
      /\ \A s \in Slots : pageId[s] \in Pages \cup {Empty, Warming}
  <2>1. WarmerTypeOK'
    BY <1>1, WarmerTypes
  <2> QED BY <1>1, <2>1, Ranges, Sizes DEF PlacesInv, WarmerTypeOK
<1>6. \/ WarmerLoop /\ warmer' = "done"
      \/ WarmerLoop /\ seen' = currentPage /\ step' = 1 /\ currentPage >= 0
      \/ warmer \notin {"loop", "done"} /\ seen' = seen /\ (step' = step \/ step' = step + 1)
  BY DEF WarmerStep, WarmerLoop, WarmerNext, WarmerClaim, WarmerSample, WarmerStat, WarmerMap,
         WarmerMapThrows, WarmerZero, WarmerHeader, WarmerFill, WarmerPublish, WarmerClean
<1>a. PICK sn \in Int : sn = seen'
  BY <1>5
<1>b. PICK st \in Int : st = step'
  BY <1>5
<1>8. TurnsLeft'
  <2>1. \A q \in Int : Live(q)' /\ ~InRing(q)' => Live(q) /\ ~InRing(q)
    BY <1>4
  <2>2. \A q \in Pages : ~Live(q) /\ InRing(q) /\ q >= seen - RingSize => ~Live(q)' /\ InRing(q)'
    BY <1>4
  <2> QED BY <1>1, <1>3, <1>4, <1>5, <2>1, <2>2, TurnsUndisturbed
<1>9. NoneSkipped'
  <2> SUFFICES ASSUME WarmFailures = {}, warmer' \notin {"loop", "done"}
               PROVE  \/ \A q \in seen' + 1 .. seen' + step' - 1 : Live(q)' => InRing(q)'
                      \/ pageId'[writeIndex'] \in Pages
    BY DEF NoneSkipped
  <2>1. CASE WarmerLoop
    <3>1. step' = 1
      BY <1>6, <2>1 DEF WarmerLoop
    <3>2. \A q \in sn + 1 .. sn + st - 1 : FALSE
      BY <1>b, <3>1
    <3> QED BY <1>a, <1>b, <3>2
  <2>2. CASE ~WarmerLoop
    <3>0. warmer \notin {"loop", "done"} /\ seen' = seen
      BY <1>6, <2>2
    <3>1. CASE WarmerClaim /\ step' # step
      <4>1. pageId[writeIndex] # Empty /\ pageId' = pageId /\ ~Busy
        BY <1>1, <3>1, Ranges DEF WarmerClaim, PlacesInv, Busy
      <4>2. pageId[writeIndex] # Warming
        BY <1>1, <1>5, <4>1 DEF PlacesInv, RingShape
      <4> QED BY <1>3, <1>5, <4>1, <4>2
    <3>2. CASE ~(WarmerClaim /\ step' # step)
      <4>1. ~WarmerMapThrows
        BY DEF WarmerMapThrows
      <4>2. step' # step => step' = step + 1 /\ InRing(Target)
        BY <2>2, <3>2, <4>1 DEF WarmerStep, WarmerNext, WarmerSample, WarmerStat, WarmerMap,
             WarmerZero, WarmerHeader, WarmerFill, WarmerPublish, WarmerClean, InRing
      <4>3. CASE \A q \in seen + 1 .. seen + step - 1 : Live(q) => InRing(q)
        <5>1. ASSUME NEW q \in sn + 1 .. sn + st - 1, Live(q)' PROVE InRing(q)'
          <6>1. q \in Int /\ (q \in seen + 1 .. seen + step - 1 \/ (step' # step /\ q = seen + step))
            <7>1. sn = seen /\ (st # step => (step' # step /\ st = step + 1))
              BY <1>a, <1>b, <3>0, <4>2, Zenon
            <7> QED BY <1>5, <7>1
          <6>2. InRing(q)
            BY <1>4, <4>2, <4>3, <5>1, <6>1 DEF Target
          <6> QED BY <1>4, <5>1, <6>1, <6>2
        <5> QED BY <1>a, <1>b, <5>1
      <4>4. CASE pageId[writeIndex] \in Pages
        <5>1. pageId[writeIndex] # Empty /\ pageId[writeIndex] # Warming
          BY <1>1, <4>4, Ranges DEF PlacesInv
        <5>2. ~WarmerClean
          BY DEF WarmerClean
        <5>3. pageId' = pageId
          BY <1>1, <4>1, <5>1, <5>2, RingWarmerNext
        <5> QED BY <1>3, <4>4, <5>3
      <4> QED BY <1>1, <3>0, <4>3, <4>4 DEF NoneSkipped
    <3> QED BY <3>1, <3>2
  <2> QED BY <2>1, <2>2
<1> QED BY <1>8, <1>9

\* A publication makes every other slot older, and fills its own.
LEMMA Ages ==
  ASSUME NEW w \in Slots, NEW s \in Slots, writeIndex = w, writeIndex' = (w + 1) % RingSize
  PROVE  /\ Age(s) \in Nat /\ Age(s)' \in Nat
         /\ s # w => Age(s)' = Age(s) + 1
         /\ s = w => Age(s)' = 1
<1>1. s \in Nat /\ s < RingSize /\ w \in Nat /\ w < RingSize /\ RingSize \in Nat
  BY Sizes DEF Slots
<1>2. PICK x : x = writeIndex' /\ x = IF w + 1 = RingSize THEN 0 ELSE w + 1
  BY NextIndex
<1>3. Age(s) = IF s < w THEN w - s ELSE w + RingSize - s
  BY DEF Age
<1>4. Age(s)' = IF s < x THEN x - s ELSE x + RingSize - s
  BY <1>2 DEF Age
<1> HIDE DEF Age
<1>5. CASE w + 1 = RingSize
  BY <1>1, <1>2, <1>3, <1>4, <1>5
<1>6. CASE w + 1 # RingSize
  BY <1>1, <1>2, <1>3, <1>4, <1>6
<1> QED BY <1>5, <1>6

\* What the warmer has published of what lies ahead of the writer.
LEMMA PublishHoles ==
  ASSUME PlacesInv, WarmerPublish, NEW p \in Int
  PROVE  Holes(p)' \subseteq Holes(p) \ {Target}
<1>1. WarmerStep /\ Target \in Pages /\ pageId'[writeIndex] = Target /\ writeIndex \in Slots
  <2>1. WarmerStep /\ Target \in Pages /\ writeIndex \in Slots /\ WriteSlot = writeIndex
    BY TargetRange, Ranges DEF WarmerPublish, WarmerStep, PlacesInv, Busy
  <2> QED BY <2>1 DEF WarmerPublish, PlacesInv, WarmerTypeOK
<1>2. \A q \in Int : (Live(q)' <=> Live(q)) /\ (Live(q) /\ InRing(q) => InRing(q)')
  BY <1>1, WarmerKeepsLive
<1>3. ASSUME NEW q \in Int, q \in Holes(p)' PROVE q \in Holes(p) \ {Target}
  <2>1. /\ q \in p - warmupDistance + 1 .. p + warmupDistance - 1
        /\ Live(q)' /\ ~InRing(q)'
    BY <1>3 DEF Holes, warmupDistance
  <2>2. q # Target
    BY <1>1, <2>1 DEF InRing
  <2> QED BY <1>2, <2>1, <2>2 DEF Holes
<1>4. \A q \in Holes(p)' : q \in Int
  BY Sizes DEF Holes
<1> QED BY <1>3, <1>4

\* A page is published with this many others still to come around it.
LEMMA PublishFirst ==
  ASSUME PlacesInv, NoneSkipped, WarmerPublish, NEW t \in Int, t = Target
  PROVE  Cardinality(Holes(t)') + 1 <= Turns
<1>1. /\ warmer \notin {"loop", "done"} /\ seen \in Int /\ step \in Int
      /\ t = seen + step /\ writeIndex \in Slots /\ Busy
      /\ warmupDistance \in Nat /\ warmupDistance >= 1
  BY TargetRange, Ranges, Sizes DEF WarmerPublish, PlacesInv, Busy
<1>2. Holes(t)' \subseteq Holes(t) \ {t}
  BY PublishHoles
<1>3. ASSUME WarmFailures # {} PROVE Cardinality(Holes(t)') <= 2 * warmupDistance - 2
  <2> DEFINE a == t - warmupDistance + 1
             b == t + warmupDistance - 1
  <2>1. a \in Int /\ b \in Int /\ a <= b /\ b - a + 1 = 2 * warmupDistance - 1 /\ t \in a .. b
    BY <1>1
  <2>2. Holes(t) \subseteq a .. b
    BY DEF Holes
  <2> HIDE DEF a, b
  <2>3. IsFiniteSet(a .. b) /\ Cardinality(a .. b) = b - a + 1
    BY <2>1, RangeSize
  <2>4. /\ IsFiniteSet((a .. b) \ {t})
        /\ Cardinality((a .. b) \ {t}) = Cardinality(a .. b) - 1
    BY <2>1, <2>3, FS_RemoveElement, Zenon
  <2>5. Holes(t)' \subseteq (a .. b) \ {t}
    BY <1>2, <2>2
  <2>6. Cardinality(Holes(t)') <= Cardinality((a .. b) \ {t})
    BY <2>4, <2>5, FS_Subset, Zenon
  <2>7. Cardinality((a .. b) \ {t}) = 2 * warmupDistance - 2
    BY <1>1, <2>1, <2>3, <2>4
  <2> QED BY <2>6, <2>7, Zenon
<1>4. ASSUME WarmFailures = {} PROVE Cardinality(Holes(t)') <= warmupDistance - 1
  <2> DEFINE a == t + 1
             b == t + warmupDistance - 1
  <2>1. ASSUME NEW q \in Holes(t)' PROVE q \in a .. b
    <3>1. /\ q \in Int /\ Live(q) /\ ~InRing(q) /\ q # t /\ q <= b
          /\ q \in Holes(t)
      BY <1>1, <1>2, <2>1 DEF Holes
    <3>2. seen < q
      BY <3>1, LiveAhead
    <3>3. pageId[writeIndex] = Warming
      BY <1>1 DEF PlacesInv, RingShape
    <3>4. pageId[writeIndex] \notin Pages
      BY <3>3, Ranges DEF PlacesInv
    <3>5. \A r \in seen + 1 .. seen + step - 1 : Live(r) => InRing(r)
      BY <1>1, <1>4, <3>4 DEF NoneSkipped
    <3>6. q \notin seen + 1 .. seen + step - 1
      BY <3>1, <3>5
    <3> QED BY <1>1, <3>1, <3>2, <3>6
  <2>2. a \in Int /\ b \in Int /\ b - a + 1 = warmupDistance - 1 /\ (a > b => warmupDistance - 1 = 0)
    BY <1>1
  <2> HIDE DEF a, b
  <2>3. IsFiniteSet(a .. b) /\ Cardinality(a .. b) = warmupDistance - 1
    BY <1>1, <2>2, RangeSize
  <2>4. Holes(t)' \subseteq a .. b
    BY <2>1
  <2>5. Cardinality(Holes(t)') <= Cardinality(a .. b)
    BY <2>3, <2>4, FS_Subset, Zenon
  <2> QED BY <2>3, <2>5, Zenon
<1>5. Cardinality(Holes(t)') \in Nat
  BY HolesFiniteNext
<1> QED BY <1>1, <1>3, <1>4, <1>5 DEF Turns

\* The warmer's publication.
LEMMA RingInvPublish ==
  ASSUME Roomy, RingInv, WarmerPublish
  PROVE  NoneSkipped' /\ TurnsLeft'
<1>1. PlacesInv /\ NoneSkipped /\ TurnsLeft /\ SlotLeftAlone /\ WarmerStep /\ Busy
  BY LeftAlone DEF RingInv, WarmerStep, WarmerPublish, Busy
<1>3. PICK w \in Slots : w = writeIndex
  BY <1>1, Ranges DEF PlacesInv
<1>4. PICK t \in Pages : t = Target
  BY <1>1, TargetRange DEF Busy
<1>5. /\ UNCHANGED <<writer, currentId, currentPage, seen, readIndex, probe>>
      /\ step' = step + 1 /\ writeIndex' = (w + 1) % RingSize
      /\ pageId' = [pageId EXCEPT ![w] = t]
  BY <1>1, <1>3, <1>4, Ranges DEF PlacesInv, WarmerPublish, writerVars
<1>6. /\ \A q \in Int : (Live(q)' <=> Live(q)) /\ (Live(q) /\ InRing(q) => InRing(q)')
  BY <1>1, WarmerKeepsLive
<1>7. /\ seen \in Int /\ step \in Int /\ t \in Int /\ t = seen + step
      /\ step >= 1 /\ step <= warmupDistance /\ warmupDistance \in Int
      /\ warmer \notin {"loop", "done"}
      /\ pageId \in [Slots -> Pages \cup {Empty, Warming}]
  <2>1. t \in Int /\ pageId \in [Slots -> Pages \cup {Empty, Warming}]
    BY <1>1, Ranges DEF PlacesInv, WarmerTypeOK
  <2>2. /\ warmer \notin {"loop", "done"} /\ seen \in Int /\ step \in Int /\ t = seen + step
        /\ step >= 1 /\ step <= warmupDistance
    BY <1>1, <1>4, TargetRange DEF Busy
  <2> QED BY <2>1, <2>2, Sizes
<1>8. InRing(t)' /\ pageId'[w] = t /\ \A s \in Slots \ {w} : pageId'[s] = pageId[s]
  BY <1>3, <1>5, <1>7 DEF InRing
<1>9. NoneSkipped'
  <2> SUFFICES ASSUME WarmFailures = {}, NEW q \in seen + 1 .. seen + (step + 1) - 1, Live(q)'
               PROVE  InRing(q)'
    BY <1>5 DEF NoneSkipped
  <2>1. pageId[w] = Warming
    BY <1>1, <1>3 DEF PlacesInv, RingShape
  <2>2. pageId[w] \notin Pages
    BY <1>1, <2>1, Ranges DEF PlacesInv
  <2>3. \A r \in seen + 1 .. seen + step - 1 : Live(r) => InRing(r)
    BY <1>1, <1>3, <1>7, <2>2 DEF NoneSkipped
  <2>4. q \in Int /\ (q = t \/ q \in seen + 1 .. seen + step - 1)
    BY <1>7
  <2> QED BY <1>6, <1>8, <2>3, <2>4
<1>10. ASSUME NEW s \in Slots, NEW p \in Pages, Hot(s, p)'
       PROVE  (s # w /\ Hot(s, p)) \/ (s = w /\ p = t /\ Live(t))
  <2>1. p \in Int /\ currentId' = currentId /\ ProbedSlot' = ProbedSlot /\ Holding' = Holding
    BY <1>1, <1>5, Ranges DEF PlacesInv, ProbedSlot, Holding
  <2>2. ASSUME Hot(s, p) PROVE s # w
    BY <1>1, <1>3, <2>2 DEF SlotLeftAlone
  <2>3. ASSUME pageId'[s] = p, Live(p)' PROVE (s # w /\ Hot(s, p)) \/ (s = w /\ p = t /\ Live(t))
    <3>1. Live(p)
      BY <1>6, <2>1, <2>3
    <3>2. CASE s = w
      BY <1>8, <2>3, <3>1, <3>2
    <3>3. CASE s # w
      BY <1>8, <2>3, <3>1, <3>3 DEF Hot
    <3> QED BY <3>2, <3>3
  <2>4. ASSUME Holding', s = ProbedSlot', p = currentId' PROVE s # w /\ Hot(s, p)
    <3>1. Hot(s, p)
      BY <2>1, <2>4 DEF Hot
    <3> QED BY <2>2, <3>1
  <2> QED BY <1>10, <2>3, <2>4 DEF Hot
<1>11. ASSUME NEW p \in Int PROVE Holes(p)' \subseteq Holes(p) \ {t}
  BY <1>1, <1>4, PublishHoles
<1>12. ASSUME NEW p \in Pages PROVE Spent(p) \subseteq Spent(p)'
  <2>1. ASSUME NEW q \in Spent(p) PROVE q \in Spent(p)'
    <3>1. /\ q \in Int /\ q \in Pages /\ q \in p - warmupDistance + 1 .. p
          /\ ~Live(q) /\ InRing(q)
      BY <1>1, <2>1, Ranges DEF Spent, PlacesInv
    <3>2. ~Live(q)'
      BY <1>6, <3>1
    <3>3. PICK u \in Slots : pageId[u] = q
      BY <3>1 DEF InRing
    <3>4. u # w
      <4>1. pageId[w] = Warming
        BY <1>1, <1>3 DEF PlacesInv, RingShape
      <4> QED BY <1>1, <3>1, <3>3, <4>1, Ranges DEF PlacesInv
    <3>5. InRing(q)'
      BY <1>8, <3>3, <3>4 DEF InRing
    <3> QED BY <3>1, <3>2, <3>5 DEF Spent, warmupDistance
  <2> QED BY <2>1
<1>13. ASSUME NEW s \in Slots, NEW p \in Pages, s # w, Hot(s, p)
       PROVE  Age(s) + 1 + Cardinality(Holes(p)') <= Turns + Cardinality(Spent(p)')
  <2>1. p \in Int /\ Age(s) \in Nat
    BY <1>1, <1>3, <1>5, Ranges, Ages DEF PlacesInv
  <2>2. Age(s) + Cardinality(Holes(p)) <= Turns + Cardinality(Spent(p))
    BY <1>1, <1>13 DEF TurnsLeft
  <2>3. /\ Cardinality(Holes(p)') \in Nat /\ Cardinality(Holes(p)) \in Nat
        /\ Turns \in Nat /\ Cardinality(Spent(p)) \in Nat /\ Cardinality(Spent(p)') \in Nat
    BY <2>1, HolesFinite, HolesFiniteNext, SpentFinite, SpentFiniteNext, TurnNumbers
  <2>4. Cardinality(Spent(p)) <= Cardinality(Spent(p)')
    BY <1>12, <2>1, SpentGrows
  <2>5. CASE Live(t)
    <3>1. t \in Holes(p)
      BY <1>1, <1>4, <1>13, <2>5, TargetNear
    <3>2. Cardinality(Holes(p)') <= Cardinality(Holes(p)) - 1
      BY <1>11, <2>1, <3>1, HoleFilled
    <3> QED BY <2>1, <2>2, <2>3, <2>4, <3>2
  <2>6. CASE ~Live(t)
    <3>1. t \in p - warmupDistance + 1 .. p /\ t \notin Spent(p)
      BY <1>1, <1>4, <1>13, <2>6, TargetNear
    <3>2. t \in Spent(p)'
      <4>1. ~Live(t)'
        BY <1>6, <1>7, <2>6
      <4> QED BY <1>8, <3>1, <4>1 DEF Spent, warmupDistance
    <3>3. Cardinality(Spent(p)) + 1 <= Cardinality(Spent(p)')
      BY <1>12, <2>1, <3>1, <3>2, SpentGrows
    <3>4. Cardinality(Holes(p)') <= Cardinality(Holes(p))
      BY <1>11, <2>1, HolesShrink
    <3> QED BY <2>1, <2>2, <2>3, <3>3, <3>4
  <2> QED BY <2>5, <2>6
<1>14. TurnsLeft'
  <2> SUFFICES ASSUME NEW s \in Slots, NEW p \in Pages, Hot(s, p)'
               PROVE  /\ p <= seen' + warmupDistance
                      /\ Age(s)' + Cardinality(Holes(p)') <= Turns + Cardinality(Spent(p)')
    BY DEF TurnsLeft, Turns, warmupDistance
  <2>1. p \in Int /\ Age(s) \in Nat /\ (s # w => Age(s)' = Age(s) + 1) /\ (s = w => Age(s)' = 1)
    BY <1>1, <1>3, <1>5, Ranges, Ages DEF PlacesInv
  <2>2. CASE s # w /\ Hot(s, p)
    <3>1. p <= seen + warmupDistance
      BY <1>1, <2>2 DEF TurnsLeft
    <3>2. Age(s) + 1 + Cardinality(Holes(p)') <= Turns + Cardinality(Spent(p)')
      BY <1>13, <2>2
    <3> QED BY <1>5, <2>1, <2>2, <3>1, <3>2
  <2>3. CASE s = w /\ p = t /\ Live(t)
    <3>1. p <= seen + warmupDistance
      BY <1>7, <2>3
    <3>2. Cardinality(Holes(p)') + 1 <= Turns
      BY <1>1, <1>4, <2>1, <2>3, PublishFirst
    <3>3. Cardinality(Holes(p)') \in Nat /\ Turns \in Nat /\ Cardinality(Spent(p)') \in Nat
      BY <2>1, HolesFiniteNext, SpentFiniteNext, TurnNumbers
    <3>4. 1 + Cardinality(Holes(p)') <= Turns + Cardinality(Spent(p)')
      BY <3>2, <3>3
    <3> QED BY <1>5, <2>1, <2>3, <3>1, <3>4
  <2> QED BY <1>10, <2>2, <2>3
<1> QED BY <1>9, <1>14

\* The ring keeps its turns, if it is large enough.
LEMMA RingNext ==
  ASSUME Roomy
  PROVE  RingInv /\ [Next]_vars => RingInv'
<1> SUFFICES ASSUME RingInv, [Next]_vars PROVE RingInv'
  OBVIOUS
<1>1. PlacesInv'
  BY PlacesNext DEF RingInv
<1>2. CASE Next
  <2>1. NoneSkipped' /\ TurnsLeft'
    BY <1>2, RingInvWriter, RingInvWarmer, RingInvPublish DEF Next
  <2> QED BY <1>1, <2>1 DEF RingInv
<1>3. CASE UNCHANGED vars
  <2>1. UNCHANGED <<pageId, writeIndex, readIndex, writer, currentId, probe, warmer, seen, step>>
    BY <1>3 DEF vars, ringVars, indexVars, writerVars, warmerVars
  <2>2. NoneSkipped'
    BY <2>1 DEF RingInv, NoneSkipped, Live, InRing
  <2>3. TurnsLeft'
    <3>1. \A s \in Slots, p \in Pages : Hot(s, p)' <=> Hot(s, p)
      BY <2>1 DEF Hot, Live, Holding, ProbedSlot
    <3>2. \A s \in Slots : Age(s)' = Age(s)
      BY <2>1 DEF Age
    <3>3. \A p \in Pages : Holes(p)' = Holes(p) /\ Spent(p)' = Spent(p)
      BY <2>1, Zenon DEF Holes, Spent, Live, InRing
    <3> QED BY <2>1, <3>1, <3>2, <3>3 DEF RingInv, TurnsLeft
  <2> QED BY <1>1, <2>2, <2>3 DEF RingInv
<1> QED BY <1>2, <1>3

-----------------------------------------------------------------------------
(* One owner. *)

\* What the proofs below use of the state.
LEMMA OwnFacts ==
  ASSUME Roomy, OwnInv
  PROVE  /\ PlacesInv /\ WarmerTypeOK /\ SlotLeftAlone /\ ProbedSlot \in Slots
         /\ writeIndex \in Slots /\ WriteSlot = writeIndex /\ Null \notin Addrs
         /\ Holding => Hot(ProbedSlot, currentId) /\ currentId \in Pages
         /\ \A p \in Pages : p # Empty /\ p # Warming /\ p >= 0 /\ p # 0
<1>1. PlacesInv /\ WarmerTypeOK /\ SlotLeftAlone
  BY LeftAlone DEF OwnInv, RingInv, PlacesInv
<1>2. Null \notin Addrs
  BY WarmerAssumption, Zenon
<1>3. \A p \in Pages : p # Empty /\ p # Warming /\ p >= 0 /\ p # 0
  BY <1>1, Ranges
<1> QED BY <1>1, <1>2, <1>3, Ranges DEF Hot

\* No local holds a mapping at first.
LEMMA LocalsInit == Init => LocalsInUse
<1>1. Addrs # {} /\ Null \notin Addrs
  BY WarmerAssumption, Zenon
<1> QED BY <1>1 DEF Init, LocalsInUse

\* A local holds a mapping only in the stage that uses it, at every step.
LEMMA LocalsNext ==
  ASSUME Roomy, OwnInv, Next
  PROVE  LocalsInUse'
<1>1. /\ PlacesInv /\ WarmerTypeOK /\ LocalsInUse /\ Null \notin Addrs /\ CurrentPage
      /\ currentId \in Nat /\ currentId >= 1
  BY OwnFacts, Ranges DEF OwnInv, PlacesInv
<1> USE DEF LocalsInUse, writerVars, warmerVars, indexVars
<1>2. CASE Commit \/ Rotate
  BY <1>1, <1>2 DEF Commit, Rotate
<1>3. CASE Look \/ Claim
  BY <1>1, <1>3 DEF Look, Claim
<1>4. CASE Take
  BY <1>1, <1>4 DEF Take, OwnInv, Labels
<1>5. CASE Disown
  BY <1>1, <1>5 DEF Disown
<1>6. CASE Validate
  <2>2. currentPage # -1
    BY <1>1, <1>6 DEF Validate, CurrentPage
  <2> QED BY <1>1, <1>6, <2>2 DEF Validate
<1>7. CASE LoadSample \/ LoadThrows
  BY <1>1, <1>7 DEF LoadSample, LoadThrows
<1>8. CASE LoadMap
  <2>1. FreeAddr # Null
    BY <1>1, <1>8, FreeAddrFree DEF LoadMap, Map
  <2> QED BY <1>1, <1>8, <2>1 DEF LoadMap
<1>9. CASE LoadZero
  BY <1>1, <1>9 DEF LoadZero
<1>10. CASE LoadHeader
  <2>2. currentPage # -1
    BY <1>1, <1>10 DEF LoadHeader, CurrentPage
  <2> QED BY <1>1, <1>10, <2>2 DEF LoadHeader
<1>11. CASE Update
  BY <1>1, <1>11 DEF Update
<1>12. CASE Swap
  BY <1>1, <1>12 DEF Swap
<1>13. CASE StopWarmer \/ CloseStep
  BY <1>1, <1>13 DEF StopWarmer, CloseStep, ReleaseAllPages, ClearRetired
<1>14. CASE WarmerStep
  <2>1. UNCHANGED <<writer, current, next, currentPage>>
    BY <1>14, WarmerLeaves
  <2>2. CASE WarmerMap
    <3>1. FreeAddr # Null
      BY <1>1, <2>2, FreeAddrFree DEF WarmerMap, Map
    <3> QED BY <1>1, <2>1, <2>2, <3>1 DEF WarmerMap
  <2>3. CASE ~WarmerMap
    <3>1. /\ addr' # Null <=> warmer' \in {"zero", "header", "fill"}
          /\ warmer # "done"
      BY <1>1, <1>14, <2>3 DEF WarmerStep, WarmerLoop, WarmerNext, WarmerClaim, WarmerSample,
           WarmerStat, WarmerMapThrows, WarmerZero, WarmerHeader, WarmerFill, WarmerPublish, WarmerClean
    <3> QED BY <1>1, <2>1, <3>1
  <2> QED BY <2>2, <2>3
<1> QED BY <1>2, <1>3, <1>4, <1>5, <1>6, <1>7, <1>8, <1>9, <1>10, <1>11, <1>12, <1>13, <1>14
        DEF Next, RotateStep

\* A writer's step that is none of its own with a slot.
LEMMA NotHolding ==
  ASSUME Commit \/ RotateStep \/ StopWarmer \/ CloseStep, ~Claim, ~Take, ~Disown
  PROVE  /\ ~Holding /\ ~Holding' /\ pageId' = pageId
         /\ ReleaseAllPages \/ (owned' = owned /\ address' = address)
<1> USE DEF Holding, writerVars, ringVars
<1>1. CASE Commit \/ StopWarmer \/ CloseStep
  BY <1>1 DEF Commit, StopWarmer, CloseStep, ReleaseAllPages, ClearRetired
<1>2. CASE Rotate \/ Look \/ Validate \/ LoadSample
  BY <1>2 DEF Rotate, Look, Validate, LoadSample
<1>3. CASE LoadMap \/ LoadThrows \/ LoadZero \/ LoadHeader \/ Update \/ Swap
  BY <1>3 DEF LoadMap, LoadThrows, LoadZero, LoadHeader, Update, Swap
<1> QED BY <1>1, <1>2, <1>3 DEF RotateStep

\* rotatePage and the destructor keep the ring's flags of ownership true.
LEMMA SlotsOwnWriter ==
  ASSUME Roomy, OwnInv, Commit \/ RotateStep \/ StopWarmer \/ CloseStep
  PROVE  SlotsOwn'
<1>1. /\ PlacesInv /\ WarmerTypeOK /\ SlotLeftAlone /\ ProbedSlot \in Slots /\ SlotsOwn
      /\ \A p \in Pages : p # Empty /\ p # Warming
      /\ pageId \in [Slots -> Pages \cup {Empty, Warming}]
  BY OwnFacts DEF OwnInv, WarmerTypeOK
<1>2. UNCHANGED <<warmer, writeIndex>>
  BY <1>1, WriterLeaves DEF warmerVars
<1>f. owned \in [Slots -> BOOLEAN]
  BY <1>1, Zenon DEF PlacesInv, FlagsOK
<1>3. CASE Claim
  <2>1. owned' = owned /\ ProbedSlot \in Slots /\ ~Holding /\ writer = "claim"
    BY <1>1, <1>3 DEF Claim, Holding
  <2>2. CASE pageId' = pageId
    <3>1. writer' = "look"
      BY <1>1, <1>3, <2>2, Ranges DEF Claim
    <3> QED BY <1>1, <1>2, <2>1, <2>2, <3>1 DEF SlotsOwn, Holding
  <2>3. CASE pageId' # pageId
    <3>1. /\ pageId' = [pageId EXCEPT ![ProbedSlot] = Empty] /\ writer' = "take"
          /\ pageId[ProbedSlot] = currentId /\ ProbedSlot' = ProbedSlot /\ currentId \in Pages
      BY <1>1, <1>3, <2>3, Ranges DEF Claim, ProbedSlot, indexVars
    <3>2. pageId'[ProbedSlot] = Empty /\ \A s \in Slots \ {ProbedSlot} : pageId'[s] = pageId[s]
      BY <1>1, <3>1
    <3> QED BY <1>1, <1>2, <2>1, <3>1, <3>2 DEF SlotsOwn, Holding
  <2> QED BY <2>2, <2>3
<1>4. CASE Take
  <2>1. /\ UNCHANGED <<owned, pageId>> /\ ProbedSlot' = ProbedSlot /\ Holding /\ Holding'
        /\ writer \notin {"clear", "gone"} /\ writer' \notin {"clear", "gone"}
    BY <1>4 DEF Take, Holding, ProbedSlot, ringVars, indexVars
  <2> QED BY <1>1, <1>2, <2>1 DEF SlotsOwn
<1>5. CASE Disown
  <2>1. /\ owned' = [owned EXCEPT ![ProbedSlot] = FALSE] /\ pageId' = pageId /\ Holding
    BY <1>5, Zenon DEF Disown, Holding
  <2>2. ~Holding' /\ writer \notin {"clear", "gone"} /\ writer' \notin {"clear", "gone"}
    BY <1>5 DEF Disown, Holding
  <2>3. ~(warmer = "publish" /\ ProbedSlot = writeIndex) /\ pageId[ProbedSlot] \notin Pages
    BY <1>1, <2>1, OwnFacts DEF SlotLeftAlone, Busy, SlotsOwn
  <2>4. ~owned'[ProbedSlot] /\ \A s \in Slots \ {ProbedSlot} : owned'[s] = owned[s]
    BY <1>f, <1>1, <2>1, Zenon
  <2> QED BY <1>1, <1>2, <2>1, <2>2, <2>3, <2>4 DEF SlotsOwn
<1>6. CASE ReleaseAllPages
  <2>1. (\A s \in Slots : ~owned'[s]) /\ writer' = "clear"
    BY <1>6, Zenon DEF ReleaseAllPages
  <2> QED BY <2>1 DEF SlotsOwn, Holding
<1>7. CASE ~Claim /\ ~Take /\ ~Disown /\ ~ReleaseAllPages
  <2>1. ~Holding /\ ~Holding' /\ pageId' = pageId /\ owned' = owned
    BY <1>7, NotHolding
  <2>2. writer' \in {"clear", "gone"} <=> writer \in {"clear", "gone"}
    BY <1>7 DEF Commit, RotateStep, StopWarmer, CloseStep, ClearRetired, Rotate, Look, Validate,
         LoadSample, LoadMap, LoadThrows, LoadZero, LoadHeader, Update, Swap, writerVars
  <2> QED BY <1>1, <1>2, <2>1, <2>2 DEF SlotsOwn
<1> QED BY <1>3, <1>4, <1>5, <1>6, <1>7

\* warmupLoop keeps the ring's flags of ownership true, because it leaves the slot
\* of a claim alone.
LEMMA SlotsOwnWarmer ==
  ASSUME Roomy, OwnInv, WarmerStep
  PROVE  SlotsOwn'
<1>1. /\ PlacesInv /\ WarmerTypeOK /\ SlotLeftAlone /\ ProbedSlot \in Slots /\ SlotsOwn
      /\ WriteSlot = writeIndex /\ writeIndex \in Slots
      /\ \A p \in Pages : p # Empty /\ p # Warming
      /\ pageId \in [Slots -> Pages \cup {Empty, Warming}]
  BY OwnFacts DEF OwnInv, WarmerTypeOK
<1>2. writer' = writer /\ Holding' = Holding /\ ProbedSlot' = ProbedSlot
  BY WarmerLeaves DEF writerVars, Holding, ProbedSlot
<1>f. owned \in [Slots -> BOOLEAN]
  BY <1>1, Zenon DEF PlacesInv, FlagsOK
<1>3. ASSUME warmer = "claim" \/ Busy, Holding PROVE ProbedSlot # writeIndex
  BY <1>1, <1>3, OwnFacts DEF SlotLeftAlone
<1>4. writer \in {"clear", "gone"} => warmer = "done"
  BY DEF OwnInv, LocalsInUse
<1>5. CASE WarmerFill
  <2>1. /\ owned' = [owned EXCEPT ![writeIndex] = TRUE] /\ pageId' = pageId
        /\ writeIndex' = writeIndex /\ warmer = "fill" /\ warmer' = "publish"
    BY <1>1, <1>5, Zenon DEF WarmerFill, indexVars
  <2>2. owned'[writeIndex] /\ \A s \in Slots \ {writeIndex} : owned'[s] = owned[s]
    BY <1>f, <1>1, <2>1, Zenon
  <2>3. writer \notin {"clear", "gone"}
    BY <1>4, <2>1
  <2>4. UNCHANGED <<pageId, writeIndex>> /\ warmer = "fill" /\ warmer' = "publish"
    BY <2>1
  <2> QED BY <1>1, <1>2, <2>2, <2>3, <2>4 DEF SlotsOwn
<1>6. CASE WarmerPublish
  <2>1. /\ owned' = owned /\ pageId' = [pageId EXCEPT ![writeIndex] = Target] /\ Busy
        /\ warmer = "publish" /\ warmer' = "next"
    BY <1>1, <1>6 DEF WarmerPublish, Busy
  <2>2. Target \in Pages
    BY <1>1, <2>1, TargetRange DEF Busy
  <2>3. pageId'[writeIndex] \in Pages /\ \A s \in Slots \ {writeIndex} : pageId'[s] = pageId[s]
    BY <1>1, <2>1, <2>2
  <2> QED BY <1>1, <1>2, <1>3, <2>1, <2>3 DEF SlotsOwn
<1>7. CASE WarmerClean
  <2>1. /\ \A s \in Slots : owned'[s] = (s \notin OldSlots /\ owned[s])
        /\ warmer = "clean" /\ warmer' = "loop"
    BY <1>7, Zenon DEF WarmerClean
  <2>2. \A s \in Slots : pageId'[s] = IF s \in OldSlots THEN Empty ELSE pageId[s]
    BY <1>7 DEF WarmerClean
  <2>3. Holding => ProbedSlot \notin OldSlots
    BY <1>1 DEF SlotsOwn, OldSlots, Empty
  <2>4. Holding => pageId'[ProbedSlot] = Empty
    BY <1>1, <2>2 DEF SlotsOwn
  <2>5. ASSUME NEW s \in Slots, s \in OldSlots PROVE ~owned'[s] /\ pageId'[s] \notin Pages
    BY <1>1, <2>1, <2>2, <2>5
  <2>6. ASSUME NEW s \in Slots, s \notin OldSlots PROVE (owned'[s] <=> owned[s]) /\ pageId'[s] = pageId[s]
    BY <1>1, <2>1, <2>2, <2>6
  <2> QED BY <1>1, <1>2, <2>1, <2>3, <2>4, <2>5, <2>6 DEF SlotsOwn
<1>8. CASE WarmerClaim \/ WarmerMapThrows
  <2>1. /\ owned' = owned /\ writeIndex' = writeIndex
        /\ warmer # "publish" /\ warmer' # "publish" /\ (warmer = "claim" \/ Busy)
    BY <1>8 DEF WarmerClaim, WarmerMapThrows, indexVars, Busy
  <2>2. \/ pageId' = pageId
        \/ /\ pageId[writeIndex] \in {Empty, Warming}
           /\ \E x \in {Empty, Warming} : pageId' = [pageId EXCEPT ![writeIndex] = x]
    BY <1>1, <1>8, RingWarmerNext DEF WarmerPublish, WarmerClean, WarmerClaim, WarmerMapThrows
  <2>3. /\ \A s \in Slots : pageId'[s] \in Pages <=> pageId[s] \in Pages
        /\ \A s \in Slots \ {writeIndex} : pageId'[s] = pageId[s]
    BY <1>1, <2>2
  <2> QED BY <1>1, <1>2, <1>3, <2>1, <2>3 DEF SlotsOwn
<1>9. CASE \/ WarmerLoop \/ WarmerNext \/ WarmerSample \/ WarmerStat \/ WarmerMap
           \/ WarmerZero \/ WarmerHeader
  <2>1. UNCHANGED <<pageId, owned, writeIndex>> /\ warmer # "publish" /\ warmer' # "publish"
    BY <1>9 DEF WarmerLoop, WarmerNext, WarmerSample, WarmerStat, WarmerMap, WarmerZero,
         WarmerHeader, ringVars, indexVars
  <2> QED BY <1>1, <1>2, <2>1 DEF SlotsOwn
<1> QED BY <1>5, <1>6, <1>7, <1>8, <1>9 DEF WarmerStep

\* Nobody's mapping moves.
LEMMA SameHolders ==
  ASSUME OwnInv, UNCHANGED <<mapped, address, current, next, retired, addr>>,
         OwningSlots' = OwningSlots
  PROVE  Apart' /\ HeldIsMapped' /\ MappedIsHeld'
<1>1. Apart /\ HeldIsMapped /\ MappedIsHeld /\ Single' = Single
  BY DEF OwnInv, Single
<1>2. Apart'
  BY <1>1 DEF Apart
<1>3. HeldIsMapped'
  BY <1>1 DEF HeldIsMapped
<1>4. MappedIsHeld'
  BY <1>1 DEF MappedIsHeld
<1> QED BY <1>2, <1>3, <1>4

\* The same slots own a mapping as long as no flag and no claim changes.
LEMMA SameOwning ==
  ASSUME owned' = owned,
         \/ writer # "disown" /\ writer' # "disown"
         \/ writer' = writer /\ ProbedSlot' = ProbedSlot
  PROVE  OwningSlots' = OwningSlots
BY Zenon DEF OwningSlots

\* The steps that only look, or that publish or claim a slot.
LEMMA OwnQuietWriter ==
  ASSUME Roomy, OwnInv, ClaimedReady, Commit \/ RotateStep \/ StopWarmer,
         ~Take, ~Disown, ~LoadMap, ~Swap
  PROVE  Labels' /\ Apart' /\ HeldIsMapped' /\ MappedIsHeld'
<1>1. UNCHANGED <<mapped, address, owned, current, next, retired, warmer, seen, step, addr, writeIndex>>
  BY DEF ClaimedReady, Commit, RotateStep, StopWarmer, Rotate, Look, Claim, Validate, LoadSample,
         LoadThrows, LoadZero, LoadHeader, Update, ringVars, indexVars, writerVars, warmerVars
<1>2. writer # "disown" /\ writer' \notin {"disown", "validate"}
  BY DEF Commit, RotateStep, StopWarmer, Rotate, Look, Claim, Validate, LoadSample, LoadThrows,
         LoadZero, LoadHeader, Update, writerVars
<1>3. OwningSlots' = OwningSlots
  BY <1>1, <1>2, SameOwning
<1>4. /\ PlacesInv /\ ProbedSlot \in Slots /\ SlotsOwn /\ Labels /\ currentId \in Pages
      /\ \A p \in Pages : p # Empty
      /\ pageId \in [Slots -> Pages \cup {Empty, Warming}]
  BY OwnFacts, Ranges DEF OwnInv, WarmerTypeOK
<1>5. \/ pageId' = pageId
      \/ /\ writer = "claim" /\ writer' = "take" /\ pageId[ProbedSlot] = currentId
         /\ pageId' = [pageId EXCEPT ![ProbedSlot] = Empty] /\ currentId' = currentId
  BY <1>4, WriterLeaves
<1>6. \A s \in Slots : pageId'[s] \in Pages => pageId'[s] = pageId[s]
  BY <1>4, <1>5
<1>7. ASSUME writer' = "take"
      PROVE  /\ address[ProbedSlot] # Null /\ mapped[address[ProbedSlot]] = currentId
             /\ currentId' = currentId /\ ProbedSlot' = ProbedSlot
  <2>1. Claim /\ writer = "claim" /\ pageId[ProbedSlot] = currentId
    BY <1>7 DEF Commit, RotateStep, StopWarmer, Rotate, Look, Claim, Validate, LoadSample, LoadThrows,
         LoadZero, LoadHeader, Update, writerVars
  <2>2. owned[ProbedSlot]
    BY <1>4, <2>1 DEF SlotsOwn
  <2>3. currentId' = currentId /\ ProbedSlot' = ProbedSlot
    BY <1>7, <2>1 DEF Claim, ProbedSlot, indexVars
  <2> QED BY <1>4, <2>1, <2>2, <2>3 DEF Labels
<1>8. Labels'
  <2>1. \A s \in Slots : pageId'[s] \in Pages /\ owned'[s] =>
           address'[s] # Null /\ mapped'[address'[s]] = pageId'[s]
    BY <1>1, <1>4, <1>6 DEF Labels
  <2>2. /\ addr' # Null => mapped'[addr'] = Target'
        /\ warmer' = "publish" => address'[writeIndex'] # Null /\ mapped'[address'[writeIndex']] = Target'
    BY <1>1, <1>4 DEF Labels, Target
  <2> QED BY <1>1, <1>2, <1>7, <2>1, <2>2 DEF Labels
<1> QED BY <1>1, <1>3, <1>8, SameHolders

\* The warmer's steps that handle no mapping keep ownership.
LEMMA OwnQuietWarmer ==
  ASSUME Roomy, OwnInv, WarmerStep, ~WarmerMap, ~WarmerFill, ~WarmerClean
  PROVE  Labels' /\ Apart' /\ HeldIsMapped' /\ MappedIsHeld'
<1>1. UNCHANGED <<mapped, address, owned, addr>> /\ warmer' # "publish"
  BY DEF WarmerStep, WarmerLoop, WarmerNext, WarmerClaim, WarmerSample, WarmerStat,
         WarmerMapThrows, WarmerZero, WarmerHeader, WarmerPublish, ringVars
<1>2. UNCHANGED <<writer, current, next, retired, currentId>> /\ ProbedSlot' = ProbedSlot
  BY WarmerLeaves DEF writerVars, ProbedSlot
<1>3. OwningSlots' = OwningSlots
  BY <1>1, <1>2, SameOwning
<1>4. /\ PlacesInv /\ Labels /\ LocalsInUse /\ writeIndex \in Slots /\ WriteSlot = writeIndex
      /\ \A p \in Pages : p # Empty /\ p # Warming
      /\ pageId \in [Slots -> Pages \cup {Empty, Warming}]
  BY OwnFacts, Ranges DEF OwnInv, WarmerTypeOK
<1>5. \/ pageId' = pageId
      \/ \E x \in {Empty, Warming} : pageId' = [pageId EXCEPT ![writeIndex] = x]
      \/ warmer = "publish" /\ pageId' = [pageId EXCEPT ![writeIndex] = Target]
  BY <1>4, RingWarmerNext DEF WarmerPublish
<1>6. ASSUME NEW s \in Slots, pageId'[s] \in Pages, owned'[s]
      PROVE  address'[s] # Null /\ mapped'[address'[s]] = pageId'[s]
  <2>1. CASE pageId'[s] = pageId[s]
    BY <1>1, <1>4, <1>6, <2>1 DEF Labels
  <2>2. CASE pageId'[s] # pageId[s]
    <3>1. warmer = "publish" /\ s = writeIndex /\ pageId'[s] = Target
      BY <1>4, <1>5, <1>6, <2>2
    <3> QED BY <1>1, <1>4, <3>1 DEF Labels
  <2> QED BY <2>1, <2>2
<1>7. ASSUME addr' # Null PROVE mapped'[addr'] = Target'
  <2>1. warmer \in {"zero", "header", "fill"}
    BY <1>1, <1>4, <1>7 DEF LocalsInUse
  <2>2. seen' = seen /\ step' = step
    BY <2>1 DEF WarmerStep, WarmerLoop, WarmerNext, WarmerClaim, WarmerSample, WarmerStat,
         WarmerMapThrows, WarmerZero, WarmerHeader, WarmerPublish
  <2> QED BY <1>1, <1>4, <1>7, <2>2 DEF Labels, Target
<1>8. Labels'
  BY <1>1, <1>2, <1>4, <1>6, <1>7 DEF Labels
<1> QED BY <1>1, <1>2, <1>3, <1>8, SameHolders

\* Every holder has a real address.
LEMMA HeldFacts ==
  ASSUME Roomy, OwnInv
  PROVE  /\ mapped \in [Addrs -> Nat] /\ address \in [Slots -> Mapping]
         /\ current \in Mapping /\ next \in Mapping /\ addr \in Mapping
         /\ \A s \in OwningSlots : s \in Slots /\ address[s] \in Addrs /\ mapped[address[s]] # 0
         /\ retired \in Seq(Addrs)
         /\ \A i \in 1 .. Len(retired) : retired[i] \in Addrs /\ mapped[retired[i]] # 0
<1>1. /\ mapped \in [Addrs -> Nat] /\ address \in [Slots -> Mapping] /\ retired \in Seq(Addrs)
      /\ current \in Mapping /\ next \in Mapping /\ addr \in Mapping
  BY OwnFacts DEF WarmerTypeOK
<1>2. ASSUME NEW s \in OwningSlots
      PROVE  s \in Slots /\ address[s] \in Addrs /\ mapped[address[s]] # 0
  <2>1. s \in Slots
    BY Zenon DEF OwningSlots
  <2>2. address[s] # Null /\ mapped[address[s]] # 0
    BY DEF OwnInv, HeldIsMapped
  <2> QED BY <1>1, <2>1, <2>2 DEF Mapping
<1>3. \A i \in 1 .. Len(retired) : retired[i] \in Addrs /\ mapped[retired[i]] # 0
  BY <1>1 DEF OwnInv, HeldIsMapped
<1> QED BY <1>1, <1>2, <1>3

\* Loading the slot's address: the mapping passes to the writer.
LEMMA OwnTake ==
  ASSUME Roomy, OwnInv, Take
  PROVE  Labels' /\ Apart' /\ HeldIsMapped' /\ MappedIsHeld'
<1>1. PICK P \in Slots : P = ProbedSlot
  BY OwnFacts
<1>2. /\ UNCHANGED <<mapped, pageId, address, owned, current, retired, currentId, warmer, seen, step,
                     addr, writeIndex>>
      /\ writer = "take" /\ writer' = "disown" /\ next' = address[P] /\ ProbedSlot' = P
  BY <1>1 DEF Take, ringVars, indexVars, warmerVars, ProbedSlot
<1>3. Labels /\ Apart /\ HeldIsMapped /\ MappedIsHeld /\ SlotsOwn /\ LocalsInUse
  BY DEF OwnInv
<1>4. owned[P] /\ address[P] # Null /\ mapped[address[P]] = currentId /\ next = Null
  BY <1>1, <1>2, <1>3 DEF SlotsOwn, Labels, LocalsInUse, Holding
<1>5. P \in OwningSlots
  BY <1>1, <1>2, <1>4, Zenon DEF OwningSlots
<1>6. OwningSlots' = OwningSlots \ {P}
  <2>1. \A s : s \in OwningSlots <=> s \in Slots /\ owned[s]
    BY <1>2 DEF OwningSlots
  <2>2. \A s : s \in OwningSlots' <=> s \in Slots /\ owned[s] /\ s # P
    BY <1>2 DEF OwningSlots
  <2> QED BY <2>1, <2>2
<1>7. Labels'
  BY <1>1, <1>2, <1>3, <1>4 DEF Labels, Target
<1>8. Single = {current, addr} \ {Null} /\ Single' = {current, addr, address[P]} \ {Null}
  BY <1>2, <1>4 DEF Single
<1>9. Apart'
  BY <1>2, <1>3, <1>4, <1>5, <1>6, <1>8 DEF Apart
<1>10. HeldIsMapped'
  BY <1>2, <1>3, <1>5, <1>6, <1>8 DEF HeldIsMapped
<1>11. MappedIsHeld'
  BY <1>2, <1>3, <1>4, <1>5, <1>6, <1>8 DEF MappedIsHeld, HeldIsMapped
<1> QED BY <1>7, <1>9, <1>10, <1>11

\* Clearing is_owned: the ring no longer counts the mapping as its own.
LEMMA OwnDisown ==
  ASSUME Roomy, OwnInv, Disown
  PROVE  Labels' /\ Apart' /\ HeldIsMapped' /\ MappedIsHeld'
<1>1. ProbedSlot \in Slots /\ Labels /\ LocalsInUse
  BY OwnFacts DEF OwnInv
<1>2. /\ UNCHANGED <<mapped, pageId, address, current, next, retired, currentId, warmer, seen, step,
                     addr, writeIndex>>
      /\ writer = "disown" /\ writer' = "validate"
  BY DEF Disown, warmerVars
<1>3. /\ ~owned'[ProbedSlot] /\ \A s \in Slots \ {ProbedSlot} : owned'[s] = owned[s]
  <2>1. owned \in [Slots -> BOOLEAN]
    BY OwnFacts, Zenon DEF PlacesInv, FlagsOK
  <2>2. owned' = [owned EXCEPT ![ProbedSlot] = FALSE]
    BY Zenon DEF Disown
  <2> QED BY <1>1, <2>1, <2>2, Zenon
<1>4. OwningSlots' = OwningSlots
  <2>1. \A s : s \in OwningSlots <=> s \in Slots /\ owned[s] /\ s # ProbedSlot
    BY <1>2 DEF OwningSlots
  <2>2. \A s : s \in OwningSlots' <=> s \in Slots /\ owned'[s]
    BY <1>2 DEF OwningSlots
  <2> QED BY <1>3, <2>1, <2>2
<1>5. Labels'
  <2>1. \A s \in Slots : owned'[s] => owned[s]
    BY <1>3
  <2> QED BY <1>1, <1>2, <2>1 DEF Labels, Target
<1> QED BY <1>2, <1>4, <1>5, SameHolders

\* A new mapping, which nobody holds.
LEMMA Unheld ==
  ASSUME Roomy, OwnInv, NEW f \in Addrs, mapped[f] = 0
  PROVE  /\ f \notin Single /\ f # Null /\ \A i \in 1 .. Len(retired) : retired[i] # f
         /\ \A s \in OwningSlots : address[s] # f
<1>1. HeldIsMapped /\ Null \notin Addrs
  BY OwnFacts DEF OwnInv
<1> QED BY <1>1 DEF HeldIsMapped

\* The writer maps a page itself, at an address nobody holds.
LEMMA OwnLoadMap ==
  ASSUME Roomy, OwnInv, LoadMap
  PROVE  Labels' /\ Apart' /\ HeldIsMapped' /\ MappedIsHeld'
<1>1. PICK f \in Addrs : f = FreeAddr /\ mapped[f] = 0
  BY FreeAddrFree DEF LoadMap, Map
<1>2. /\ UNCHANGED <<pageId, address, owned, current, retired, currentId, warmer, seen, step, addr, writeIndex>>
      /\ writer = "map" /\ writer' = "zero" /\ next' = f
      /\ mapped' = [mapped EXCEPT ![f] = currentId]
  BY <1>1 DEF LoadMap, Map, ringVars, indexVars, warmerVars
<1>3. Labels /\ Apart /\ HeldIsMapped /\ MappedIsHeld /\ LocalsInUse /\ SlotsOwn
  BY DEF OwnInv
<1>4. next = Null /\ currentId # 0 /\ OwningSlots' = OwningSlots
  <2>1. next = Null
    BY <1>2, <1>3 DEF LocalsInUse
  <2>2. currentId # 0
    BY OwnFacts, Ranges
  <2>3. OwningSlots' = OwningSlots
    BY <1>2, SameOwning
  <2> QED BY <2>1, <2>2, <2>3
<1>5. /\ f \notin Single /\ f # Null /\ \A i \in 1 .. Len(retired) : retired[i] # f
      /\ \A s \in OwningSlots : address[s] # f
  BY <1>1, Unheld
<1>6. mapped'[f] = currentId /\ \A a \in Addrs \ {f} : mapped'[a] = mapped[a]
  BY <1>2, HeldFacts
<1>7. Single = {current, addr} \ {Null} /\ Single' = {current, f, addr} \ {Null}
  BY <1>2, <1>4 DEF Single
<1>8. Labels'
  <2>1. \A s \in Slots : owned[s] => s \in OwningSlots
    BY <1>2 DEF OwningSlots
  <2>2. ASSUME NEW s \in Slots, pageId[s] \in Pages, owned[s]
        PROVE  address[s] # Null /\ mapped'[address[s]] = pageId[s]
    BY <1>3, <1>5, <1>6, <2>1, <2>2, HeldFacts DEF Labels
  <2>3. addr # Null => mapped'[addr] = Target
    BY <1>3, <1>5, <1>6, <1>7, HeldFacts DEF Labels, Mapping
  <2>4. ASSUME warmer = "publish"
        PROVE  address[writeIndex] # Null /\ mapped'[address[writeIndex]] = Target
    <3>1. writeIndex \in OwningSlots
      BY <1>2, <1>3, <2>1, <2>4, OwnFacts DEF SlotsOwn
    <3> QED BY <1>3, <1>5, <1>6, <2>4, <3>1, HeldFacts DEF Labels
  <2> QED BY <1>2, <2>2, <2>3, <2>4 DEF Labels, Target
<1>9. Apart'
  BY <1>2, <1>3, <1>4, <1>5, <1>7 DEF Apart
<1>10. HeldIsMapped'
  <2>1. \A a \in Single' : mapped'[a] # 0
    BY <1>3, <1>4, <1>6, <1>7, HeldFacts DEF HeldIsMapped, Mapping
  <2>2. \A i \in 1 .. Len(retired) : mapped'[retired[i]] # 0
    BY <1>5, <1>6, HeldFacts
  <2>3. \A s \in OwningSlots : address[s] # Null /\ mapped'[address[s]] # 0
    BY <1>3, <1>5, <1>6, HeldFacts DEF HeldIsMapped
  <2> QED BY <1>2, <1>4, <2>1, <2>2, <2>3 DEF HeldIsMapped
<1>11. MappedIsHeld'
  BY <1>2, <1>3, <1>4, <1>5, <1>6, <1>7 DEF MappedIsHeld
<1> QED BY <1>8, <1>9, <1>10, <1>11

\* The warmer maps a page at an address nobody holds.
LEMMA OwnWarmerMap ==
  ASSUME Roomy, OwnInv, WarmerMap
  PROVE  Labels' /\ Apart' /\ HeldIsMapped' /\ MappedIsHeld'
<1>1. PICK f \in Addrs : f = FreeAddr /\ mapped[f] = 0
  BY FreeAddrFree DEF WarmerMap, Map
<1>2. /\ UNCHANGED <<pageId, address, owned, current, next, retired, writer, currentId, seen, step, writeIndex>>
      /\ warmer = "map" /\ warmer' = "zero" /\ addr' = f /\ ProbedSlot' = ProbedSlot
      /\ mapped' = [mapped EXCEPT ![f] = Target]
  BY <1>1 DEF WarmerMap, Map, ringVars, indexVars, writerVars, ProbedSlot
<1>3. Labels /\ Apart /\ HeldIsMapped /\ MappedIsHeld /\ LocalsInUse /\ SlotsOwn
  BY DEF OwnInv
<1>4. addr = Null /\ Target # 0 /\ OwningSlots' = OwningSlots
  <2>1. addr = Null
    BY <1>2, <1>3 DEF LocalsInUse
  <2>2. Target # 0
    BY <1>2, OwnFacts, TargetRange DEF Busy
  <2>3. OwningSlots' = OwningSlots
    BY <1>2, SameOwning
  <2> QED BY <2>1, <2>2, <2>3
<1>5. /\ f \notin Single /\ f # Null /\ \A i \in 1 .. Len(retired) : retired[i] # f
      /\ \A s \in OwningSlots : address[s] # f
  BY <1>1, Unheld
<1>6. mapped'[f] = Target /\ \A a \in Addrs \ {f} : mapped'[a] = mapped[a]
  BY <1>2, HeldFacts
<1>7. Single = {current, next} \ {Null} /\ Single' = {current, next, f} \ {Null}
  BY <1>2, <1>4 DEF Single
<1>8. Labels'
  <2>1. ASSUME NEW s \in Slots, pageId[s] \in Pages, owned[s]
        PROVE  address[s] # Null /\ mapped'[address[s]] = pageId[s]
    <3>1. s \in OwningSlots
      BY <1>3, <2>1, OwnFacts DEF OwningSlots, SlotsOwn, Holding
    <3> QED BY <1>3, <1>5, <1>6, <2>1, <3>1, HeldFacts DEF Labels
  <2>2. ASSUME writer = "take"
        PROVE  address[ProbedSlot] # Null /\ mapped'[address[ProbedSlot]] = currentId
    <3>1. ProbedSlot \in OwningSlots
      BY <1>3, <2>2, OwnFacts DEF OwningSlots, SlotsOwn, Holding
    <3> QED BY <1>3, <1>5, <1>6, <2>2, <3>1, HeldFacts DEF Labels
  <2>3. ASSUME writer \in {"disown", "validate"} PROVE mapped'[next] = currentId
    <3>1. next # Null
      BY <1>3, <2>3 DEF LocalsInUse
    <3> QED BY <1>3, <1>5, <1>6, <1>7, <2>3, <3>1, HeldFacts DEF Labels, Mapping
  <2> QED BY <1>2, <1>6, <2>1, <2>2, <2>3 DEF Labels, Target
<1>9. Apart'
  BY <1>2, <1>3, <1>4, <1>5, <1>7 DEF Apart
<1>10. HeldIsMapped'
  <2>1. \A a \in Single' : mapped'[a] # 0
    BY <1>3, <1>4, <1>6, <1>7, HeldFacts DEF HeldIsMapped, Mapping
  <2>2. \A i \in 1 .. Len(retired) : mapped'[retired[i]] # 0
    BY <1>5, <1>6, HeldFacts
  <2>3. \A s \in OwningSlots : address[s] # Null /\ mapped'[address[s]] # 0
    BY <1>3, <1>5, <1>6, HeldFacts DEF HeldIsMapped
  <2> QED BY <1>2, <1>4, <2>1, <2>2, <2>3 DEF HeldIsMapped
<1>11. MappedIsHeld'
  BY <1>2, <1>3, <1>4, <1>5, <1>6, <1>7 DEF MappedIsHeld
<1> QED BY <1>8, <1>9, <1>10, <1>11

\* The warmer puts its mapping into a slot that holds none.
LEMMA OwnWarmerFill ==
  ASSUME Roomy, OwnInv, WarmerFill
  PROVE  Labels' /\ Apart' /\ HeldIsMapped' /\ MappedIsHeld'
<1>1. PICK w \in Slots : w = writeIndex
  BY OwnFacts
<1>2. /\ UNCHANGED <<mapped, pageId, current, next, retired, writer, currentId, seen, step, writeIndex>>
      /\ warmer = "fill" /\ warmer' = "publish" /\ addr' = Null /\ ProbedSlot' = ProbedSlot
      /\ address' = [address EXCEPT ![w] = addr]
  BY <1>1, OwnFacts DEF WarmerFill, indexVars, writerVars, ProbedSlot
<1>3. Labels /\ Apart /\ HeldIsMapped /\ MappedIsHeld /\ LocalsInUse /\ SlotsOwn /\ PlacesInv
  BY OwnFacts DEF OwnInv
<1>4. owned'[w] /\ \A s \in Slots \ {w} : owned'[s] = owned[s]
  <2>1. owned \in [Slots -> BOOLEAN]
    BY <1>3, Zenon DEF PlacesInv, FlagsOK
  <2>2. owned' = [owned EXCEPT ![w] = TRUE]
    BY <1>1, OwnFacts, Zenon DEF WarmerFill
  <2> QED BY <2>1, <2>2, Zenon
<1>5. address'[w] = addr /\ \A s \in Slots \ {w} : address'[s] = address[s]
  BY <1>2, HeldFacts
<1>6. pageId[w] \notin Pages /\ (Holding => ProbedSlot # w)
  <2>1. pageId[w] = Warming
    BY <1>1, <1>2, <1>3 DEF PlacesInv, RingShape, Busy
  <2>2. Holding => ProbedSlot # w
    BY <1>1, <1>2, OwnFacts DEF SlotLeftAlone, Busy
  <2> QED BY <2>1, <2>2, OwnFacts
<1>7. ~owned[w]
  BY <1>1, <1>2, <1>3, <1>6 DEF SlotsOwn
<1>8. w \notin OwningSlots /\ OwningSlots' = OwningSlots \cup {w}
  <2>1. \A s : s \in OwningSlots <=> s \in Slots /\ owned[s] /\ ~(writer = "disown" /\ s = ProbedSlot)
    BY DEF OwningSlots
  <2>2. \A s : s \in OwningSlots' <=> s \in Slots /\ owned'[s] /\ ~(writer = "disown" /\ s = ProbedSlot)
    BY <1>2 DEF OwningSlots
  <2>3. ~(writer = "disown" /\ w = ProbedSlot)
    BY <1>6 DEF Holding
  <2> QED BY <1>4, <1>7, <2>1, <2>2, <2>3
<1>9. addr # Null /\ Single = {current, next, addr} \ {Null} /\ Single' = {current, next} \ {Null}
  BY <1>2, <1>3 DEF Single, LocalsInUse
<1>10. Labels'
  <2>1. ASSUME NEW s \in Slots, pageId[s] \in Pages, owned'[s]
        PROVE  address'[s] # Null /\ mapped[address'[s]] = pageId[s]
    <3>1. s # w
      BY <1>6, <2>1
    <3> QED BY <1>3, <1>4, <1>5, <2>1, <3>1 DEF Labels
  <2>2. ASSUME writer = "take"
        PROVE  address'[ProbedSlot] # Null /\ mapped[address'[ProbedSlot]] = currentId
    <3>1. ProbedSlot \in Slots \ {w}
      BY <1>6, <2>2, OwnFacts DEF Holding
    <3> QED BY <1>3, <1>5, <2>2, <3>1 DEF Labels
  <2>3. address'[w] # Null /\ mapped[address'[w]] = Target
    BY <1>3, <1>5, <1>9 DEF Labels
  <2> QED BY <1>1, <1>2, <1>3, <2>1, <2>2, <2>3 DEF Labels, Target
<1>11. \A s \in OwningSlots : address'[s] = address[s]
  BY <1>5, <1>8, HeldFacts
<1>12. Apart'
  <2>1. \A s \in OwningSlots' : address'[s] \notin Single'
    BY <1>3, <1>5, <1>8, <1>9, <1>11 DEF Apart
  <2>2. \A s \in OwningSlots' : \A i \in 1 .. Len(retired) : address'[s] # retired[i]
    BY <1>3, <1>5, <1>8, <1>9, <1>11 DEF Apart
  <2>3. \A s, t \in OwningSlots' : s # t => address'[s] # address'[t]
    BY <1>3, <1>5, <1>8, <1>9, <1>11 DEF Apart
  <2>4. \A i \in 1 .. Len(retired) : retired[i] \notin Single'
    BY <1>3, <1>9 DEF Apart
  <2> QED BY <1>2, <1>3, <2>1, <2>2, <2>3, <2>4 DEF Apart
<1>13. HeldIsMapped'
  BY <1>2, <1>3, <1>5, <1>8, <1>9, <1>11 DEF HeldIsMapped
<1>14. MappedIsHeld'
  BY <1>2, <1>3, <1>5, <1>8, <1>9, <1>11 DEF MappedIsHeld
<1> QED BY <1>10, <1>12, <1>13, <1>14

\* cleanupOldPages unmaps what the ring owns and forgets it.
LEMMA OwnWarmerClean ==
  ASSUME Roomy, OwnInv, WarmerClean
  PROVE  Labels' /\ Apart' /\ HeldIsMapped' /\ MappedIsHeld'
<1> DEFINE U == {address[s] : s \in {t \in OldSlots : owned[t]}}
<1>1. /\ UNCHANGED <<current, next, retired, writer, currentId, addr, seen, step, writeIndex>>
      /\ warmer = "clean" /\ warmer' = "loop" /\ ProbedSlot' = ProbedSlot
      /\ mapped' = [a \in Addrs |-> IF a \in U THEN 0 ELSE mapped[a]]
  BY DEF WarmerClean, Unmap, indexVars, writerVars, ProbedSlot
<1>2. Labels /\ Apart /\ HeldIsMapped /\ MappedIsHeld /\ LocalsInUse /\ SlotsOwn
  BY OwnFacts DEF OwnInv
<1>3. /\ \A s \in Slots : owned'[s] = (s \notin OldSlots /\ owned[s])
      /\ OldSlots \subseteq Slots
  BY Zenon DEF WarmerClean, OldSlots
<1>4. /\ \A s \in Slots : pageId'[s] = IF s \in OldSlots THEN Empty ELSE pageId[s]
      /\ \A s \in Slots \ OldSlots : address'[s] = address[s]
  BY DEF WarmerClean
<1>5. Holding => ProbedSlot \in Slots \ OldSlots
  BY <1>2, OwnFacts DEF SlotsOwn, OldSlots, Empty
<1>6. /\ \A s : s \in OwningSlots <=> s \in Slots /\ owned[s] /\ ~(writer = "disown" /\ s = ProbedSlot)
      /\ \A s : s \in OwningSlots' <=> s \in Slots /\ owned'[s] /\ ~(writer = "disown" /\ s = ProbedSlot)
  <2>1. \A s : s \in OwningSlots <=> s \in Slots /\ owned[s] /\ ~(writer = "disown" /\ s = ProbedSlot)
    BY DEF OwningSlots
  <2>2. \A s : s \in OwningSlots' <=> s \in Slots /\ owned'[s] /\ ~(writer = "disown" /\ s = ProbedSlot)
    BY <1>1 DEF OwningSlots
  <2> QED BY <2>1, <2>2
<1>7. /\ OwningSlots' = OwningSlots \ OldSlots
      /\ \A t \in OldSlots : owned[t] => t \in OwningSlots
  BY <1>3, <1>5, <1>6 DEF Holding
<1>8. ASSUME NEW s \in OwningSlots \ OldSlots PROVE address[s] \notin U
  BY <1>2, <1>7 DEF Apart
<1>9. \A a \in Single : a \notin U
  BY <1>2, <1>7 DEF Apart
<1>10. \A i \in 1 .. Len(retired) : retired[i] \notin U
  BY <1>2, <1>7 DEF Apart
<1>11. \A a \in U : \E t \in OldSlots : t \in OwningSlots /\ address[t] = a
  BY <1>7
<1> HIDE DEF U
<1>12. Single' = Single /\ addr = Null
  BY <1>1, <1>2 DEF Single, LocalsInUse
<1>13. Labels'
  <2>1. ASSUME NEW s \in Slots, pageId'[s] \in Pages, owned'[s]
        PROVE  address'[s] # Null /\ mapped'[address'[s]] = pageId'[s]
    <3>1. s \notin OldSlots /\ owned[s] /\ pageId[s] = pageId'[s]
      BY <1>3, <1>4, <2>1
    <3>2. s \in OwningSlots
      <4>1. Holding => pageId[ProbedSlot] \notin Pages
        BY <1>2, OwnFacts DEF SlotsOwn
      <4> QED BY <1>6, <2>1, <3>1, <4>1 DEF Holding
    <3> QED BY <1>1, <1>2, <1>4, <1>8, <2>1, <3>1, <3>2, HeldFacts DEF Labels
  <2>2. ASSUME writer = "take"
        PROVE  address'[ProbedSlot] # Null /\ mapped'[address'[ProbedSlot]] = currentId
    <3>1. ProbedSlot \in Slots \ OldSlots /\ owned[ProbedSlot]
      BY <1>2, <1>5, <2>2 DEF Holding, SlotsOwn
    <3>2. ProbedSlot \in OwningSlots
      BY <1>6, <2>2, <3>1
    <3> QED BY <1>1, <1>2, <1>4, <1>8, <2>2, <3>1, <3>2, HeldFacts DEF Labels
  <2>3. ASSUME writer \in {"disown", "validate"} PROVE mapped'[next] = currentId
    <3>1. next \in Single /\ next \in Addrs
      BY <1>2, <2>3, HeldFacts DEF LocalsInUse, Single, Mapping
    <3> QED BY <1>1, <1>2, <1>9, <2>3, <3>1 DEF Labels
  <2> QED BY <1>1, <1>12, <2>1, <2>2, <2>3 DEF Labels
<1>14. \A s \in OwningSlots' : address'[s] = address[s] /\ s \in OwningSlots /\ s \notin OldSlots
  BY <1>4, <1>7, HeldFacts
<1>15. Apart'
  BY <1>1, <1>2, <1>12, <1>14 DEF Apart
<1>16. HeldIsMapped'
  <2>1. \A a \in Single : a \in Addrs
    BY HeldFacts DEF Single, Mapping
  <2> QED BY <1>1, <1>2, <1>8, <1>9, <1>10, <1>12, <1>14, <2>1, HeldFacts DEF HeldIsMapped
<1>17. MappedIsHeld'
  <2>1. ASSUME NEW a \in Addrs, mapped'[a] # 0
        PROVE  \/ a \in Single
               \/ \E i \in 1 .. Len(retired) : retired[i] = a
               \/ \E s \in OwningSlots' : address'[s] = a
    <3>1. mapped[a] # 0 /\ a \notin U
      BY <1>1, <2>1
    <3>2. ASSUME NEW s \in OwningSlots, address[s] = a PROVE s \notin OldSlots
      <4>1. s \in OldSlots => a \in U
        BY <1>6, <3>2 DEF U
      <4> QED BY <3>1, <4>1
    <3> QED BY <1>2, <1>7, <1>14, <3>1, <3>2 DEF MappedIsHeld
  <2> QED BY <1>1, <1>12, <2>1 DEF MappedIsHeld
<1> QED BY <1>13, <1>15, <1>16, <1>17

\* rotatePage retires the old mapping and unmaps what exceeds the limit.
LEMMA OwnSwap ==
  ASSUME Roomy, OwnInv, Swap
  PROVE  Labels' /\ Apart' /\ HeldIsMapped' /\ MappedIsHeld'
<1> DEFINE kept == Append(retired, current)
<1>1. /\ UNCHANGED <<pageId, address, owned, currentId, warmer, seen, step, addr, writeIndex>>
      /\ writer = "swap" /\ writer' = "idle" /\ current' = next /\ next' = Null
      /\ \/ retired' = kept /\ mapped' = mapped
         \/ retired' = Tail(kept) /\ mapped' = [a \in Addrs |-> IF a = kept[1] THEN 0 ELSE mapped[a]]
  BY DEF Swap, Unmap, ringVars, indexVars, warmerVars
<1>2. Labels /\ Apart /\ HeldIsMapped /\ MappedIsHeld /\ LocalsInUse /\ SlotsOwn
  BY DEF OwnInv
<1>3. current # Null /\ current \in Addrs /\ next # Null /\ next \in Addrs
  BY <1>1, <1>2, HeldFacts DEF LocalsInUse, Mapping
<1>4. retired \in Seq(Addrs) /\ kept \in Seq(Addrs) /\ Len(kept) = Len(retired) + 1
  BY <1>3, HeldFacts
<1>5. /\ \A i \in 1 .. Len(retired) : kept[i] = retired[i]
      /\ kept[Len(kept)] = current
  BY <1>3, <1>4
<1>6. \A i \in 1 .. Len(kept) : i = Len(kept) \/ i \in 1 .. Len(retired)
  BY <1>4
<1> HIDE DEF kept
<1>7. OwningSlots' = OwningSlots /\ \A s \in Slots : owned[s] => s \in OwningSlots
  <2>1. OwningSlots' = OwningSlots
    BY <1>1, SameOwning
  <2> QED BY <1>1, <2>1 DEF OwningSlots
<1>8. current # next /\ current # addr /\ (next # addr) /\ current \in Single /\ next \in Single
  BY <1>2, <1>3 DEF Apart, Single
<1>9. Single' = Single \ {current} /\ Single' \subseteq Addrs /\ Single = {current, next, addr} \ {Null}
  BY <1>1, <1>3, <1>8, HeldFacts DEF Single, Mapping
<1>10. ASSUME NEW i \in 1 .. Len(kept)
       PROVE  /\ kept[i] \in Addrs /\ mapped[kept[i]] # 0 /\ kept[i] \notin Single'
              /\ \A s \in OwningSlots : address[s] # kept[i]
              /\ \A j \in 1 .. Len(kept) : i # j => kept[i] # kept[j]
  <2>1. kept[i] \in Addrs
    BY <1>4
  <2>2. CASE i = Len(kept)
    <3>1. kept[i] = current
      BY <1>5, <2>2
    <3>2. \A j \in 1 .. Len(kept) : i # j => kept[j] # current
      BY <1>2, <1>5, <1>6, <1>8, <2>2 DEF Apart
    <3> QED BY <1>2, <1>8, <1>9, <2>1, <3>1, <3>2 DEF Apart, HeldIsMapped
  <2>3. CASE i \in 1 .. Len(retired)
    <3>1. kept[i] = retired[i]
      BY <1>5, <2>3
    <3>2. \A j \in 1 .. Len(kept) : i # j => kept[j] # kept[i]
      BY <1>2, <1>5, <1>6, <1>8, <2>3, <3>1 DEF Apart
    <3> QED BY <1>2, <1>9, <2>1, <2>3, <3>1, <3>2 DEF Apart, HeldIsMapped
  <2> QED BY <1>6, <2>2, <2>3
<1>11. ASSUME NEW a \in Addrs, mapped[a] # 0
       PROVE  \/ a \in Single'
              \/ \E i \in 1 .. Len(kept) : kept[i] = a
              \/ \E s \in OwningSlots : address[s] = a
  <2>1. CASE a \in Single
    <3>1. Len(kept) \in 1 .. Len(kept)
      BY <1>4
    <3> QED BY <1>5, <1>9, <2>1, <3>1
  <2>2. CASE \E i \in 1 .. Len(retired) : retired[i] = a
    BY <1>4, <1>5, <2>2
  <2> QED BY <1>2, <1>11, <2>1, <2>2 DEF MappedIsHeld
<1>12. \A a \in Single' : mapped[a] # 0
  BY <1>2, <1>9 DEF HeldIsMapped
<1>13. CASE retired' = kept /\ mapped' = mapped
  <2>1. Labels'
    BY <1>1, <1>2, <1>13 DEF Labels, Target
  <2>2. Apart'
    BY <1>1, <1>2, <1>7, <1>8, <1>9, <1>10, <1>13 DEF Apart
  <2>3. HeldIsMapped'
    BY <1>1, <1>2, <1>7, <1>10, <1>12, <1>13 DEF HeldIsMapped
  <2>4. MappedIsHeld'
    BY <1>1, <1>7, <1>11, <1>13 DEF MappedIsHeld
  <2> QED BY <2>1, <2>2, <2>3, <2>4
<1>14. CASE /\ retired' = Tail(kept)
            /\ mapped' = [a \in Addrs |-> IF a = kept[1] THEN 0 ELSE mapped[a]]
  <2>1. 1 \in 1 .. Len(kept) /\ Len(retired') = Len(kept) - 1
    BY <1>4, <1>14
  <2>2. \A i \in 1 .. Len(retired') : i + 1 \in 1 .. Len(kept) /\ i + 1 # 1 /\ retired'[i] = kept[i + 1]
    BY <1>4, <1>14, <2>1
  <2>3. \A a \in Addrs : a # kept[1] => mapped'[a] = mapped[a]
    BY <1>14
  <2>4. \A i \in 1 .. Len(retired') : retired'[i] \in Addrs /\ retired'[i] # kept[1]
    BY <1>10, <2>1, <2>2
  <2>5. kept[1] \notin Single' /\ \A s \in OwningSlots : address[s] # kept[1]
    BY <1>10, <2>1
  <2>6. Labels'
    <3>1. ASSUME NEW s \in Slots, pageId[s] \in Pages, owned[s]
          PROVE  address[s] # Null /\ mapped'[address[s]] = pageId[s]
      BY <1>2, <1>7, <2>3, <2>5, <3>1, HeldFacts DEF Labels
    <3>2. ASSUME addr # Null PROVE mapped'[addr] = Target
      <4>1. addr \in Single' /\ addr \in Addrs
        BY <1>8, <1>9, <3>2
      <4> QED BY <1>2, <2>3, <2>5, <3>2, <4>1 DEF Labels
    <3>3. ASSUME warmer = "publish"
          PROVE  address[writeIndex] # Null /\ mapped'[address[writeIndex]] = Target
      <4>1. writeIndex \in OwningSlots
        BY <1>1, <1>2, <1>7, <3>3, OwnFacts DEF SlotsOwn
      <4> QED BY <1>2, <2>3, <2>5, <3>3, <4>1, HeldFacts DEF Labels
    <3> QED BY <1>1, <3>1, <3>2, <3>3 DEF Labels, Target
  <2>7. Apart'
    <3>1. \A i \in 1 .. Len(retired') : retired'[i] \notin Single'
      BY <1>10, <2>2
    <3>2. ASSUME NEW i \in 1 .. Len(retired'), NEW j \in 1 .. Len(retired'), i # j
          PROVE  retired'[i] # retired'[j]
      <4>1. i + 1 # j + 1
        BY <2>1, <1>4, <3>2
      <4> QED BY <1>10, <2>2, <4>1
    <3>3. \A s \in OwningSlots : \A i \in 1 .. Len(retired') : address[s] # retired'[i]
      BY <1>10, <2>2
    <3> QED BY <1>1, <1>2, <1>7, <1>8, <1>9, <3>1, <3>2, <3>3 DEF Apart
  <2>8. HeldIsMapped'
    <3>1. \A a \in Single' : mapped'[a] # 0
      BY <1>9, <1>12, <2>3, <2>5
    <3>2. \A i \in 1 .. Len(retired') : mapped'[retired'[i]] # 0
      BY <1>10, <2>2, <2>3, <2>4
    <3>3. \A s \in OwningSlots : address[s] # Null /\ mapped'[address[s]] # 0
      BY <1>2, <2>3, <2>5, HeldFacts DEF HeldIsMapped
    <3> QED BY <1>1, <1>7, <3>1, <3>2, <3>3 DEF HeldIsMapped
  <2>9. MappedIsHeld'
    <3>1. ASSUME NEW a \in Addrs, mapped'[a] # 0, NEW i \in 1 .. Len(kept), kept[i] = a
          PROVE  \E j \in 1 .. Len(retired') : retired'[j] = a
      <4>1. i # 1
        BY <1>14, <3>1
      <4>2. PICK j \in 1 .. Len(retired') : i = j + 1
        <5>1. i - 1 \in 1 .. Len(retired') /\ i = (i - 1) + 1
          BY <1>4, <2>1, <4>1
        <5> QED BY <5>1
      <4> QED BY <2>2, <3>1, <4>2
    <3>2. \A a \in Addrs : mapped'[a] # 0 => mapped[a] # 0
      BY <1>14
    <3> QED BY <1>1, <1>7, <1>11, <3>1, <3>2 DEF MappedIsHeld
  <2> QED BY <2>6, <2>7, <2>8, <2>9
<1> QED BY <1>1, <1>13, <1>14

\* The warmer's destructor unmaps what the ring still owns, the page's the current
\* mapping.
LEMMA OwnRelease ==
  ASSUME Roomy, OwnInv, ReleaseAllPages
  PROVE  Labels' /\ Apart' /\ HeldIsMapped' /\ MappedIsHeld'
<1>1. /\ UNCHANGED <<pageId, next, retired, currentId, warmer, addr>>
      /\ writer = "joinWarmer" /\ warmer = "done" /\ writer' = "clear" /\ current' = Null
      /\ \A a \in Addrs : mapped'[a] = IF a = current \/ \E s \in Slots : owned[s] /\ address[s] = a
                                       THEN 0 ELSE mapped[a]
  BY DEF ReleaseAllPages, Unmap, warmerVars
<1>2. \A s \in Slots : ~owned'[s]
  BY Zenon DEF ReleaseAllPages
<1>3. Labels /\ Apart /\ HeldIsMapped /\ MappedIsHeld /\ LocalsInUse
  BY DEF OwnInv
<1>4. next = Null /\ addr = Null
  BY <1>1, <1>3 DEF LocalsInUse
<1>5. OwningSlots' = {} /\ \A s : s \in OwningSlots <=> s \in Slots /\ owned[s]
  <2>1. OwningSlots' = {}
    BY <1>2 DEF OwningSlots
  <2> QED BY <1>1, <2>1 DEF OwningSlots
<1>6. Single' = {} /\ Single \subseteq {current}
  BY <1>1, <1>4 DEF Single
<1>7. Labels'
  BY <1>1, <1>2, <1>4 DEF Labels
<1>8. Apart'
  BY <1>1, <1>3, <1>4, <1>5, <1>6 DEF Apart
<1>9. \A i \in 1 .. Len(retired) : mapped'[retired[i]] # 0
  <2>1. ASSUME NEW i \in 1 .. Len(retired)
        PROVE  retired[i] # current /\ ~\E s \in Slots : owned[s] /\ address[s] = retired[i]
    <3>1. retired[i] \notin Single /\ retired[i] # Null
      BY <1>3, HeldFacts, OwnFacts DEF Apart
    <3> QED BY <1>3, <1>5, <3>1 DEF Apart, Single
  <2> QED BY <1>1, <2>1, HeldFacts
<1>10. HeldIsMapped'
  BY <1>1, <1>5, <1>6, <1>9 DEF HeldIsMapped
<1>11. MappedIsHeld'
  <2>1. ASSUME NEW a \in Addrs, mapped'[a] # 0 PROVE \E i \in 1 .. Len(retired) : retired[i] = a
    BY <1>1, <1>3, <1>5, <1>6, <2>1 DEF MappedIsHeld
  <2> QED BY <1>1, <2>1 DEF MappedIsHeld
<1> QED BY <1>7, <1>8, <1>10, <1>11

\* The writer's destructor unmaps the retired mappings.
LEMMA OwnClear ==
  ASSUME Roomy, OwnInv, ClearRetired
  PROVE  Labels' /\ Apart' /\ HeldIsMapped' /\ MappedIsHeld'
<1>1. /\ UNCHANGED <<pageId, next, current, currentId, warmer, addr>> /\ owned' = owned
      /\ writer = "clear" /\ writer' = "gone" /\ retired' = <<>>
      /\ \A a \in Addrs : mapped'[a] = IF a \in ToSet(retired) THEN 0 ELSE mapped[a]
  BY DEF ClearRetired, Unmap, warmerVars, ringVars
<1>2. Labels /\ Apart /\ HeldIsMapped /\ MappedIsHeld /\ LocalsInUse /\ SlotsOwn
  BY DEF OwnInv
<1>3. next = Null /\ addr = Null /\ current = Null /\ warmer = "done"
  BY <1>1, <1>2 DEF LocalsInUse
<1>4. \A s \in Slots : ~owned[s]
  BY <1>1, <1>2 DEF SlotsOwn
<1>5. OwningSlots = {} /\ OwningSlots' = {} /\ Single = {} /\ Single' = {}
  <2>1. OwningSlots = {}
    BY <1>4 DEF OwningSlots
  <2>2. OwningSlots' = {}
    BY <1>1, <1>4 DEF OwningSlots
  <2> QED BY <1>1, <1>3, <2>1, <2>2 DEF Single
<1>6. Labels'
  BY <1>1, <1>3, <1>4 DEF Labels
<1>7. Len(retired') = 0
  BY <1>1
<1>8. Apart' /\ HeldIsMapped'
  BY <1>1, <1>3, <1>5, <1>7 DEF Apart, HeldIsMapped
<1>9. MappedIsHeld'
  <2>1. \A i \in 1 .. Len(retired) : retired[i] \in ToSet(retired)
    BY HeldFacts DEF ToSet
  <2>2. \A a \in Addrs : mapped'[a] = 0
    BY <1>1, <1>2, <1>5, <2>1 DEF MappedIsHeld
  <2> QED BY <2>2 DEF MappedIsHeld
<1> QED BY <1>6, <1>8, <1>9

\* The constructor's page is the only mapping, and the writer has it.
LEMMA OwnInit == Init => OwnInv
<1> SUFFICES ASSUME Init PROVE OwnInv
  OBVIOUS
<1>1. RingInv /\ LocalsInUse /\ PlacesInv
  BY RingInit, LocalsInit DEF RingInv
<1>2. PICK a \in Addrs : mapped = [b \in Addrs |-> IF b = a THEN 1 ELSE 0] /\ current = a
  <2>1. Addrs # {}
    BY WarmerAssumption, Zenon
  <2> QED BY <2>1 DEF Init
<1>3. /\ next = Null /\ addr = Null /\ retired = <<>> /\ writer = "update" /\ warmer = "loop"
      /\ \A s \in Slots : pageId[s] = Empty
  BY DEF Init
<1>4. \A s \in Slots : ~owned[s]
  BY Zenon DEF Init
<1>5. OwningSlots = {} /\ Single = {a} /\ a # Null /\ Len(retired) = 0
  <2>1. OwningSlots = {}
    BY <1>4 DEF OwningSlots
  <2>2. Null \notin Addrs
    BY WarmerAssumption, Zenon
  <2> QED BY <1>2, <1>3, <2>1, <2>2 DEF Single
<1>6. SlotsOwn
  <2>1. Empty \notin Pages
    BY <1>1, Ranges DEF PlacesInv
  <2> QED BY <1>3, <1>4, <2>1 DEF SlotsOwn, Holding
<1>7. Labels
  BY <1>3, <1>4 DEF Labels
<1>8. Apart /\ HeldIsMapped
  BY <1>2, <1>3, <1>5 DEF Apart, HeldIsMapped
<1>9. MappedIsHeld
  BY <1>2, <1>5 DEF MappedIsHeld
<1> QED BY <1>1, <1>6, <1>7, <1>8, <1>9 DEF OwnInv

\* Every step of either thread keeps one owner for every mapping.
LEMMA OwnNext ==
  ASSUME Roomy
  PROVE  OwnInv /\ ClaimedReady /\ [Next]_vars => OwnInv'
<1> SUFFICES ASSUME OwnInv, ClaimedReady, [Next]_vars PROVE OwnInv'
  OBVIOUS
<1>1. RingInv'
  BY RingNext DEF OwnInv
<1>2. CASE Next
  <2>1. LocalsInUse'
    BY <1>2, LocalsNext
  <2>2. SlotsOwn'
    BY <1>2, SlotsOwnWriter, SlotsOwnWarmer DEF Next
  <2>3. Labels' /\ Apart' /\ HeldIsMapped' /\ MappedIsHeld'
    <3>1. CASE Commit \/ RotateStep \/ StopWarmer
      BY <3>1, OwnTake, OwnDisown, OwnLoadMap, OwnSwap, OwnQuietWriter
    <3>2. CASE CloseStep
      BY <3>2, OwnRelease, OwnClear DEF CloseStep
    <3>3. CASE WarmerStep
      BY <3>3, OwnWarmerMap, OwnWarmerFill, OwnWarmerClean, OwnQuietWarmer
    <3> QED BY <1>2, <3>1, <3>2, <3>3 DEF Next
  <2> QED BY <1>1, <2>1, <2>2, <2>3 DEF OwnInv
<1>3. CASE UNCHANGED vars
  <2>1. UNCHANGED <<mapped, pageId, address, owned, writeIndex, readIndex, currentPage, writer,
                    current, currentId, probe, next, retired, warmer, seen, step, addr>>
    BY <1>3 DEF vars, ringVars, indexVars, writerVars, warmerVars
  <2>2. LocalsInUse'
    BY <2>1 DEF OwnInv, LocalsInUse
  <2>3. ProbedSlot' = ProbedSlot
    BY <2>1 DEF ProbedSlot
  <2>4. SlotsOwn'
    BY <2>1, <2>3 DEF OwnInv, SlotsOwn, Holding
  <2>5. Labels'
    BY <2>1, <2>3 DEF OwnInv, Labels, Target
  <2>6. OwningSlots' = OwningSlots
    BY <2>1, <2>3, SameOwning
  <2> QED BY <1>1, <2>1, <2>2, <2>4, <2>5, <2>6, SameHolders DEF OwnInv
<1> QED BY <1>2, <1>3

\* What is held at most once is counted once.
LEMMA CountOnce ==
  ASSUME NEW S, \A i, j \in S : i = j
  PROVE  Cardinality(S) = IF S = {} THEN 0 ELSE 1
<1>1. CASE S = {}
  BY <1>1, FS_EmptySet
<1>2. CASE S # {}
  <2>1. PICK k \in S : TRUE
    BY <1>2
  <2>2. S = {k}
    BY <2>1
  <2>3. Cardinality({k}) = 1
    BY FS_Singleton
  <2> QED BY <1>2, <2>2, <2>3
<1> QED BY <1>1, <1>2

\* The invariant says what WarmerOneOwner counts.
LEMMA OwnGivesOneOwner ==
  ASSUME Roomy
  PROVE  OwnInv => WarmerOneOwner
<1> SUFFICES ASSUME OwnInv, NEW a \in Addrs
             PROVE  Times(a, <<current, next, addr>>) + Times(a, retired)
                      + Cardinality({s \in OwningSlots : address[s] = a}) =
                        IF mapped[a] = 0 THEN 0 ELSE 1
  BY DEF WarmerOneOwner
<1> DEFINE M == <<current, next, addr>>
           I == {i \in DOMAIN M : M[i] = a}
           J == {i \in DOMAIN retired : retired[i] = a}
           K == {s \in OwningSlots : address[s] = a}
<1>1. Apart /\ HeldIsMapped /\ MappedIsHeld /\ a # Null /\ retired \in Seq(Addrs)
  BY OwnFacts, HeldFacts DEF OwnInv
<1>2. \A i : i \in I <=> (i = 1 /\ current = a) \/ (i = 2 /\ next = a) \/ (i = 3 /\ addr = a)
  <2>1. DOMAIN M = 1 .. 3 /\ M[1] = current /\ M[2] = next /\ M[3] = addr
    OBVIOUS
  <2>2. \A i : i \in 1 .. 3 <=> i = 1 \/ i = 2 \/ i = 3
    OBVIOUS
  <2> HIDE DEF M
  <2> QED BY <2>1, <2>2
<1>3. \A i : i \in J <=> i \in 1 .. Len(retired) /\ retired[i] = a
  BY <1>1
<1>4. \A s : s \in K <=> s \in OwningSlots /\ address[s] = a
  OBVIOUS
<1> HIDE DEF I, J, K, M
<1>5. I # {} <=> a \in Single
  BY <1>1, <1>2 DEF Single
<1>6. Cardinality(I) = IF I = {} THEN 0 ELSE 1
  <2>1. \A i, j \in I : i = j
    BY <1>1, <1>2 DEF Apart
  <2> QED BY <2>1, CountOnce
<1>7. Cardinality(J) = IF J = {} THEN 0 ELSE 1
  <2>1. \A i, j \in J : i = j
    BY <1>1, <1>3 DEF Apart
  <2> QED BY <2>1, CountOnce
<1>8. Cardinality(K) = IF K = {} THEN 0 ELSE 1
  <2>1. \A i, j \in K : i = j
    BY <1>1, <1>4 DEF Apart
  <2> QED BY <2>1, CountOnce
<1>9. ~(a \in Single /\ J # {}) /\ ~(a \in Single /\ K # {}) /\ ~(J # {} /\ K # {})
  BY <1>1, <1>3, <1>4 DEF Apart
<1>10. mapped[a] # 0 <=> a \in Single \/ J # {} \/ K # {}
  <2>1. a \in Single \/ J # {} \/ K # {} => mapped[a] # 0
    BY <1>1, <1>3, <1>4 DEF HeldIsMapped
  <2>2. mapped[a] # 0 => a \in Single \/ J # {} \/ K # {}
    BY <1>1, <1>3, <1>4 DEF MappedIsHeld
  <2> QED BY <2>1, <2>2
<1>11. Cardinality(I) + Cardinality(J) + Cardinality(K) = IF mapped[a] = 0 THEN 0 ELSE 1
  BY <1>5, <1>6, <1>7, <1>8, <1>9, <1>10
<1> QED BY <1>11 DEF Times, I, J, K, M

\* When no warm-up fails every distance the constructor allows leaves room.
LEMMA HalfIsEnough == WarmFailures = {} => Roomy
BY Sizes DEF Roomy, Turns

-----------------------------------------------------------------------------
(* A claim yields a page with its header. *)

\* A writer starts among files that are absent or whole.
LEMMA ReadyInit == Init => ReadyInv
<1> SUFFICES ASSUME Init PROVE ReadyInv
  OBVIOUS
<1>1. KeptInv
  BY KeptInit
<1>2. \A p \in Pages : file[p] \in {"absent", "ready"}
  BY DEF Init
<1>3. writer = "update" /\ warmer = "loop" /\ \A s \in Slots : pageId[s] = Empty
  BY DEF Init
<1>4. Empty \notin Pages
  BY <1>1, Ranges DEF KeptInv, PlacesInv
<1> QED BY <1>1, <1>2, <1>3, <1>4 DEF ReadyInv, LivePagesWhole, WarmupOfLive, RingPagesReady

\* The writer's own files are behind the pages it may still ask for.
LEMMA WriterFiles ==
  ASSUME PlacesInv, Commit \/ RotateStep \/ StopWarmer \/ CloseStep
  PROVE  /\ \A p \in Pages : Live(p)' => file'[p] = file[p]
         /\ writer' \in {"take", "disown", "validate"} => file' = file
<1>1. currentId \in Nat /\ file \in [Pages -> {"absent", "sized", "ready"}]
  BY Ranges DEF PlacesInv, WarmerTypeOK
<1>2. CASE LoadMap \/ LoadThrows \/ LoadZero \/ LoadHeader
  <2>1. \/ file' = [file EXCEPT ![currentId] = IF @ = "absent" THEN "sized" ELSE @]
        \/ file' = [file EXCEPT ![currentId] = IF Prefault /\ ~sawFile THEN "sized" ELSE @]
        \/ file' = [file EXCEPT ![currentId] = "ready"]
        \/ file' = file
    BY <1>2 DEF LoadMap, LoadThrows, LoadZero, LoadHeader, Create
  <2>2. \A p \in Pages : p # currentId => file'[p] = file[p]
    BY <1>1, <2>1
  <2>3. writer' \in {"zero", "header", "update", "idle"} /\ currentId' = currentId
    BY <1>2 DEF LoadMap, LoadThrows, LoadZero, LoadHeader
  <2> QED BY <1>1, <2>2, <2>3 DEF Live
<1>3. CASE ~LoadMap /\ ~LoadThrows /\ ~LoadZero /\ ~LoadHeader
  <2>1. file' = file
    BY <1>3 DEF Commit, RotateStep, StopWarmer, CloseStep, Rotate, Look, Claim, Take, Disown,
         Validate, LoadSample, Update, Swap, ReleaseAllPages, ClearRetired, fileVars
  <2> QED BY <2>1
<1> QED BY <1>2, <1>3

\* The writer's steps leave every page that may be claimed with its header.
LEMMA ReadyWriter ==
  ASSUME ReadyInv, Commit \/ RotateStep \/ StopWarmer \/ CloseStep
  PROVE  LivePagesWhole' /\ WarmupOfLive' /\ RingPagesReady'
<1>1. PlacesInv /\ LivePagesWhole /\ WarmupOfLive /\ RingPagesReady /\ Next
  BY DEF ReadyInv, KeptInv, Next
<1>2. UNCHANGED <<warmer, seen, step, existed, exists>> /\ Target' = Target
  BY <1>1, WriterLeaves DEF warmerVars, Target
<1>3. /\ \A q \in Int : Live(q)' => Live(q)
      /\ \A p \in Pages : p \in Int
  BY <1>1, LiveShrinks, Ranges DEF PlacesInv
<1>4. /\ \A p \in Pages : Live(p)' => file'[p] = file[p]
      /\ writer' \in {"take", "disown", "validate"} => file' = file
  BY <1>1, WriterFiles
<1>5. LivePagesWhole'
  BY <1>1, <1>2, <1>3, <1>4 DEF LivePagesWhole
<1>6. WarmupOfLive'
  <2>1. PICK t : t = Target
    OBVIOUS
  <2>2. CASE Busy
    <3>1. t \in Pages
      BY <1>1, <2>1, <2>2, TargetRange DEF Busy
    <3>2. Live(t)' => Live(t) /\ file'[t] = file[t]
      BY <1>3, <1>4, <3>1
    <3>4. Live(Target)' <=> Live(t)'
      BY <1>2, <2>1 DEF Live
    <3> QED BY <1>1, <1>2, <2>1, <3>2, <3>4 DEF WarmupOfLive
  <2>3. CASE ~Busy
    BY <1>2, <2>3 DEF WarmupOfLive, Busy
  <2> QED BY <2>2, <2>3
<1>7. RingPagesReady'
  <2>1. /\ \/ pageId' = pageId
           \/ /\ writer = "claim" /\ pageId[ProbedSlot] = currentId /\ currentId' = currentId
              /\ pageId' = [pageId EXCEPT ![ProbedSlot] = Empty]
    BY <1>1, WriterLeaves
  <2>2. /\ ProbedSlot \in Slots /\ currentId \in Pages /\ currentId # Empty
        /\ pageId \in [Slots -> Pages \cup {Empty, Warming}] /\ Empty \notin Pages
    BY <1>1, Ranges DEF PlacesInv, WarmerTypeOK
  <2>3. ASSUME NEW s \in Slots, pageId'[s] \in Pages, NEW p, p = pageId'[s], Live(p)'
        PROVE  file'[p] = "ready"
    <3>1. pageId[s] = p
      BY <2>1, <2>2, <2>3
    <3>2. Live(p) /\ file'[p] = file[p]
      BY <1>3, <1>4, <2>3
    <3> QED BY <1>1, <2>3, <3>1, <3>2 DEF RingPagesReady
  <2>4. ASSUME NEW s \in Slots, pageId'[s] \in Pages, Live(pageId[s])' PROVE file'[pageId'[s]] = "ready"
    <3>1. PICK p : p = pageId'[s]
      OBVIOUS
    <3>2. Live(p)'
      BY <2>4, <3>1 DEF Live
    <3> QED BY <2>3, <2>4, <3>1, <3>2
  <2>5. CASE Claim
    <3>1. writer' = "take" => file'[currentId'] = "ready"
      <4>1. ASSUME writer' = "take"
            PROVE  pageId[ProbedSlot] = currentId /\ writer = "claim" /\ currentId' = currentId
        BY <2>5, <4>1 DEF Claim
      <4>2. ASSUME writer' = "take" PROVE file[currentId] = "ready"
        BY <1>1, <2>2, <4>1, <4>2 DEF RingPagesReady, Live
      <4> QED BY <1>4, <4>1, <4>2
    <3>2. writer' \notin {"disown", "validate"}
      BY <2>5 DEF Claim
    <3> QED BY <2>4, <3>1, <3>2 DEF RingPagesReady
  <2>6. CASE Take
    <3>1. /\ writer = "take" /\ writer' = "disown" /\ currentId' = currentId
          /\ viaRing' = viaRing \cup {currentId}
      BY <2>6 DEF Take
    <3> QED BY <1>1, <1>4, <2>4, <3>1 DEF RingPagesReady
  <2>7. CASE Disown
    <3>1. /\ writer = "disown" /\ writer' = "validate" /\ currentId' = currentId
          /\ viaRing' = viaRing
      BY <2>7 DEF Disown
    <3> QED BY <1>1, <1>4, <2>4, <3>1 DEF RingPagesReady
  <2>8. CASE ~Claim /\ ~Take /\ ~Disown
    <3>1. writer' \notin {"take", "disown", "validate"}
      BY <2>8 DEF Commit, RotateStep, StopWarmer, CloseStep, Rotate, Look,
         Validate, LoadSample, LoadMap, LoadThrows, LoadZero, LoadHeader, Update, Swap, ReleaseAllPages,
         ClearRetired, writerVars
    <3> QED BY <2>4, <3>1 DEF RingPagesReady
  <2> QED BY <2>5, <2>6, <2>7, <2>8
<1> QED BY <1>5, <1>6, <1>7

\* The warmer publishes a page only with its header, unless it failed late.
LEMMA ReadyWarmer ==
  ASSUME "late" \notin WarmFailures, ReadyInv, WarmerStep
  PROVE  LivePagesWhole' /\ WarmupOfLive' /\ RingPagesReady'
<1>1. /\ PlacesInv /\ LivePagesWhole /\ WarmupOfLive /\ RingPagesReady /\ ClaimedExist
      /\ file \in [Pages -> {"absent", "sized", "ready"}]
  BY DEF ReadyInv, KeptInv, PlacesInv, WarmerTypeOK
<1>2. UNCHANGED <<writer, currentId, viaRing>>
  BY WarmerLeaves DEF writerVars
<1>3. \A p : Live(p)' <=> Live(p)
  BY <1>2 DEF Live
<1>4. /\ WriteSlot = writeIndex /\ writeIndex \in Slots
      /\ currentId \in Pages /\ (\A p \in Pages : p # Empty /\ p # Warming)
      /\ pageId \in [Slots -> Pages \cup {Empty, Warming}]
  BY <1>1, Ranges DEF PlacesInv, WarmerTypeOK
<1>5. \/ WarmerMap /\ file' = [file EXCEPT ![Target] = IF @ = "absent" THEN "sized" ELSE @]
      \/ WarmerZero /\ ~exists /\ file' = [file EXCEPT ![Target] = "sized"]
      \/ WarmerHeader /\ ~existed /\ file' = [file EXCEPT ![Target] = "ready"]
      \/ ~WarmerMap /\ (WarmerZero => exists) /\ (WarmerHeader => existed) /\ file' = file
  <2>1. CASE WarmerMap
    BY <2>1 DEF WarmerMap, Create
  <2>2. CASE WarmerZero
    BY <2>2 DEF WarmerZero, WarmerMap, WarmerHeader
  <2>3. CASE WarmerHeader
    BY <2>3 DEF WarmerZero, WarmerMap, WarmerHeader
  <2>4. CASE WarmerMapThrows
    BY <2>4 DEF WarmerMapThrows, WarmerMap, WarmerZero, WarmerHeader
  <2>5. CASE ~WarmerMap /\ ~WarmerZero /\ ~WarmerHeader /\ ~WarmerMapThrows
    BY <2>5 DEF WarmerStep, WarmerLoop, WarmerNext, WarmerClaim, WarmerSample, WarmerStat,
         WarmerFill, WarmerPublish, WarmerClean, fileVars
  <2> QED BY <2>1, <2>2, <2>3, <2>4, <2>5
<1>6. ASSUME file' # file PROVE Busy /\ Target \in Pages /\ ~InRing(Target)
  <2>1. Busy
    BY <1>5, <1>6 DEF WarmerMap, WarmerZero, WarmerHeader, Busy
  <2> QED BY <1>1, <2>1, TargetRange DEF Busy
<1>7. \A p \in Pages : p # Target => file'[p] = file[p]
  BY <1>1, <1>5
<1>8. RingPagesReady'
  <2>1. ASSUME NEW s \in Slots, pageId'[s] \in Pages, NEW p, p = pageId'[s], Live(p)
        PROVE  file'[p] = "ready"
    <3>1. CASE pageId[s] = p
      <4>1. file[p] = "ready" /\ InRing(p)
        BY <1>1, <2>1, <3>1 DEF RingPagesReady, InRing
      <4> QED BY <1>6, <1>7, <2>1, <4>1
    <3>2. CASE pageId[s] # p
      <4>1. WarmerPublish /\ p = Target
        BY <1>1, <1>4, <2>1, <3>2, RingWarmerNext
      <4>2. file' = file /\ warmer = "publish"
        BY <4>1 DEF WarmerPublish, fileVars
      <4> QED BY <1>1, <2>1, <4>1, <4>2 DEF WarmupOfLive
    <3> QED BY <3>1, <3>2
  <2>2. ASSUME NEW s \in Slots, pageId'[s] \in Pages, Live(pageId[s])' PROVE file'[pageId'[s]] = "ready"
    <3>1. PICK p : p = pageId'[s]
      OBVIOUS
    <3>2. Live(p)
      BY <1>2, <2>2, <3>1 DEF Live
    <3> QED BY <2>1, <2>2, <3>1, <3>2
  <2>3. ASSUME writer \in {"take", "disown", "validate"} PROVE file'[currentId] = "ready"
    <3>1. file[currentId] = "ready" /\ SeenToExist(currentId)
      BY <1>1, <2>3 DEF RingPagesReady, ClaimedExist
    <3>2. CASE currentId # Target
      BY <1>4, <1>7, <3>1, <3>2
    <3>3. CASE currentId = Target
      BY <1>1, <1>4, <1>5, <3>1, <3>3 DEF SeenToExist, WarmerZero, WarmerHeader
    <3> QED BY <3>2, <3>3
  <2> QED BY <1>1, <1>2, <2>2, <2>3 DEF RingPagesReady
<1>9. ASSUME WarmerMap \/ WarmerZero \/ WarmerHeader
      PROVE  LivePagesWhole' /\ WarmupOfLive'
  <2>1. UNCHANGED <<seen, step, existed, exists>> /\ Target' = Target
    BY <1>9 DEF WarmerMap, WarmerZero, WarmerHeader, Target
  <2>2. PICK t \in Pages : t = Target
    BY <1>1, <1>9, TargetRange DEF Busy, WarmerMap, WarmerZero, WarmerHeader
  <2>3. Live(Target)' <=> Live(t)
    BY <1>2, <2>1, <2>2 DEF Live
  <2>4. CASE WarmerMap
    <3>1. /\ warmer = "map" /\ warmer' = "zero"
          /\ file' = [file EXCEPT ![t] = IF @ = "absent" THEN "sized" ELSE @]
      BY <1>5, <2>2, <2>4 DEF WarmerMap, WarmerZero, WarmerHeader
    <3>2. Live(t) => /\ file[t] = IF existed THEN "ready" ELSE "absent"
                     /\ file'[t] = IF existed THEN "ready" ELSE "sized"
                     /\ exists <=> existed
      BY <1>1, <2>2, <3>1 DEF WarmupOfLive
    <3>3. LivePagesWhole'
      BY <1>1, <1>3, <1>7, <2>1, <2>2, <3>1, <3>2 DEF LivePagesWhole
    <3>4. WarmupOfLive'
      BY <2>1, <2>2, <2>3, <3>1, <3>2 DEF WarmupOfLive
    <3> QED BY <3>3, <3>4
  <2>5. CASE WarmerZero
    <3>1. /\ warmer = "zero" /\ warmer' = "header"
          /\ \/ exists /\ file' = file
             \/ ~exists /\ file' = [file EXCEPT ![t] = "sized"]
      BY <1>5, <2>2, <2>5 DEF WarmerMap, WarmerZero, WarmerHeader
    <3>2. Live(t) => (exists <=> existed) /\ (existed => file[t] = "ready")
      BY <1>1, <2>2, <3>1 DEF WarmupOfLive
    <3>3. LivePagesWhole'
      BY <1>1, <1>3, <1>7, <2>1, <2>2, <3>1, <3>2 DEF LivePagesWhole
    <3>4. WarmupOfLive'
      BY <2>1, <2>2, <2>3, <3>1, <3>2 DEF WarmupOfLive
    <3> QED BY <3>3, <3>4
  <2>6. CASE WarmerHeader
    <3>1. /\ warmer = "header" /\ warmer' = "fill"
          /\ \/ existed /\ file' = file
             \/ ~existed /\ file' = [file EXCEPT ![t] = "ready"]
      BY <1>5, <2>2, <2>6 DEF WarmerMap, WarmerZero, WarmerHeader
    <3>2. Live(t) => file'[t] = "ready"
      BY <1>1, <2>2, <3>1 DEF WarmupOfLive
    <3>3. LivePagesWhole'
      BY <1>1, <1>3, <1>7, <2>1, <2>2, <3>1, <3>2 DEF LivePagesWhole
    <3>4. WarmupOfLive'
      BY <2>1, <2>2, <2>3, <3>1, <3>2 DEF WarmupOfLive
    <3> QED BY <3>3, <3>4
  <2> QED BY <1>9, <2>4, <2>5, <2>6
<1>10. ASSUME ~WarmerMap, ~WarmerZero, ~WarmerHeader
       PROVE  LivePagesWhole' /\ WarmupOfLive'
  <2>1. file' = file /\ warmer \notin {"zero", "header"} /\ warmer' \notin {"zero", "header"}
    BY <1>5, <1>10 DEF WarmerStep, WarmerLoop, WarmerNext, WarmerClaim, WarmerSample, WarmerStat,
         WarmerMapThrows, WarmerFill, WarmerPublish, WarmerClean
  <2>2. LivePagesWhole'
    BY <1>1, <1>3, <2>1 DEF LivePagesWhole
  <2>3. CASE WarmerSample \/ WarmerStat \/ WarmerFill
    <3>1. seen' = seen /\ step' = step /\ Target' = Target /\ Busy
      BY <2>3 DEF WarmerSample, WarmerStat, WarmerFill, Target, Busy
    <3>2. PICK t \in Pages : t = Target
      BY <1>1, <3>1, TargetRange DEF Busy
    <3>3. Live(Target)' <=> Live(t)
      BY <1>2, <3>1, <3>2 DEF Live
    <3>4. Live(t) => file[t] \in {"absent", "ready"}
      BY <1>1, <2>1, <3>2 DEF LivePagesWhole
    <3>5. CASE WarmerSample
      <4>1. warmer' = "stat" /\ existed' = (file[t] # "absent")
        BY <3>2, <3>5 DEF WarmerSample
      <4>2. Live(t) => file'[Target'] = IF existed' THEN "ready" ELSE "absent"
        BY <2>1, <3>1, <3>2, <3>4, <4>1
      <4> QED BY <2>2, <3>3, <4>1, <4>2 DEF WarmupOfLive
    <3>6. CASE WarmerStat
      <4>1. warmer = "stat" /\ warmer' = "map" /\ existed' = existed /\ exists' = (file[t] # "absent")
        BY <3>2, <3>6 DEF WarmerStat
      <4>2. Live(t) => file[t] = IF existed THEN "ready" ELSE "absent"
        BY <1>1, <3>2, <4>1 DEF WarmupOfLive
      <4>3. Live(t) => /\ file'[Target'] = IF existed' THEN "ready" ELSE "absent"
                       /\ exists' <=> existed'
        BY <2>1, <3>1, <3>2, <4>1, <4>2
      <4> QED BY <2>2, <3>3, <4>1, <4>3 DEF WarmupOfLive
    <3>7. CASE WarmerFill
      <4>1. warmer = "fill" /\ warmer' = "publish"
        BY <3>7 DEF WarmerFill
      <4>2. Live(t) => file'[Target'] = "ready"
        BY <1>1, <2>1, <3>1, <3>2, <4>1 DEF WarmupOfLive
      <4> QED BY <2>2, <3>3, <4>1, <4>2 DEF WarmupOfLive
    <3> QED BY <2>3, <3>5, <3>6, <3>7
  <2>4. CASE ~WarmerSample /\ ~WarmerStat /\ ~WarmerFill
    <3>1. warmer' \notin {"stat", "map", "zero", "header", "fill", "publish"}
      BY <1>10, <2>4 DEF WarmerStep, WarmerLoop, WarmerNext, WarmerClaim, WarmerMapThrows,
           WarmerPublish, WarmerClean
    <3> QED BY <2>2, <3>1 DEF WarmupOfLive
  <2> QED BY <2>2, <2>3, <2>4
<1> QED BY <1>8, <1>9, <1>10

\* Every page that may be claimed has its header, at every step.
LEMMA ReadyNext ==
  ASSUME "late" \notin WarmFailures
  PROVE  ReadyInv /\ [Next]_vars => ReadyInv'
<1> SUFFICES ASSUME ReadyInv, [Next]_vars PROVE ReadyInv'
  OBVIOUS
<1>1. KeptInv'
  BY KeptNext DEF ReadyInv
<1>2. CASE Next
  BY <1>1, <1>2, ReadyWriter, ReadyWarmer DEF ReadyInv, Next
<1>3. CASE UNCHANGED vars
  <2>1. UNCHANGED <<file, pageId, writer, currentId, viaRing, warmer, seen, step, existed, exists>>
    BY <1>3 DEF vars, fileVars, ringVars, writerVars, warmerVars
  <2>2. LivePagesWhole'
    BY <2>1 DEF ReadyInv, LivePagesWhole, Live, Target
  <2>3. WarmupOfLive'
    BY <2>1 DEF ReadyInv, WarmupOfLive, Live, Target
  <2>4. RingPagesReady'
    BY <2>1 DEF ReadyInv, RingPagesReady, Live
  <2> QED BY <1>1, <2>2, <2>3, <2>4 DEF ReadyInv
<1> QED BY <1>2, <1>3

\* Both together: rotatePage's loadFromAddress does not throw.
LEMMA HandOverNext ==
  ASSUME Roomy, "late" \notin WarmFailures
  PROVE  OwnInv /\ ReadyInv /\ [Next]_vars => OwnInv' /\ ReadyInv'
<1>1. ReadyInv => ClaimedReady
  BY DEF ReadyInv, RingPagesReady, ClaimedReady
<1> QED BY <1>1, OwnNext, ReadyNext

\* In a ring that is large enough every mapping has exactly one owner at every step of
\* warmPageIntoSlot, getWarmedPage, rotatePage and ~JournalWriter: the plain loads and
\* stores of address and is_owned never meet, none leaks and none is unmapped twice,
\* although opens fail in the warmer and any load fails in rotatePage.  (A warm-up that
\* fails after it has created the file leaves a page without a header, whose mapping
\* rotatePage leaks.)  The half of the ring that the constructor keeps free is enough
\* when no warm-up fails.
THEOREM RingHandOver ==
  ASSUME Roomy, "late" \notin WarmFailures
  PROVE  Spec => []WarmerOneOwner
<1>1. OwnInv => WarmerOneOwner
  BY OwnGivesOneOwner
<1> QED BY <1>1, HandOverNext, OwnInit, ReadyInit, PTL DEF Spec

\* Under the same conditions a claim yields the page that was asked for, with its
\* header, whatever the warmer does between getWarmedPage's compare-exchange and its
\* load of the address: rotatePage's loadFromAddress does not throw.
THEOREM ClaimsRightPage ==
  ASSUME Roomy, "late" \notin WarmFailures
  PROVE  Spec => []ClaimedPage
<1>1. OwnInv /\ ReadyInv => ClaimedPage
  BY DEF OwnInv, Labels, ReadyInv, RingPagesReady, ClaimedPage
<1> QED BY <1>1, HandOverNext, OwnInit, ReadyInit, PTL DEF Spec
=============================================================================
