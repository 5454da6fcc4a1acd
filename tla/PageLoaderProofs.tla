-------------------------- MODULE PageLoaderProofs --------------------------
(***************************************************************************)
(* Proofs about PageLoader, for any number of readers and warmers.         *)
(***************************************************************************)
EXTENDS PageLoader, TLAPS

\* Readers that prefault come after the page is ready, and the header's stores
\* keep their order.
Orderly == ~EarlyMasters /\ InOrder

\* At first there is no file and nobody has begun.
LEMMA LoaderInit == Init => LoaderInv
<1> SUFFICES ASSUME Init PROVE LoaderInv
  OBVIOUS
<1>1. Writer \in Procs
  BY DEF Procs
<1>2. LoaderTypeOK
  BY DEF Init, LoaderTypeOK, Locations, HeaderParts
<1>3. \A p \in Procs : pc[p] = "out"
  BY DEF Init
<1>4. PageKept
  BY DEF Init, PageKept
<1> QED
  BY <1>1, <1>2, <1>3, <1>4
  DEF Init, LoaderInv, HeaderWhole, Announced, WriterLoading, OthersLoading,
      Passed, MastersGetThrough

\* Every step keeps the types.
LEMMA LoaderTypes == LoaderTypeOK /\ [Next]_vars => LoaderTypeOK'
<1> SUFFICES ASSUME LoaderTypeOK, [Next]_vars PROVE LoaderTypeOK'
  OBVIOUS
<1> USE LoaderAssumption
        DEF LoaderTypeOK, Locations, HeaderParts, Goto, page, locals
<1>1. CASE Commit
  BY <1>1 DEF Commit
<1>2. ASSUME NEW p \in Procs, Stat(p) PROVE LoaderTypeOK'
  <2>1. (file # "absent") \in BOOLEAN /\ (file = "sized") \in BOOLEAN
    OBVIOUS
  <2>2. existed' \in [Procs -> BOOLEAN] /\ sized' \in [Procs -> BOOLEAN]
    BY <1>2, <2>1, Zenon DEF Stat
  <2> QED
    BY <1>2, <2>2 DEF Stat
<1>3. ASSUME NEW p \in Procs, Open(p) \/ Allocate(p) \/ CallFails(p) \/ Map(p)
                              \/ Check(p)
      PROVE LoaderTypeOK'
  BY <1>3 DEF Open, Allocate, CallFails, Map, Check
<1>4. ASSUME NEW p \in Procs, ZeroHead(p) PROVE LoaderTypeOK'
  BY <1>4 DEF ZeroHead
<1>5. ASSUME NEW p \in Procs, ZeroRest(p) PROVE LoaderTypeOK'
  BY <1>5 DEF ZeroRest
<1>6. ASSUME NEW p \in Procs, BlankHeader(p) PROVE LoaderTypeOK'
  <2>1. todo' \in [Procs -> SUBSET HeaderParts]
    BY <1>6, Zenon DEF BlankHeader
  <2> QED
    BY <1>6, <2>1 DEF BlankHeader
<1>7. ASSUME NEW p \in Procs, StoreHeader(p) PROVE LoaderTypeOK'
  <2>1. PICK part \in todo[p] :
          /\ fields' = IF part = "fields" THEN TRUE ELSE fields
          /\ lastPos' = IF part = "last" THEN 1 ELSE lastPos
          /\ todo' = [todo EXCEPT ![p] = @ \ {part}]
          /\ pc' = [pc EXCEPT ![p] = IF todo[p] = {part} THEN "validate" ELSE "store"]
    BY <1>7 DEF StoreHeader
  <2>2. todo[p] \ {part} \in SUBSET HeaderParts
    OBVIOUS
  <2>3. todo' \in [Procs -> SUBSET HeaderParts]
    BY <2>1, <2>2, Zenon
  <2> QED
    BY <1>7, <2>1, <2>3 DEF StoreHeader
<1>8. ASSUME NEW p \in Procs, Validate(p) \/ TakeFirstFrame(p) \/ OpenExisting(p)
                              \/ AwaitHeader(p) \/ LoadFromAddress(p) \/ Restart(p)
      PROVE LoaderTypeOK'
  BY <1>8 DEF Validate, TakeFirstFrame, OpenExisting, AwaitHeader, LoadFromAddress,
              Restart
<1>9. CASE UNCHANGED vars
  BY <1>9 DEF vars
<1> QED
  BY <1>1, <1>2, <1>3, <1>8, <1>9, <1>6, <1>7, <1>4, <1>5 DEF Next, Step

\* Every step keeps the invariant.
LEMMA LoaderNext == ASSUME Orderly PROVE LoaderInv /\ [Next]_vars => LoaderInv'
<1> SUFFICES ASSUME LoaderInv, [Next]_vars PROVE LoaderInv'
  OBVIOUS
<1> DEFINE Rest == /\ HeaderWhole /\ Announced /\ WriterLoading
                   /\ OthersLoading /\ Passed /\ PageKept /\ MastersGetThrough
<1>0. LoaderTypeOK' /\ LoaderTypeOK /\ Writer \in Procs
  BY LoaderTypes DEF LoaderInv, Procs
<1> USE <1>0, LoaderAssumption
        DEF Orderly, LoaderInv, HeaderWhole, Announced, WriterLoading, OthersLoading,
            Passed, PageKept, MastersGetThrough, master, prefault, Goto, page,
            locals, LoaderTypeOK, HeaderParts
<1>1. CASE Commit
  BY <1>1 DEF Commit
<1>2. ASSUME NEW p \in Procs, Stat(p) PROVE Rest'
  BY <1>2 DEF Stat, Procs
<1>3. ASSUME NEW p \in Procs, Open(p) PROVE Rest'
  BY <1>3 DEF Open, Procs
<1>4. ASSUME NEW p \in Procs, Allocate(p) PROVE Rest'
  BY <1>4 DEF Allocate
<1>5. ASSUME NEW p \in Procs, CallFails(p) PROVE Rest'
  BY <1>5 DEF CallFails
<1>6. ASSUME NEW p \in Procs, Map(p) PROVE Rest'
  BY <1>6 DEF Map
<1>7. ASSUME NEW p \in Procs, ZeroHead(p) PROVE Rest'
  BY <1>7 DEF ZeroHead
<1>8. ASSUME NEW p \in Procs, ZeroRest(p) PROVE Rest'
  BY <1>8 DEF ZeroRest
<1>9. ASSUME NEW p \in Procs, Check(p) PROVE Rest'
  BY <1>9 DEF Check
<1>10. ASSUME NEW p \in Procs, BlankHeader(p) PROVE Rest'
  BY <1>10 DEF BlankHeader
<1>11. ASSUME NEW p \in Procs, StoreHeader(p) PROVE Rest'
  <2>1. p = Writer /\ lastPos = 0 /\ ~ready
    BY <1>11 DEF StoreHeader
  <2>2. PICK part \in todo[p] :
          /\ part = "last" => todo[p] = {"last"}
          /\ fields' = IF part = "fields" THEN TRUE ELSE fields
          /\ lastPos' = IF part = "last" THEN 1 ELSE lastPos
          /\ todo' = [todo EXCEPT ![p] = @ \ {part}]
          /\ pc' = [pc EXCEPT ![p] = IF todo[p] = {part} THEN "validate" ELSE "store"]
    BY <1>11 DEF StoreHeader
  <2>3. UNCHANGED <<file, present, committed, ready, existed, sized>>
    BY <1>11 DEF StoreHeader
  <2>4. CASE part = "last"
    BY <1>11, <2>1, <2>2, <2>3, <2>4 DEF StoreHeader
  <2>5. CASE part = "fields"
    <3>1. todo[p] # {part} /\ pc'[p] = "store" /\ "last" \in todo'[p]
      BY <1>11, <2>1, <2>2, <2>5 DEF StoreHeader
    <3> QED
      BY <1>11, <2>1, <2>2, <2>3, <2>5, <3>1 DEF StoreHeader
  <2> QED
    BY <2>4, <2>5
<1>12. ASSUME NEW p \in Procs, Validate(p) PROVE Rest'
  BY <1>12 DEF Validate
<1>13. ASSUME NEW p \in Procs, TakeFirstFrame(p) PROVE Rest'
  <2>1. fields /\ lastPos # 0 /\ pc' = [pc EXCEPT ![p] = "using"]
    BY <1>13 DEF TakeFirstFrame
  <2>2. CASE p = Writer
    <3>1. ~ready /\ ready' /\ lastPos = 1 /\ committed = 0
      BY <1>13, <2>1, <2>2 DEF TakeFirstFrame
    <3> QED BY <1>13, <2>1, <2>2, <3>1 DEF TakeFirstFrame
  <2>3. CASE p # Writer
    BY <1>13, <2>1, <2>3 DEF TakeFirstFrame
  <2> QED BY <2>2, <2>3
<1>14. ASSUME NEW p \in Procs,
              OpenExisting(p) \/ AwaitHeader(p) \/ LoadFromAddress(p)
       PROVE Rest'
  BY <1>14 DEF OpenExisting, AwaitHeader, LoadFromAddress
<1>15. ASSUME NEW p \in Procs, Restart(p) PROVE Rest'
  BY <1>15 DEF Restart
<1>16. CASE UNCHANGED vars
  BY <1>16 DEF vars
<1> QED
  BY <1>1, <1>2, <1>3, <1>4, <1>5, <1>6, <1>7, <1>8, <1>9, <1>10, <1>11, <1>12,
     <1>13, <1>14, <1>15, <1>16 DEF Next, Step

\* Whatever the processes do and wherever they die, the page is announced once,
\* a header is whole once its last_frame_position is set, only the writer's own
\* load zeroes or initialises, and it does so only before that.
THEOREM LoaderInvariant == ASSUME Orderly PROVE Spec => []LoaderInv
  BY LoaderInit, LoaderNext, PTL DEF Spec

\* No loader, in whatever order the processes create, size, zero and initialise
\* the file and die in between, destroys what the writer put into the page
\* (loadMmapBuffer's zero-fill, Page::load's header initialisation).
THEOREM LoadersKeepPage == ASSUME Orderly PROVE Spec => []PageKept
<1>1. LoaderInv => PageKept
  BY DEF LoaderInv
<1> QED
  BY <1>1, LoaderInvariant, PTL

\* A file left half created stops no master, and nobody takes the header for the
\* first frame (Page::load's validation after its own initialisation).
THEOREM HalfCreatedPages == ASSUME Orderly PROVE Spec => []MastersGetThrough
<1>1. LoaderInv => MastersGetThrough
  BY DEF LoaderInv
<1> QED
  BY <1>1, LoaderInvariant, PTL
=============================================================================
