------------------------ MODULE ReaderThreadsProofs ------------------------
(***************************************************************************)
(* Proofs about ReaderThreads, for any number of pages, addresses and      *)
(* retained pages: every mapping has one owner, the reader is on the page  *)
(* it asked for, and the warmer hands over only what was asked for last.   *)
(***************************************************************************)
EXTENDS ReaderThreads, SequenceTheorems, FiniteSetTheorems, TLAPS

-----------------------------------------------------------------------------
(* The inductive invariant. *)

Mapping == Addrs \cup {Null}

\* Every variable has its type.
ThreadsTypeOK ==
  /\ sized \in Nat /\ ready \in Nat
  /\ mapped \in [Addrs -> Nat]
  /\ main \in {"idle", "load", "signal", "notifyRetire", "barrier",
               "notifyWarmer", "join", "gone"}
  /\ current \in Mapping /\ fresh \in Mapping /\ doomed \in Mapping
  /\ addr \in Mapping /\ warmAddr \in Mapping
  /\ currentId \in Nat /\ target \in Nat
  /\ toWarm \in Nat /\ nextPage \in Nat /\ readyId \in Nat
  /\ retired \in Seq(Addrs) /\ queue \in Seq(Addrs)
  /\ retire \in {"wait", "asleep", "drain", "unmap", "done"}
  /\ warmer \in {"wait", "sleep", "asleep", "stat", "recheck", "map", "header",
                 "populate", "publish", "done"}

\* And every flag is one.
FlagsOK == running \in BOOLEAN /\ lock \in BOOLEAN /\ pending \in BOOLEAN

\* The warmer is at work on a page.
AtWork == warmer \in {"stat", "recheck", "map", "header", "populate", "publish"}

\* A local mapping exists only in the stage that uses it, so that no assignment
\* overwrites the last reference to one.
LocalsInUse ==
  /\ fresh # Null => main = "load"
  /\ doomed # Null => retire = "unmap"
  /\ addr # Null => warmer \in {"header", "populate", "publish"}

\* The mappings of the members and locals that hold one each.
Single == {current, fresh, doomed, addr, warmAddr} \ {Null}

\* No two of them are the same.
SinglesApart ==
  /\ current # Null => current \notin {fresh, doomed, addr, warmAddr}
  /\ fresh # Null => fresh \notin {doomed, addr, warmAddr}
  /\ doomed # Null => doomed \notin {addr, warmAddr}
  /\ addr # Null => addr # warmAddr

\* Nor is one of them, or another element, an element of the two containers.
ContainersApart ==
  /\ \A i \in 1 .. Len(retired) : retired[i] \notin Single
  /\ \A i \in 1 .. Len(queue) : queue[i] \notin Single
  /\ \A i, j \in 1 .. Len(retired) : i # j => retired[i] # retired[j]
  /\ \A i, j \in 1 .. Len(queue) : i # j => queue[i] # queue[j]
  /\ \A i \in 1 .. Len(retired) : \A j \in 1 .. Len(queue) : retired[i] # queue[j]

\* What is held exists, and what exists is held.
HeldIsMapped ==
  /\ \A a \in Single : mapped[a] # 0
  /\ \A i \in 1 .. Len(retired) : mapped[retired[i]] # 0
  /\ \A i \in 1 .. Len(queue) : mapped[queue[i]] # 0
MappedIsHeld ==
  \A a \in Addrs : mapped[a] # 0 =>
    \/ a \in Single
    \/ \E i \in 1 .. Len(retired) : retired[i] = a
    \/ \E i \in 1 .. Len(queue) : queue[i] = a

\* Every mapping has exactly one owner.
Owned == SinglesApart /\ ContainersApart /\ HeldIsMapped /\ MappedIsHeld

\* Each mapping that is passed on is of the page its owner takes it for.
Labels ==
  /\ fresh # Null => mapped[fresh] = target
  /\ addr # Null => mapped[addr] = toWarm
  /\ warmAddr # Null => mapped[warmAddr] = readyId
  /\ main = "load" => target \in 1 .. ready
  /\ RightPage

\* The warmer works on what was asked for last until it is asked again.
Requests ==
  /\ pending => nextPage > 0
  /\ AtWork => toWarm > 0
  /\ AtWork /\ ~pending => toWarm = nextPage

ThreadsInv ==
  /\ ThreadsTypeOK /\ FlagsOK /\ LocalsInUse /\ Owned /\ Labels /\ Requests

-----------------------------------------------------------------------------
(* The invariant is inductive. *)

\* Before anything is mapped.
LEMMA ThreadsInit == Init => ThreadsInv
<1> SUFFICES ASSUME Init PROVE ThreadsInv
  OBVIOUS
<1> USE ThreadsAssumption DEF Init
<1>1. ThreadsTypeOK
  BY DEF ThreadsTypeOK, Mapping
<1>2. LocalsInUse /\ SinglesApart /\ ContainersApart /\ HeldIsMapped
  BY DEF LocalsInUse, SinglesApart, ContainersApart, HeldIsMapped, Single
<1>3. MappedIsHeld /\ Labels /\ Requests
  BY DEF MappedIsHeld, Labels, Requests, RightPage, AtWork
<1>4. FlagsOK
  BY Zenon DEF FlagsOK
<1> QED BY <1>1, <1>2, <1>3, <1>4 DEF ThreadsInv, Owned

\* An address mmap may return is one.
LEMMA FreeAddrFree ==
  ASSUME \E a \in Addrs : mapped[a] = 0
  PROVE  FreeAddr \in Addrs /\ mapped[FreeAddr] = 0
BY DEF FreeAddr

\* Every step keeps the types.
LEMMA ThreadsTypes == ThreadsTypeOK /\ Labels /\ [Next]_vars => ThreadsTypeOK'
<1> SUFFICES ASSUME ThreadsTypeOK, Labels, [Next]_vars PROVE ThreadsTypeOK'
  OBVIOUS
<1> USE DEF ThreadsTypeOK, Mapping, filesVars, mainVars, retireVars, warmerVars,
            sharedVars
<1>1. CASE CreatePage \/ InitPage
  <2>1. CASE CreatePage
    BY <2>1 DEF CreatePage
  <2>2. CASE InitPage
    BY <2>2 DEF InitPage
  <2> QED BY <1>1, <2>1, <2>2
<1>2. CASE TakeWarmed
  BY <1>2 DEF TakeWarmed
<1>3. CASE LoadSlow
  BY <1>3, FreeAddrFree DEF LoadSlow, Map
<1>4. CASE LoadThrows
  BY <1>4 DEF LoadThrows
<1>5. CASE SwapPage
  <2> DEFINE kept == IF current = Null THEN retired ELSE Append(retired, current)
  <2>1. kept \in Seq(Addrs)
    OBVIOUS
  <2>2. /\ UNCHANGED <<sized, ready, mapped, doomed, addr, warmAddr, toWarm,
                       nextPage, readyId, running, lock, pending, warmer>>
        /\ main' = "signal" /\ current' = fresh /\ currentId' = target
        /\ fresh' = Null /\ target' = 0
    BY <1>5 DEF SwapPage
  <2>3. retire' \in {"wait", "asleep", "drain", "unmap", "done"}
    BY <1>5 DEF SwapPage, WakeRetire
  <2>4. retired' \in Seq(Addrs) /\ queue' \in Seq(Addrs)
    <3>1. CASE Len(kept) > RetainedLimit
      <4>1. kept # <<>>
        BY SMTT(30), <3>1, ThreadsAssumption
      <4>2. Head(kept) \in Addrs /\ Tail(kept) \in Seq(Addrs)
        BY <2>1, <4>1
      <4>3. queue' = Append(queue, Head(kept)) /\ retired' = Tail(kept)
        BY <1>5, <3>1 DEF SwapPage
      <4> QED BY <4>2, <4>3
    <3>2. CASE ~(Len(kept) > RetainedLimit)
      BY <1>5, <2>1, <3>2 DEF SwapPage
    <3> QED BY <3>1, <3>2
  <2> QED BY <2>2, <2>3, <2>4
<1>6. CASE SignalWarmer
  BY <1>6 DEF SignalWarmer, WakeWarmer
<1>7. CASE Shut
  <2>1. queue' \in Seq(Addrs)
    <3> DEFINE shut == IF current = Null THEN queue ELSE Append(queue, current)
    <3>1. shut \in Seq(Addrs)
      OBVIOUS
    <3>2. queue' = shut \o retired
      BY <1>7 DEF Shut
    <3> QED BY <3>1, <3>2
  <2>2. retired' \in Seq(Addrs)
    BY <1>7 DEF Shut
  <2> QED BY <1>7, <2>1, <2>2 DEF Shut
<1>8. CASE NotifyRetire \/ Barrier \/ NotifyWarmer
  BY ZenonT(60), <1>8 DEF NotifyRetire, Barrier, NotifyWarmer, WakeRetire, WakeWarmer
<1>9. CASE Finish
  BY <1>9 DEF Finish, Unmap
<1>10. CASE RetireWait \/ RetireDrain
  <2>1. CASE RetireWait
    BY <2>1 DEF RetireWait
  <2>2. CASE RetireDrain
    <3>1. CASE queue # <<>>
      <4>1. Head(queue) \in Addrs /\ Tail(queue) \in Seq(Addrs)
        BY <3>1
      <4> QED BY ZenonT(60), <2>2, <3>1, <4>1 DEF RetireDrain
    <3>2. CASE queue = <<>>
      BY <2>2, <3>2 DEF RetireDrain
    <3> QED BY <3>1, <3>2
  <2> QED BY <1>10, <2>1, <2>2
<1>11. CASE RetireUnmap
  BY <1>11 DEF RetireUnmap, Unmap
<1>12. CASE WarmerTest \/ WarmerSleep \/ SpuriousWake
  BY ZenonT(60), <1>12 DEF WarmerTest, WarmerSleep, SpuriousWake
<1>13. CASE WarmerStat \/ WarmerRecheck
  BY <1>13 DEF WarmerStat, WarmerRecheck
<1>14. CASE WarmerMap
  BY ZenonT(60), <1>14, FreeAddrFree DEF WarmerMap, Map
<1>15. CASE WarmerHeader \/ WarmerPopulate
  <2>1. CASE WarmerHeader
    <3>1. CASE GiveUp
      BY <2>1, <3>1 DEF WarmerHeader, GiveUp, Unmap
    <3>2. CASE warmer' = "populate" /\ UNCHANGED <<mapped, addr>>
      BY <2>1, <3>2 DEF WarmerHeader
    <3> QED BY <2>1, <3>1, <3>2 DEF WarmerHeader
  <2>2. CASE WarmerPopulate
    <3>1. CASE GiveUp
      BY <2>2, <3>1 DEF WarmerPopulate, GiveUp, Unmap
    <3>2. CASE warmer' = "publish" /\ UNCHANGED <<mapped, addr>>
      BY <2>2, <3>2 DEF WarmerPopulate
    <3> QED BY <2>2, <3>1, <3>2 DEF WarmerPopulate
  <2> QED BY <1>15, <2>1, <2>2
<1>16. CASE WarmerPublish
  BY <1>16 DEF WarmerPublish, GiveUp, Unmap
<1>17. CASE UNCHANGED vars
  BY <1>17 DEF vars
<1> QED
  BY <1>1, <1>2, <1>3, <1>4, <1>5, <1>6, <1>7, <1>8, <1>9, <1>10, <1>11, <1>12,
     <1>13, <1>14, <1>15, <1>16, <1>17
  DEF Next, LoadStep, CloseStep, RetireStep, WarmerStep

\* The Boolean members stay Boolean.
LEMMA FlagsTypes == FlagsOK /\ [Next]_vars => FlagsOK'
<1> SUFFICES ASSUME FlagsOK, [Next]_vars PROVE FlagsOK'
  OBVIOUS
<1> USE DEF FlagsOK, sharedVars
<1>1. CASE CreatePage \/ InitPage \/ LoadStep
  BY <1>1, Zenon
  DEF CreatePage, InitPage, LoadStep, TakeWarmed, LoadSlow, LoadThrows, SwapPage,
      SignalWarmer
<1>2. CASE Shut \/ CloseStep \/ RetireStep \/ SpuriousWake
  BY <1>2, Zenon
  DEF Shut, CloseStep, NotifyRetire, Barrier, NotifyWarmer, Finish, RetireStep,
      RetireWait, RetireDrain, RetireUnmap, SpuriousWake
<1>3. CASE WarmerStep
  BY <1>3, Zenon
  DEF WarmerStep, WarmerTest, WarmerSleep, WarmerStat, WarmerRecheck, WarmerMap,
      WarmerHeader, WarmerPopulate, WarmerPublish
<1>4. CASE UNCHANGED vars
  BY <1>4, Zenon DEF vars
<1> QED BY <1>1, <1>2, <1>3, <1>4, Zenon DEF Next

\* A step that moves no mapping and maps or unmaps none.
LEMMA OwnersUnchanged ==
  ASSUME Owned, UNCHANGED <<mapped, current, fresh, doomed, addr, warmAddr,
                            retired, queue>>
  PROVE  Owned'
BY DEF Owned, SinglesApart, ContainersApart, HeldIsMapped, MappedIsHeld, Single

\* The hand-overs one by one.  The reader takes what the warmer prepared.
LEMMA TakeOwned ==
  ASSUME ThreadsTypeOK, LocalsInUse, Owned, TakeWarmed
  PROVE  Owned'
<1>1. fresh = Null
  BY DEF TakeWarmed, LocalsInUse
<1>2. UNCHANGED <<mapped, current, doomed, addr, retired, queue>>
  BY DEF TakeWarmed, retireVars, warmerVars
<1>3. CASE fresh' = warmAddr /\ warmAddr' = Null
  BY <1>1, <1>2, <1>3
  DEF Owned, SinglesApart, ContainersApart, HeldIsMapped, MappedIsHeld, Single
<1>4. CASE UNCHANGED <<fresh, warmAddr>>
  BY <1>2, <1>4, OwnersUnchanged
<1> QED BY <1>3, <1>4 DEF TakeWarmed

\* A page is mapped at an address nobody holds: into loadPage's local ...
LEMMA MapFreshOwned ==
  ASSUME ThreadsTypeOK, LocalsInUse, Owned, Labels, LoadSlow
  PROVE  Owned'
<1>1. FreeAddr \in Addrs /\ mapped[FreeAddr] = 0
  BY FreeAddrFree DEF LoadSlow, Map
<1>2. /\ UNCHANGED <<current, doomed, addr, warmAddr, retired, queue>>
      /\ fresh = Null /\ fresh' = FreeAddr
      /\ mapped' = [mapped EXCEPT ![FreeAddr] = target]
  BY DEF LoadSlow, Map, retireVars, warmerVars, sharedVars
<1>3. target # 0
  BY DEF LoadSlow, Labels
<1>4. SinglesApart' /\ ContainersApart'
  BY <1>1, <1>2, ThreadsAssumption
  DEF Owned, SinglesApart, ContainersApart, HeldIsMapped, Single
<1>5. \A b \in Addrs : mapped'[b] = IF b = FreeAddr THEN target ELSE mapped[b]
  BY <1>2 DEF ThreadsTypeOK
<1>6. HeldIsMapped'
  BY SMTT(30), <1>1, <1>2, <1>3, <1>5, ThreadsAssumption
  DEF Owned, HeldIsMapped, Single, ThreadsTypeOK, Mapping
<1>7. MappedIsHeld'
  BY <1>1, <1>2, <1>5, ThreadsAssumption DEF Owned, MappedIsHeld, Single
<1> QED BY <1>4, <1>6, <1>7 DEF Owned

\* ... or into the warmer's.
LEMMA MapWarmOwned ==
  ASSUME ThreadsTypeOK, LocalsInUse, Owned, Requests, WarmerMap
  PROVE  Owned'
<1>1. UNCHANGED <<current, fresh, doomed, warmAddr, retired, queue>>
  BY DEF WarmerMap, mainVars, retireVars, sharedVars
<1>2. CASE Map(toWarm) /\ addr' = FreeAddr
  <2>1. FreeAddr \in Addrs /\ mapped[FreeAddr] = 0
    BY <1>2, FreeAddrFree DEF Map
  <2>2. /\ addr = Null
        /\ mapped' = [mapped EXCEPT ![FreeAddr] = toWarm]
        /\ toWarm # 0
    BY <1>2 DEF WarmerMap, Map, LocalsInUse, Requests, AtWork
  <2>3. SinglesApart' /\ ContainersApart'
    BY <1>1, <1>2, <2>1, <2>2, ThreadsAssumption
    DEF Owned, SinglesApart, ContainersApart, HeldIsMapped, Single
  <2>4. \A b \in Addrs : mapped'[b] = IF b = FreeAddr THEN toWarm ELSE mapped[b]
    BY <2>2 DEF ThreadsTypeOK
  <2>5. HeldIsMapped'
    BY SMTT(30), <1>1, <1>2, <2>1, <2>2, <2>4, ThreadsAssumption
    DEF Owned, HeldIsMapped, Single, ThreadsTypeOK, Mapping
  <2>6. MappedIsHeld'
    BY <1>1, <1>2, <2>1, <2>2, <2>4, ThreadsAssumption DEF Owned, MappedIsHeld, Single
  <2> QED BY <2>3, <2>5, <2>6 DEF Owned
<1>3. CASE UNCHANGED <<mapped, addr>>
  BY <1>1, <1>3, OwnersUnchanged
<1> QED BY <1>2, <1>3 DEF WarmerMap

\* Unmapping x disturbs nobody who holds something else.
LEMMA OthersStayMapped ==
  ASSUME ThreadsTypeOK, HeldIsMapped, NEW x,
         \A b \in Addrs : mapped'[b] = IF b = x THEN 0 ELSE mapped[b],
         Single' \subseteq Single \ {x}, UNCHANGED <<retired, queue>>,
         \A i \in 1 .. Len(retired) : retired[i] # x,
         \A i \in 1 .. Len(queue) : queue[i] # x
  PROVE  HeldIsMapped'
<1>1. \A a \in Single : a \in Addrs /\ mapped[a] # 0
  BY DEF Single, ThreadsTypeOK, Mapping, HeldIsMapped
<1>2. \A a \in Single' : mapped'[a] # 0
  BY <1>1
<1>3. ASSUME NEW i \in 1 .. Len(retired) PROVE mapped'[retired[i]] # 0
  <2>1. retired[i] \in Addrs /\ retired[i] # x /\ mapped[retired[i]] # 0
    BY DEF ThreadsTypeOK, HeldIsMapped
  <2> QED BY <2>1
<1>4. ASSUME NEW i \in 1 .. Len(queue) PROVE mapped'[queue[i]] # 0
  <2>1. queue[i] \in Addrs /\ queue[i] # x /\ mapped[queue[i]] # 0
    BY DEF ThreadsTypeOK, HeldIsMapped
  <2> QED BY <2>1
<1> QED BY <1>2, <1>3, <1>4 DEF HeldIsMapped

\* Whoever unmaps what it alone holds, and forgets it, leaves the others theirs:
\* the retire thread ...
LEMMA UnmapDoomedOwned ==
  ASSUME ThreadsTypeOK, Owned, RetireUnmap
  PROVE  Owned'
<1>1. /\ UNCHANGED <<current, fresh, addr, warmAddr, retired, queue>>
      /\ doomed' = Null
  BY DEF RetireUnmap, mainVars, warmerVars, sharedVars
<1>2. \A b \in Addrs : mapped'[b] = IF b = doomed THEN 0 ELSE mapped[b]
  BY DEF RetireUnmap, Unmap
<1>3. SinglesApart' /\ ContainersApart'
  BY <1>1 DEF Owned, SinglesApart, ContainersApart, Single
<1>4. HeldIsMapped'
  <2>1. CASE doomed = Null
    <3>1. UNCHANGED mapped
      BY <2>1, ThreadsAssumption DEF RetireUnmap, Unmap, ThreadsTypeOK
    <3> QED BY <1>1, <2>1, <3>1 DEF Owned, HeldIsMapped, Single
  <2>2. CASE doomed # Null
    <3>1. Single' \subseteq Single \ {doomed}
      BY <1>1, <2>2 DEF Owned, SinglesApart, Single
    <3>2. /\ \A i \in 1 .. Len(retired) : retired[i] # doomed
          /\ \A i \in 1 .. Len(queue) : queue[i] # doomed
      BY <2>2 DEF Owned, ContainersApart, Single
    <3> QED BY <1>1, <1>2, <3>1, <3>2, OthersStayMapped DEF Owned
  <2> QED BY <2>1, <2>2
<1>5. MappedIsHeld'
  BY <1>1, <1>2 DEF Owned, MappedIsHeld, Single
<1> QED BY <1>3, <1>4, <1>5 DEF Owned

\* ... the warmer that gives a page up ...
LEMMA GiveUpOwned ==
  ASSUME ThreadsTypeOK, Owned, GiveUp,
         UNCHANGED <<current, fresh, doomed, warmAddr, retired, queue>>
  PROVE  Owned'
<1>1. addr' = Null
  BY DEF GiveUp
<1>2. \A b \in Addrs : mapped'[b] = IF b = addr THEN 0 ELSE mapped[b]
  BY DEF GiveUp, Unmap
<1>3. SinglesApart' /\ ContainersApart'
  BY <1>1 DEF Owned, SinglesApart, ContainersApart, Single
<1>4. HeldIsMapped'
  <2>1. CASE addr = Null
    <3>1. UNCHANGED mapped
      BY <2>1, ThreadsAssumption DEF GiveUp, Unmap, ThreadsTypeOK
    <3> QED BY <1>1, <2>1, <3>1 DEF Owned, HeldIsMapped, Single
  <2>2. CASE addr # Null
    <3>1. Single' \subseteq Single \ {addr}
      BY <1>1, <2>2 DEF Owned, SinglesApart, Single
    <3>2. /\ \A i \in 1 .. Len(retired) : retired[i] # addr
          /\ \A i \in 1 .. Len(queue) : queue[i] # addr
      BY <2>2 DEF Owned, ContainersApart, Single
    <3> QED BY <1>1, <1>2, <3>1, <3>2, OthersStayMapped DEF Owned
  <2> QED BY <2>1, <2>2
<1>5. MappedIsHeld'
  BY <1>1, <1>2 DEF Owned, MappedIsHeld, Single
<1> QED BY <1>3, <1>4, <1>5 DEF Owned

\* ... and the destructor or a publication, which drop an older warmed mapping;
\* the publication puts the warmer's own in its place.
LEMMA DropWarmedOwned ==
  ASSUME ThreadsTypeOK, Owned, Unmap({warmAddr}),
         UNCHANGED <<current, fresh, doomed, retired, queue>>,
         \/ warmAddr' = Null /\ UNCHANGED addr
         \/ warmAddr' = addr /\ addr' = Null
  PROVE  Owned'
<1>2. \A b \in Addrs : mapped'[b] = IF b = warmAddr THEN 0 ELSE mapped[b]
  BY DEF Unmap
<1>3. SinglesApart' /\ ContainersApart'
  BY DEF Owned, SinglesApart, ContainersApart, Single
<1>4. HeldIsMapped'
  <2>1. CASE warmAddr = Null
    <3>1. UNCHANGED mapped
      BY <2>1, ThreadsAssumption DEF Unmap, ThreadsTypeOK
    <3> QED BY <2>1, <3>1 DEF Owned, HeldIsMapped, Single
  <2>2. CASE warmAddr # Null
    <3>1. Single' \subseteq Single \ {warmAddr}
      BY <2>2 DEF Owned, SinglesApart, Single
    <3>2. /\ \A i \in 1 .. Len(retired) : retired[i] # warmAddr
          /\ \A i \in 1 .. Len(queue) : queue[i] # warmAddr
      BY <2>2 DEF Owned, ContainersApart, Single
    <3> QED BY <1>2, <3>1, <3>2, OthersStayMapped DEF Owned
  <2> QED BY <2>1, <2>2
<1>5. MappedIsHeld'
  BY <1>2 DEF Owned, MappedIsHeld, Single
<1> QED BY <1>3, <1>4, <1>5 DEF Owned

\* The retire thread takes the first mapping of its queue.
LEMMA DrainOwned ==
  ASSUME ThreadsTypeOK, LocalsInUse, Owned, RetireDrain
  PROVE  Owned'
<1>1. UNCHANGED <<mapped, current, fresh, addr, warmAddr, retired>>
  BY DEF RetireDrain, mainVars, warmerVars, sharedVars
<1>2. CASE queue # <<>>
  <2>1. doomed = Null /\ doomed' = Head(queue) /\ queue' = Tail(queue)
    BY <1>2 DEF RetireDrain, LocalsInUse
  <2>2. /\ queue \in Seq(Addrs) /\ Len(queue) \in Nat /\ Len(queue) > 0
        /\ Len(queue') = Len(queue) - 1
        /\ doomed' = queue[1] /\ doomed' \in Addrs
        /\ \A i \in 1 .. Len(queue') : queue'[i] = queue[i + 1]
    BY <1>2, <2>1, HeadTailProperties DEF ThreadsTypeOK
  <2>3. SinglesApart'
    BY <1>1, <2>1, <2>2 DEF Owned, SinglesApart, ContainersApart, Single
  <2>4. ContainersApart'
    BY <1>1, <2>1, <2>2 DEF Owned, ContainersApart, Single
  <2>5. HeldIsMapped'
    BY <1>1, <2>1, <2>2 DEF Owned, HeldIsMapped, Single
  <2>6. MappedIsHeld'
    <3> SUFFICES ASSUME NEW a \in Addrs, mapped[a] # 0
                 PROVE  \/ a \in Single'
                        \/ \E i \in 1 .. Len(retired) : retired[i] = a
                        \/ \E i \in 1 .. Len(queue') : queue'[i] = a
      BY <1>1 DEF MappedIsHeld
    <3>1. CASE \E i \in 1 .. Len(queue) : queue[i] = a
      <4>1. PICK i \in 1 .. Len(queue) : queue[i] = a
        BY <3>1
      <4>2. CASE i = 1
        BY <2>2, <4>1, <4>2, ThreadsAssumption DEF Single
      <4>3. CASE i # 1
        <5>1. i - 1 \in 1 .. Len(queue') /\ queue'[i - 1] = a
          BY <2>2, <4>1, <4>3
        <5> QED BY <5>1
      <4> QED BY <4>2, <4>3
    <3>2. CASE a \in Single \/ \E i \in 1 .. Len(retired) : retired[i] = a
      BY <1>1, <2>1, <3>2 DEF Single
    <3> QED BY <3>1, <3>2 DEF Owned, MappedIsHeld
  <2> QED BY <2>3, <2>4, <2>5, <2>6 DEF Owned
<1>3. CASE queue = <<>>
  BY <1>1, <1>3, OwnersUnchanged DEF RetireDrain
<1> QED BY <1>2, <1>3

\* The reader swaps its page: the old one is retained, and the oldest retained
\* one may pass to the retire thread.
LEMMA SwapOwned ==
  ASSUME ThreadsTypeOK, LocalsInUse, Owned, SwapPage
  PROVE  Owned'
<1> DEFINE kept == IF current = Null THEN retired ELSE Append(retired, current)
<1>1. /\ UNCHANGED <<mapped, doomed, addr, warmAddr>>
      /\ fresh # Null /\ current' = fresh /\ fresh' = Null
  BY DEF SwapPage, warmerVars, sharedVars
<1>2. Single = Single' \cup ({current} \ {Null})
  BY <1>1 DEF Single
<1>3. \A a \in Single' : a # current
  BY <1>1 DEF Single, Owned, SinglesApart
<1>4. SinglesApart'
  BY <1>1 DEF Owned, SinglesApart
<1>5. kept \in Seq(Addrs) /\ Len(kept) \in Nat
  BY DEF ThreadsTypeOK, Mapping
<1>6. /\ \A i \in 1 .. Len(kept) : kept[i] \notin Single' /\ mapped[kept[i]] # 0
      /\ \A i, j \in 1 .. Len(kept) : i # j => kept[i] # kept[j]
      /\ \A i \in 1 .. Len(kept) : \A j \in 1 .. Len(queue) : kept[i] # queue[j]
  <2>1. CASE current = Null
    BY <1>2, <2>1 DEF Owned, ContainersApart, HeldIsMapped
  <2>2. CASE current # Null
    <3>1. /\ Len(kept) = Len(retired) + 1 /\ Len(retired) \in Nat
          /\ kept[Len(kept)] = current
          /\ \A i \in 1 .. Len(retired) : kept[i] = retired[i]
      BY <2>2 DEF ThreadsTypeOK, Mapping
    <3>2. /\ current \in Single
          /\ \A i \in 1 .. Len(retired) : retired[i] # current
          /\ \A i \in 1 .. Len(queue) : queue[i] # current
      BY <2>2 DEF Owned, ContainersApart, Single
    <3>3. ASSUME NEW i \in 1 .. Len(kept)
          PROVE  \/ i \in 1 .. Len(retired)
                 \/ i = Len(kept)
      BY <3>1
    <3>4. ASSUME NEW i \in 1 .. Len(kept)
          PROVE  kept[i] \notin Single' /\ mapped[kept[i]] # 0
      BY <1>2, <1>3, <3>1, <3>2, <3>3 DEF Owned, ContainersApart, HeldIsMapped
    <3>5. ASSUME NEW i \in 1 .. Len(kept), NEW j \in 1 .. Len(kept), i # j
          PROVE  kept[i] # kept[j]
      BY <3>1, <3>2, <3>3, <3>5 DEF Owned, ContainersApart
    <3>6. ASSUME NEW i \in 1 .. Len(kept), NEW j \in 1 .. Len(queue)
          PROVE  kept[i] # queue[j]
      BY <3>1, <3>2, <3>3 DEF Owned, ContainersApart
    <3> QED BY <3>4, <3>5, <3>6
  <2> QED BY <2>1, <2>2
<1>7. ASSUME NEW a \in Addrs, mapped[a] # 0
      PROVE  \/ a \in Single'
             \/ \E i \in 1 .. Len(kept) : kept[i] = a
             \/ \E i \in 1 .. Len(queue) : queue[i] = a
  <2>1. CASE a = current
    <3>1. Len(kept) \in 1 .. Len(kept) /\ kept[Len(kept)] = a
      BY <2>1, ThreadsAssumption DEF ThreadsTypeOK
    <3> QED BY <3>1
  <2>2. CASE \E i \in 1 .. Len(retired) : retired[i] = a
    <3>1. PICK i \in 1 .. Len(retired) : retired[i] = a
      BY <2>2
    <3>2. i \in 1 .. Len(kept) /\ kept[i] = a
      BY <3>1 DEF ThreadsTypeOK, Mapping
    <3> QED BY <3>2
  <2>3. CASE a \in Single /\ a # current
    BY <1>2, <2>3
  <2> QED BY <1>7, <2>1, <2>2, <2>3 DEF Owned, MappedIsHeld
<1>8. \A i \in 1 .. Len(queue) : queue[i] \notin Single' /\ mapped[queue[i]] # 0
  BY <1>2 DEF Owned, ContainersApart, HeldIsMapped
<1>9. \A a \in Single' : mapped[a] # 0
  BY <1>2 DEF Owned, HeldIsMapped
<1>10. CASE ~(Len(kept) > RetainedLimit)
  <2>1. retired' = kept /\ queue' = queue
    BY <1>10 DEF SwapPage
  <2>2. ContainersApart'
    BY <1>6, <1>8, <2>1 DEF Owned, ContainersApart
  <2>3. HeldIsMapped'
    BY <1>1, <1>6, <1>8, <1>9, <2>1 DEF HeldIsMapped
  <2>4. MappedIsHeld'
    BY <1>1, <1>7, <2>1 DEF MappedIsHeld
  <2> QED BY <1>4, <2>2, <2>3, <2>4 DEF Owned
<1>11. CASE Len(kept) > RetainedLimit
  <2>1. retired' = Tail(kept) /\ queue' = Append(queue, Head(kept))
    BY <1>11 DEF SwapPage
  <2>2. kept # <<>>
    BY <1>11, <1>5, ThreadsAssumption
  <2>3. /\ Len(retired') = Len(kept) - 1
        /\ \A i \in 1 .. Len(retired') : retired'[i] = kept[i + 1]
        /\ Head(kept) = kept[1] /\ kept[1] \in Addrs /\ 1 \in 1 .. Len(kept)
    BY <1>5, <2>1, <2>2, HeadTailProperties
  <2>4. /\ Len(queue) \in Nat /\ Len(queue') = Len(queue) + 1
        /\ \A i \in 1 .. Len(queue) : queue'[i] = queue[i]
        /\ queue'[Len(queue) + 1] = kept[1]
    BY <2>1, <2>3 DEF ThreadsTypeOK
  <2>5. ASSUME NEW i \in 1 .. Len(retired')
        PROVE  i + 1 \in 1 .. Len(kept) /\ i + 1 # 1 /\ retired'[i] = kept[i + 1]
    BY <1>5, <2>3
  <2>6. ASSUME NEW i \in 1 .. Len(queue')
        PROVE  \/ i \in 1 .. Len(queue) /\ queue'[i] = queue[i]
               \/ i = Len(queue) + 1 /\ queue'[i] = kept[1]
    BY <2>4
  <2>7. ContainersApart'
    <3>1. \A i \in 1 .. Len(retired') : retired'[i] \notin Single'
      BY <1>6, <2>5
    <3>2. \A i \in 1 .. Len(queue') : queue'[i] \notin Single'
      BY <1>6, <1>8, <2>3, <2>6
    <3>3. ASSUME NEW i \in 1 .. Len(retired'), NEW j \in 1 .. Len(retired'), i # j
          PROVE  retired'[i] # retired'[j]
      <4>1. i + 1 # j + 1
        BY <3>3
      <4> QED BY SMTT(30), <1>6, <2>5, <4>1
    <3>4. ASSUME NEW i \in 1 .. Len(queue'), NEW j \in 1 .. Len(queue'), i # j
          PROVE  queue'[i] # queue'[j]
      BY <1>6, <2>3, <2>6, <3>4 DEF Owned, ContainersApart
    <3>5. ASSUME NEW i \in 1 .. Len(retired'), NEW j \in 1 .. Len(queue')
          PROVE  retired'[i] # queue'[j]
      BY <1>6, <2>3, <2>5, <2>6
    <3> QED BY <3>1, <3>2, <3>3, <3>4, <3>5 DEF ContainersApart
  <2>8. HeldIsMapped'
    <3>1. \A i \in 1 .. Len(retired') : mapped[retired'[i]] # 0
      BY <1>6, <2>5
    <3>2. \A i \in 1 .. Len(queue') : mapped[queue'[i]] # 0
      BY <1>6, <1>8, <2>3, <2>6
    <3> QED BY <1>1, <1>9, <3>1, <3>2 DEF HeldIsMapped
  <2>9. MappedIsHeld'
    <3> SUFFICES ASSUME NEW a \in Addrs, mapped[a] # 0
                 PROVE  \/ a \in Single'
                        \/ \E i \in 1 .. Len(retired') : retired'[i] = a
                        \/ \E i \in 1 .. Len(queue') : queue'[i] = a
      BY <1>1 DEF MappedIsHeld
    <3>1. CASE \E i \in 1 .. Len(kept) : kept[i] = a
      <4>1. PICK i \in 1 .. Len(kept) : kept[i] = a
        BY <3>1
      <4>2. CASE i = 1
        <5>1. Len(queue) + 1 \in 1 .. Len(queue')
          BY <2>4
        <5> QED BY <2>4, <4>1, <4>2, <5>1
      <4>3. CASE i # 1
        <5>1. i - 1 \in 1 .. Len(retired') /\ retired'[i - 1] = a
          BY <1>5, <2>3, <4>1, <4>3
        <5> QED BY <5>1
      <4> QED BY <4>2, <4>3
    <3>2. CASE \E i \in 1 .. Len(queue) : queue[i] = a
      <4>1. PICK i \in 1 .. Len(queue) : queue[i] = a
        BY <3>2
      <4>2. i \in 1 .. Len(queue') /\ queue'[i] = a
        BY <2>4, <4>1
      <4> QED BY <4>2
    <3> QED BY <1>7, <3>1, <3>2
  <2> QED BY <1>4, <2>7, <2>8, <2>9 DEF Owned
<1> QED BY <1>10, <1>11

\* The destructor passes everything the reader holds to the retire thread.
LEMMA ShutOwned ==
  ASSUME ThreadsTypeOK, Owned, Shut
  PROVE  Owned'
<1> DEFINE closing == IF current = Null THEN queue ELSE Append(queue, current)
           n == Len(closing)
<1>1. /\ UNCHANGED <<mapped, fresh, doomed, addr, warmAddr>>
      /\ current' = Null /\ retired' = <<>>
      /\ queue' = closing \o retired
  BY DEF Shut, retireVars, warmerVars, sharedVars
<1>2. Single = Single' \cup ({current} \ {Null}) /\ \A a \in Single' : a # current
  BY <1>1 DEF Single, Owned, SinglesApart
<1>3. SinglesApart'
  BY <1>1 DEF Owned, SinglesApart
<1>4. closing \in Seq(Addrs) /\ n \in Nat /\ Len(retired) \in Nat /\ Len(queue) \in Nat
  BY DEF ThreadsTypeOK, Mapping
<1>5. /\ Len(queue) <= n
      /\ \A i \in 1 .. Len(queue) : closing[i] = queue[i]
      /\ \A i \in 1 .. n : \/ i \in 1 .. Len(queue)
                           \/ current # Null /\ i = n /\ closing[i] = current
      /\ current # Null => n = Len(queue) + 1 /\ closing[n] = current
  BY DEF ThreadsTypeOK, Mapping
<1>6. /\ Len(queue') = n + Len(retired)
      /\ \A i \in 1 .. n : queue'[i] = closing[i]
      /\ \A i \in 1 .. Len(retired) : queue'[n + i] = retired[i]
  BY SMTT(30), <1>1, <1>4 DEF ThreadsTypeOK
<1>7. ASSUME NEW i \in 1 .. Len(queue')
      PROVE  \/ i \in 1 .. Len(queue) /\ queue'[i] = queue[i]
             \/ current # Null /\ i = Len(queue) + 1 /\ queue'[i] = current
             \/ i > n /\ i - n \in 1 .. Len(retired) /\ queue'[i] = retired[i - n]
  <2>1. CASE i \in 1 .. n
    BY <1>4, <1>5, <1>6, <2>1
  <2>2. CASE i \notin 1 .. n
    <3>1. i > n /\ i - n \in 1 .. Len(retired) /\ i = n + (i - n)
      BY <1>4, <1>6, <2>2
    <3> QED BY <1>6, <3>1
  <2> QED BY <2>1, <2>2
<1>8. current # Null => /\ current \in Single
                        /\ \A i \in 1 .. Len(retired) : retired[i] # current
                        /\ \A i \in 1 .. Len(queue) : queue[i] # current
  BY DEF Owned, ContainersApart, Single
<1>9. ContainersApart'
  <2>1. \A i \in 1 .. Len(queue') : queue'[i] \notin Single'
    BY <1>2, <1>7 DEF Owned, ContainersApart
  <2>2. ASSUME NEW i \in 1 .. Len(queue'), NEW j \in 1 .. Len(queue'), i # j
        PROVE  queue'[i] # queue'[j]
    <3>1. i > n /\ j > n => i - n # j - n
      BY <1>4, <1>6, <2>2
    <3>2. CASE i \in 1 .. Len(queue) /\ queue'[i] = queue[i]
      BY ZenonT(60), <1>7, <1>8, <2>2, <3>2 DEF Owned, ContainersApart
    <3>3. CASE current # Null /\ i = Len(queue) + 1 /\ queue'[i] = current
      BY <1>7, <1>8, <2>2, <3>3
    <3>4. CASE i > n /\ i - n \in 1 .. Len(retired) /\ queue'[i] = retired[i - n]
      BY ZenonT(60), <1>7, <1>8, <3>1, <3>4 DEF Owned, ContainersApart
    <3> QED BY <1>7, <3>2, <3>3, <3>4
  <2> QED BY <1>1, <2>1, <2>2 DEF ContainersApart
<1>10. HeldIsMapped'
  <2>1. \A i \in 1 .. Len(queue') : mapped[queue'[i]] # 0
    BY ZenonT(60), <1>7, <1>8 DEF Owned, HeldIsMapped
  <2> QED BY <1>1, <1>2, <2>1 DEF Owned, HeldIsMapped
<1>11. MappedIsHeld'
  <2> SUFFICES ASSUME NEW a \in Addrs, mapped[a] # 0
               PROVE  a \in Single' \/ \E i \in 1 .. Len(queue') : queue'[i] = a
    BY <1>1 DEF MappedIsHeld
  <2>1. CASE a = current
    <3>1. n \in 1 .. Len(queue') /\ queue'[n] = a
      BY <1>4, <1>5, <1>6, <2>1, ThreadsAssumption
    <3> QED BY <3>1
  <2>2. CASE \E i \in 1 .. Len(queue) : queue[i] = a
    <3>1. PICK i \in 1 .. Len(queue) : queue[i] = a
      BY <2>2
    <3>2. i \in 1 .. Len(queue') /\ queue'[i] = a
      BY <1>4, <1>5, <1>6, <3>1
    <3> QED BY <3>2
  <2>3. CASE \E i \in 1 .. Len(retired) : retired[i] = a
    <3>1. PICK i \in 1 .. Len(retired) : retired[i] = a
      BY <2>3
    <3>2. n + i \in 1 .. Len(queue') /\ queue'[n + i] = a
      BY <1>4, <1>6, <3>1
    <3> QED BY <3>2
  <2>4. CASE a \in Single /\ a # current
    BY <1>2, <2>4
  <2> QED BY <2>1, <2>2, <2>3, <2>4 DEF Owned, MappedIsHeld
<1> QED BY <1>3, <1>9, <1>10, <1>11 DEF Owned

\* Every step keeps the owners.
LEMMA OwnersNext ==
  ASSUME ThreadsTypeOK, LocalsInUse, Owned, Labels, Requests, [Next]_vars
  PROVE  Owned'
<1> USE DEF filesVars, mainVars, retireVars, warmerVars, sharedVars
<1>1. CASE CreatePage \/ InitPage \/ LoadThrows \/ SignalWarmer
  BY <1>1, OwnersUnchanged DEF CreatePage, InitPage, LoadThrows, SignalWarmer
<1>2. CASE NotifyRetire \/ Barrier \/ NotifyWarmer \/ RetireWait \/ SpuriousWake
  BY <1>2, OwnersUnchanged DEF NotifyRetire, Barrier, NotifyWarmer, RetireWait, SpuriousWake
<1>3. CASE WarmerTest \/ WarmerSleep \/ WarmerStat \/ WarmerRecheck
  BY <1>3, OwnersUnchanged DEF WarmerTest, WarmerSleep, WarmerStat, WarmerRecheck
<1>4. CASE TakeWarmed \/ LoadSlow \/ SwapPage \/ Shut
  BY <1>4, TakeOwned, MapFreshOwned, SwapOwned, ShutOwned
<1>5. CASE RetireDrain \/ RetireUnmap \/ WarmerMap
  BY <1>5, DrainOwned, UnmapDoomedOwned, MapWarmOwned
<1>6. CASE Finish
  BY <1>6, DropWarmedOwned DEF Finish
<1>7. CASE WarmerHeader
  <2>1. UNCHANGED <<current, fresh, doomed, warmAddr, retired, queue>>
    BY <1>7 DEF WarmerHeader
  <2>2. GiveUp \/ UNCHANGED <<mapped, addr>>
    BY <1>7 DEF WarmerHeader
  <2> QED BY <2>1, <2>2, GiveUpOwned, OwnersUnchanged
<1>8. CASE WarmerPopulate
  <2>1. UNCHANGED <<current, fresh, doomed, warmAddr, retired, queue>>
    BY <1>8 DEF WarmerPopulate
  <2>2. GiveUp \/ UNCHANGED <<mapped, addr>>
    BY <1>8 DEF WarmerPopulate
  <2> QED BY <2>1, <2>2, GiveUpOwned, OwnersUnchanged
<1>9. CASE WarmerPublish
  <2>1. UNCHANGED <<current, fresh, doomed, retired, queue>>
    BY <1>9 DEF WarmerPublish
  <2>2. \/ GiveUp /\ UNCHANGED warmAddr
        \/ Unmap({warmAddr}) /\ warmAddr' = addr /\ addr' = Null
    BY <1>9 DEF WarmerPublish
  <2> QED BY <2>1, <2>2, GiveUpOwned, DropWarmedOwned
<1>10. CASE UNCHANGED vars
  BY <1>10, OwnersUnchanged DEF vars
<1> QED
  BY <1>1, <1>2, <1>3, <1>4, <1>5, <1>6, <1>7, <1>8, <1>9, <1>10
  DEF Next, LoadStep, CloseStep, RetireStep, WarmerStep

\* Every step keeps what the locals and the labels say.  A label survives the
\* unmapping of somebody else's address because no two are the same.
LEMMA LabelsNext ==
  ASSUME ThreadsTypeOK, FlagsOK, LocalsInUse, Owned, Labels, Requests, [Next]_vars
  PROVE  LocalsInUse' /\ Labels' /\ Requests'
<1> USE ThreadsAssumption
    DEF filesVars, mainVars, retireVars, warmerVars, sharedVars,
        LocalsInUse, Labels, RightPage, Requests, AtWork
<1>1. CASE CreatePage
  BY <1>1 DEF CreatePage
<1>2. CASE InitPage
  BY <1>2 DEF InitPage, ThreadsTypeOK
<1>3. CASE TakeWarmed
  BY <1>3 DEF TakeWarmed
<1>4. CASE LoadSlow
  <2>1. FreeAddr \in Addrs /\ mapped[FreeAddr] = 0
    BY <1>4, FreeAddrFree DEF LoadSlow, Map
  <2>2. \A a \in Single : a \in Addrs /\ mapped[a] # 0 /\ a # FreeAddr
    BY <2>1 DEF Owned, HeldIsMapped, Single, ThreadsTypeOK, Mapping
  <2>3. \A b \in Addrs : mapped'[b] = IF b = FreeAddr THEN target ELSE mapped[b]
    BY <1>4 DEF LoadSlow, Map, ThreadsTypeOK
  <2> QED BY <1>4, <2>1, <2>2, <2>3 DEF LoadSlow, Single
<1>5. CASE LoadThrows
  BY <1>5 DEF LoadThrows
<1>6. CASE SwapPage
  BY <1>6 DEF SwapPage, WakeRetire
<1>7. CASE SignalWarmer
  BY <1>7 DEF SignalWarmer, WakeWarmer, ThreadsTypeOK
<1>8. CASE Shut
  BY <1>8 DEF Shut
<1>9. CASE NotifyRetire \/ Barrier
  BY <1>9 DEF NotifyRetire, Barrier, WakeRetire
<1>10. CASE NotifyWarmer
  BY <1>10 DEF NotifyWarmer, WakeWarmer
<1>11. CASE Finish
  <2>1. \A b \in Addrs : mapped'[b] = IF b = warmAddr THEN 0 ELSE mapped[b]
    BY <1>11 DEF Finish, Unmap
  <2> QED BY <1>11, <2>1 DEF Finish, Owned, SinglesApart, ThreadsTypeOK, Mapping
<1>12. CASE RetireWait \/ RetireDrain
  BY <1>12 DEF RetireWait, RetireDrain
<1>13. CASE RetireUnmap
  <2>1. \A b \in Addrs : mapped'[b] = IF b = doomed THEN 0 ELSE mapped[b]
    BY <1>13 DEF RetireUnmap, Unmap
  <2> QED BY <1>13, <2>1 DEF RetireUnmap, Owned, SinglesApart, ThreadsTypeOK, Mapping
<1>14. CASE WarmerTest
  BY <1>14 DEF WarmerTest, Interrupted, FlagsOK
<1>15. CASE WarmerSleep \/ SpuriousWake
  BY <1>15 DEF WarmerSleep, SpuriousWake
<1>16. CASE WarmerStat \/ WarmerRecheck
  BY <1>16 DEF WarmerStat, WarmerRecheck
<1>17. CASE WarmerMap
  <2>1. CASE Map(toWarm) /\ addr' = FreeAddr /\ warmer' = "header"
    <3>1. FreeAddr \in Addrs /\ mapped[FreeAddr] = 0
      BY <2>1, FreeAddrFree DEF Map
    <3>2. \A a \in Single : a \in Addrs /\ mapped[a] # 0 /\ a # FreeAddr
      BY <3>1 DEF Owned, HeldIsMapped, Single, ThreadsTypeOK, Mapping
    <3>3. \A b \in Addrs : mapped'[b] = IF b = FreeAddr THEN toWarm ELSE mapped[b]
      BY <2>1 DEF Map, ThreadsTypeOK
    <3> QED BY <1>17, <2>1, <3>1, <3>2, <3>3 DEF WarmerMap, Single
  <2>2. CASE warmer' = "wait" /\ UNCHANGED <<mapped, addr>>
    BY <1>17, <2>2 DEF WarmerMap
  <2> QED BY <1>17, <2>1, <2>2 DEF WarmerMap
<1>18. CASE GiveUp /\ UNCHANGED <<filesVars, mainVars, queue, running, retireVars,
                                  toWarm, lock, sharedVars>>
  <2>1. \A b \in Addrs : mapped'[b] = IF b = addr THEN 0 ELSE mapped[b]
    BY <1>18 DEF GiveUp, Unmap
  <2> QED BY <1>18, <2>1 DEF GiveUp, Owned, SinglesApart, ThreadsTypeOK, Mapping
<1>19. CASE WarmerHeader \/ WarmerPopulate
  <2>1. CASE GiveUp
    BY <1>18, <1>19, <2>1 DEF WarmerHeader, WarmerPopulate
  <2>2. CASE ~GiveUp
    BY <1>19, <2>2 DEF WarmerHeader, WarmerPopulate
  <2> QED BY <2>1, <2>2
<1>20. CASE WarmerPublish
  <2>1. CASE GiveUp /\ UNCHANGED <<warmAddr, readyId>>
    BY <1>18, <1>20, <2>1 DEF WarmerPublish
  <2>2. CASE /\ Unmap({warmAddr})
             /\ warmAddr' = addr /\ readyId' = toWarm
             /\ addr' = Null /\ warmer' = "wait"
    <3>1. \A b \in Addrs : mapped'[b] = IF b = warmAddr THEN 0 ELSE mapped[b]
      BY <2>2 DEF Unmap
    <3> QED
      BY <1>20, <2>2, <3>1
      DEF WarmerPublish, Owned, SinglesApart, ThreadsTypeOK, Mapping
  <2> QED BY <1>20, <2>1, <2>2 DEF WarmerPublish
<1>21. CASE UNCHANGED vars
  BY <1>21 DEF vars
<1> QED
  BY <1>1, <1>2, <1>3, <1>4, <1>5, <1>6, <1>7, <1>8, <1>9, <1>10, <1>11, <1>12,
     <1>13, <1>14, <1>15, <1>16, <1>17, <1>19, <1>20, <1>21
  DEF Next, LoadStep, CloseStep, RetireStep, WarmerStep

\* The invariant holds throughout.
LEMMA ThreadsInvariant == Spec => []ThreadsInv
<1>1. ThreadsInv /\ [Next]_vars => ThreadsInv'
  BY ThreadsTypes, FlagsTypes, OwnersNext, LabelsNext DEF ThreadsInv
<1> QED BY ThreadsInit, <1>1, PTL DEF Spec

-----------------------------------------------------------------------------
(* The theorems. *)

\* Counting in a sequence that holds nothing twice.
LEMMA TimesOnce ==
  ASSUME NEW s \in Seq(Mapping), NEW a,
         \A i, j \in 1 .. Len(s) : s[i] = a /\ s[j] = a => i = j
  PROVE  Times(a, s) = IF \E i \in 1 .. Len(s) : s[i] = a THEN 1 ELSE 0
<1> DEFINE S == {i \in DOMAIN s : s[i] = a}
<1>1. DOMAIN s = 1 .. Len(s)
  OBVIOUS
<1>2. CASE \E i \in 1 .. Len(s) : s[i] = a
  <2>1. PICK k \in 1 .. Len(s) : s[k] = a
    BY <1>2
  <2>2. S = {k}
    BY <1>1, <2>1
  <2> QED BY <1>2, <2>2, FS_Singleton DEF Times
<1>3. CASE ~ \E i \in 1 .. Len(s) : s[i] = a
  <2>1. S = {}
    BY <1>1, <1>3
  <2> QED BY <1>3, <2>1, FS_EmptySet DEF Times
<1> QED BY <1>2, <1>3

\* The invariant says what OneOwner counts.
LEMMA InvGivesOneOwner == ThreadsInv => OneOwner
<1> SUFFICES ASSUME ThreadsInv, NEW a \in Addrs
             PROVE  Times(a, Members) + Times(a, retired) + Times(a, queue) =
                      IF mapped[a] = 0 THEN 0 ELSE 1
  BY DEF OneOwner
<1>1. ThreadsTypeOK /\ Owned /\ a # Null
  BY ThreadsAssumption DEF ThreadsInv
<1>2. retired \in Seq(Mapping) /\ queue \in Seq(Mapping)
  BY <1>1 DEF ThreadsTypeOK, Mapping
<1>3. /\ Members \in Seq(Mapping) /\ Len(Members) = 5
      /\ Members[1] = current /\ Members[2] = fresh /\ Members[3] = doomed
      /\ Members[4] = addr /\ Members[5] = warmAddr
  BY <1>1 DEF Members, ThreadsTypeOK
<1>4. Times(a, retired) = IF \E i \in 1 .. Len(retired) : retired[i] = a THEN 1 ELSE 0
  BY <1>1, <1>2, TimesOnce DEF Owned, ContainersApart
<1>5. Times(a, queue) = IF \E i \in 1 .. Len(queue) : queue[i] = a THEN 1 ELSE 0
  BY <1>1, <1>2, TimesOnce DEF Owned, ContainersApart
<1>6. Times(a, Members) = IF a \in Single THEN 1 ELSE 0
  <2>1. \A i \in 1 .. Len(Members) : i = 1 \/ i = 2 \/ i = 3 \/ i = 4 \/ i = 5
    BY <1>3
  <2>2. \A i, j \in 1 .. Len(Members) : Members[i] = a /\ Members[j] = a => i = j
    BY <1>1, <1>3, <2>1 DEF Owned, SinglesApart
  <2>3. (\E i \in 1 .. Len(Members) : Members[i] = a) <=> a \in Single
    BY <1>1, <1>3, <2>1 DEF Single
  <2> QED BY <1>3, <2>2, <2>3, TimesOnce
<1>7. CASE mapped[a] = 0
  <2>1. /\ a \notin Single
        /\ ~ \E i \in 1 .. Len(retired) : retired[i] = a
        /\ ~ \E i \in 1 .. Len(queue) : queue[i] = a
    BY <1>1, <1>7 DEF Owned, HeldIsMapped
  <2> QED BY <1>4, <1>5, <1>6, <1>7, <2>1
<1>8. CASE mapped[a] # 0
  <2>1. \/ a \in Single
        \/ \E i \in 1 .. Len(retired) : retired[i] = a
        \/ \E i \in 1 .. Len(queue) : queue[i] = a
    BY <1>1, <1>8 DEF Owned, MappedIsHeld
  <2>2. /\ ~(a \in Single /\ \E i \in 1 .. Len(retired) : retired[i] = a)
        /\ ~(a \in Single /\ \E i \in 1 .. Len(queue) : queue[i] = a)
        /\ ~(/\ \E i \in 1 .. Len(retired) : retired[i] = a
             /\ \E i \in 1 .. Len(queue) : queue[i] = a)
    BY <1>1 DEF Owned, ContainersApart
  <2> QED BY <1>4, <1>5, <1>6, <1>8, <2>1, <2>2
<1> QED BY <1>7, <1>8

\* Every mapping has exactly one owner in every state, for any number of
\* addresses, pages and retained pages and every interleaving of loadPage,
\* retireLoop, readerWarmerLoop and ~Journal: none leaks, is unmapped twice or
\* is used after it is gone.
THEOREM MappingsHaveOneOwner == Spec => []OneOwner
BY ThreadsInvariant, InvGivesOneOwner, PTL

\* loadPage's fast path never makes current a mapping of another page than the
\* one asked for, nor of one without its header.
THEOREM ReaderOnRightPage == Spec => []RightPage
<1>1. ThreadsInv => RightPage
  BY DEF ThreadsInv, Labels
<1> QED BY <1>1, ThreadsInvariant, PTL

\* readerWarmerLoop publishes only a mapping of the page asked for last.
THEOREM WarmerPublishesLatest == Spec => PublishesLatest
<1> DEFINE A == (warmAddr' # warmAddr /\ warmAddr' # Null) => readyId' = nextPage
<1>1. ThreadsInv /\ [Next]_vars => [A]_vars
  <2> SUFFICES ASSUME ThreadsInv, Next, warmAddr' # warmAddr, warmAddr' # Null
               PROVE  readyId' = nextPage
    OBVIOUS
  <2> USE DEF filesVars, mainVars, retireVars, warmerVars, sharedVars
  <2>1. WarmerPublish
    <3>1. ~(CreatePage \/ InitPage \/ LoadStep \/ Shut)
      BY DEF CreatePage, InitPage, LoadStep, TakeWarmed, LoadSlow, LoadThrows,
             SwapPage, SignalWarmer, Shut
    <3>2. ~(CloseStep \/ RetireStep \/ SpuriousWake)
      BY DEF CloseStep, NotifyRetire, Barrier, NotifyWarmer, Finish, RetireStep,
             RetireWait, RetireDrain, RetireUnmap, SpuriousWake
    <3>3. WarmerStep => WarmerPublish
      BY DEF WarmerStep, WarmerTest, WarmerSleep, WarmerStat, WarmerRecheck,
             WarmerMap, WarmerHeader, WarmerPopulate
    <3> QED BY <3>1, <3>2, <3>3 DEF Next
  <2>2. readyId' = toWarm /\ ~pending /\ warmer = "publish"
    BY <2>1 DEF WarmerPublish, Interrupted
  <2> QED BY <2>2 DEF ThreadsInv, Requests, AtWork
<1>2. Spec => [][A]_vars
  BY <1>1, ThreadsInvariant, PTL DEF Spec
<1> QED BY <1>2 DEF PublishesLatest
=============================================================================
