---------------------------- MODULE ThreadProofs ----------------------------
(***************************************************************************)
(* What threads do to each other and to themselves: the lock of a shared   *)
(* writer (WriterLock), for any number of threads and frames, whatever     *)
(* rotatePage and the callbacks throw; and the scheduling objects of one   *)
(* thread (ThreadScopes), for any nesting, cores and priorities.           *)
(***************************************************************************)
EXTENDS WriterLock, ThreadScopes, SequenceTheorems, TLAPS

\* A step of one thread inside the lock leaves the types in place.
LEMMA LockTypes == TypeOK /\ OneHolder /\ OwnFrame /\ [Next]_vars => TypeOK'
<1> SUFFICES ASSUME TypeOK, OneHolder, OwnFrame, [Next]_vars PROVE TypeOK'
  OBVIOUS
<1> USE LockAssumption DEF TypeOK, Slots, Holding, Goto, NoFrame
<1>1. ASSUME NEW t \in Threads, Call(t) PROVE TypeOK'
  BY <1>1 DEF Call
<1>2. ASSUME NEW t \in Threads, Acquire(t) PROVE TypeOK'
  BY <1>2 DEF Acquire
<1>3. ASSUME NEW t \in Threads, OpenFrame(t) PROVE TypeOK'
  BY <1>3 DEF OpenFrame, OwnFrame
<1>4. ASSUME NEW t \in Threads, OpenThrows(t) PROVE TypeOK'
  BY <1>4 DEF OpenThrows
<1>5. ASSUME NEW t \in Threads, Fill(t) PROVE TypeOK'
  BY <1>5 DEF Fill, OwnFrame
<1>6. ASSUME NEW t \in Threads, CallbackThrows(t) PROVE TypeOK'
  BY <1>6 DEF CallbackThrows
<1>7. ASSUME NEW t \in Threads, StoreLength(t) PROVE TypeOK'
  BY <1>7 DEF StoreLength
<1>8. ASSUME NEW t \in Threads, AdvanceAddress(t) PROVE TypeOK'
  BY <1>8 DEF AdvanceAddress, OwnFrame, Closing
<1>9. ASSUME NEW t \in Threads, Release(t) PROVE TypeOK'
  BY <1>9 DEF Release
<1>10. CASE UNCHANGED vars
  BY <1>10 DEF vars
<1> QED
  BY <1>1, <1>2, <1>3, <1>4, <1>5, <1>6, <1>7, <1>8, <1>9, <1>10
  DEF Next, Inside

\* The invariant holds after the writer's construction.
LEMMA LockInit == Init => LockInv
<1> SUFFICES ASSUME Init PROVE LockInv
  OBVIOUS
<1>1. address \in 1 .. MaxFrames + 1
  <2>1. MaxFrames \in Nat
    BY LockAssumption
  <2>2. address = 1
    BY DEF Init
  <2> QED
    BY <2>1, <2>2
<1>2. /\ \A t \in Threads : pc[t] \notin Holding /\ pc[t] = "idle"
      /\ \A s \in Slots : committed[s] = None
  BY DEF Init, Holding
<1>3. slot \in [Slots -> [by : Threads \cup {None}, data : Threads \cup {None}]]
  BY DEF Init
<1>4. TypeOK
  <2>1. writing \in BOOLEAN /\ lost \in BOOLEAN /\ guard \in [Threads -> BOOLEAN]
    BY Zenon DEF Init
  <2>2. header \in Slots \cup {NoFrame} /\ ref \in [Threads -> Slots \cup {NoFrame}]
    BY DEF Init
  <2>3. /\ committed \in [Slots -> Threads \cup {None}]
        /\ pc \in [Threads -> {"idle", "spin"} \cup Holding]
    BY DEF Init
  <2> QED
    BY <1>1, <1>3, <2>1, <2>2, <2>3 DEF TypeOK
<1>5. OneHolder /\ OwnFrame /\ Frontier /\ WholeFrames
  BY <1>2 DEF OneHolder, OwnFrame, Frontier, WholeFrames
<1> QED
  BY <1>4, <1>5 DEF LockInv

\* Every step of every thread preserves the invariant: the lock keeps the
\* others out of the frame at the frontier until the frontier has moved on.
LEMMA LockNext == LockInv /\ [Next]_vars => LockInv'
<1> SUFFICES ASSUME LockInv, [Next]_vars PROVE LockInv'
  OBVIOUS
<1> DEFINE Rest == OneHolder /\ OwnFrame /\ Frontier /\ WholeFrames
<1>0. TypeOK'
  BY LockTypes DEF LockInv
<1> USE LockAssumption DEF LockInv, TypeOK, OneHolder, OwnFrame, Frontier,
        WholeFrames, Slots, Holding, Goto, NoFrame
<1>1. ASSUME NEW t \in Threads, Call(t) PROVE Rest'
  BY <1>1 DEF Call
<1>2. ASSUME NEW t \in Threads, Acquire(t) PROVE Rest'
  BY <1>2 DEF Acquire
<1>3. ASSUME NEW t \in Threads, OpenFrame(t) PROVE Rest'
  BY <1>3 DEF OpenFrame
<1>4. ASSUME NEW t \in Threads, OpenThrows(t) PROVE Rest'
  BY <1>4 DEF OpenThrows
<1>5. ASSUME NEW t \in Threads, Fill(t) PROVE Rest'
  BY <1>5 DEF Fill
<1>6. ASSUME NEW t \in Threads, CallbackThrows(t) PROVE Rest'
  BY <1>6 DEF CallbackThrows
<1>7. ASSUME NEW t \in Threads, StoreLength(t) PROVE Rest'
  BY <1>7 DEF StoreLength, Closing
<1>8. ASSUME NEW t \in Threads, AdvanceAddress(t) PROVE Rest'
  BY <1>8 DEF AdvanceAddress, Closing
<1>9. ASSUME NEW t \in Threads, Release(t) PROVE Rest'
  BY <1>9 DEF Release
<1>10. CASE UNCHANGED vars
  BY <1>10 DEF vars
<1> QED
  BY <1>0, <1>1, <1>2, <1>3, <1>4, <1>5, <1>6, <1>7, <1>8, <1>9, <1>10
  DEF Next, Inside

\* The discipline of writing_ for every number of threads and whatever throws:
\* one thread at a time is between openData's exchange and closeData's store, the
\* frame it works on is its own, and nothing from the frontier on is committed.
THEOREM LockDiscipline == Spec => []LockInv
  BY LockInit, LockNext, PTL DEF Spec

\* Committed frames of a shared JournalWriter are whole, for every number of
\* threads: each holds the payload of the one thread that opened and closed it.
THEOREM FramesWhole == Spec => []WholeFrames
<1>1. LockInv => WholeFrames
  BY DEF LockInv
<1> QED
  BY <1>1, LockDiscipline, PTL

-----------------------------------------------------------------------------
Value == [policy : Policies, priority : Nat] \cup SUBSET Cores
Scope == [kind : Kinds, saved : Value, on : BOOLEAN]

ScopesTypeOK ==
  /\ attr \in [Kinds -> Value] /\ outside \in [Kinds -> Value]
  /\ scopes \in Seq(Scope) /\ spoilt \subseteq Kinds

\* What callers ask for is a value of the kind.
LEMMA RequestsAreValues ==
  ASSUME NEW kind \in Kinds PROVE Requests(kind) \subseteq Value
<1>1. CASE kind = "sched"
  BY <1>1, ScopesAssumption DEF Requests, Value, Policies, Realtime
<1>2. CASE kind = "cores"
  BY <1>2 DEF Requests, Value
<1> QED
  BY <1>1, <1>2 DEF Kinds

\* What a getter answers is one too.
LEMMA ReadingsAreValues ==
  ASSUME NEW kind \in Kinds, ScopesTypeOK PROVE Readings(kind) \subseteq Value
<1>1. attr["sched"] \in Value /\ attr["cores"] \in Value
  BY DEF ScopesTypeOK, Kinds
<1>2. NORMAL \in Value /\ {} \in Value
  BY DEF NORMAL, Value, Policies
<1> QED
  BY <1>1, <1>2 DEF Readings, getCurrentPriority, getCurrentAffinity

\* At first no object is alive.
LEMMA ScopesInit ==
  ASSUME ScopesStart PROVE ScopesTypeOK /\ ScopeInv
<1>1. PICK sched \in FirstAttributes("sched"), cores \in FirstAttributes("cores") :
        attr = [kind \in Kinds |-> IF kind = "sched" THEN sched ELSE cores]
  BY DEF ScopesStart
<1>2. sched \in [policy : Policies, priority : Nat]
  BY ScopesAssumption DEF FirstAttributes, Policies, Realtime
<1>3. cores \in SUBSET Cores
  BY DEF FirstAttributes
<1>4. attr \in [Kinds -> Value]
  BY <1>1, <1>2, <1>3 DEF Value
<1>5. outside = attr /\ scopes = <<>> /\ spoilt = {}
  BY DEF ScopesStart
<1>6. ScopesTypeOK
  BY <1>4, <1>5 DEF ScopesTypeOK
<1> QED
  BY <1>5, <1>6 DEF ScopeInv, KindInv, NoneEffective

\* Every construction, destruction and direct call keeps the invariant.
LEMMA ScopesNext ==
  ASSUME ScopesTypeOK, ScopeInv, [ScopesStep]_scopeVars
  PROVE  (ScopesTypeOK /\ ScopeInv)'
<1> USE DEF ScopesTypeOK
<1>1. ASSUME NEW kind \in Kinds, Enter(kind) PROVE (ScopesTypeOK /\ ScopeInv)'
  <2>1. PICK saved \in Readings(kind), request \in Requests(kind), ok \in BOOLEAN :
          /\ attr' = IF ok THEN [attr EXCEPT ![kind] = request] ELSE attr
          /\ scopes' = Append(scopes, [kind |-> kind, saved |-> saved, on |-> ok])
          /\ spoilt' = IF ok /\ Spoils(kind, saved) THEN spoilt \cup {kind} ELSE spoilt
    BY <1>1 DEF Enter
  <2> DEFINE s == [kind |-> kind, saved |-> saved, on |-> ok]
  <2>2. s \in Scope /\ outside' = outside
    BY <1>1, ReadingsAreValues DEF Scope, Enter
  <2>3. ScopesTypeOK'
    BY <2>1, <2>2, RequestsAreValues
  <2>4. /\ Len(scopes') = Len(scopes) + 1 /\ scopes'[Len(scopes) + 1] = s
        /\ \A i \in 1 .. Len(scopes) : scopes'[i] = scopes[i]
    BY <2>1, <2>2
  <2>5. \A k \in Kinds : k # kind \/ ~ok => attr'[k] = attr[k]
    BY <2>1
  <2>6. ASSUME NEW k \in Kinds, Settable(k, outside[k]) PROVE Settable(k, outside[k])'
    BY <2>2, <2>6 DEF Settable, InRange
  <2>7. ASSUME NEW k \in Kinds PROVE KindInv(k)'
    <3>1. CASE NoneEffective(k) /\ attr[k] = outside[k] /\ (k # kind \/ ~ok)
      <4>1. NoneEffective(k)'
        BY <2>4, <3>1 DEF NoneEffective, Effective
      <4> QED
        BY <2>2, <2>5, <3>1, <4>1 DEF KindInv
    <3>2. CASE NoneEffective(k) /\ attr[k] = outside[k] /\ k = kind /\ ok /\ ~Spoils(k, saved)
      <4>1. PICK n \in Nat : n = Len(scopes)
        OBVIOUS
      <4>2. saved = outside[k] /\ Settable(k, outside[k])
        BY <3>2 DEF Spoils
      <4>3. OutermostSaved(k, n + 1)'
        <5>1. Effective(k, n + 1)' /\ scopes'[n + 1].saved = outside'[k]
          BY <2>2, <2>4, <3>2, <4>1, <4>2 DEF Effective
        <5>2. \A j \in 1 .. n : ~Effective(k, j)'
          BY <2>4, <3>2, <4>1 DEF NoneEffective, Effective
        <5>3. 1 .. (n + 1) - 1 = 1 .. n
          BY <4>1
        <5> QED
          BY <5>1, <5>2, <5>3 DEF OutermostSaved
      <4> QED
        BY <2>4, <2>6, <4>1, <4>2, <4>3 DEF KindInv
    <3>3. ASSUME NEW i \in 1 .. Len(scopes), OutermostSaved(k, i), Settable(k, outside[k])
          PROVE  KindInv(k)'
      <4>1. OutermostSaved(k, i)'
        BY <2>2, <2>4, <3>3 DEF OutermostSaved, Effective
      <4> QED
        BY <2>4, <2>6, <3>3, <4>1 DEF KindInv
    <3>4. CASE k \in spoilt \/ (k = kind /\ ok /\ Spoils(k, saved))
      BY <2>1, <3>4 DEF KindInv
    <3> QED
      BY <2>7, <3>1, <3>2, <3>3, <3>4 DEF ScopeInv, KindInv
  <2> QED
    BY <2>3, <2>7 DEF ScopeInv
<1>2. CASE Leave
  <2> DEFINE n == Len(scopes) - 1
  <2> DEFINE s == scopes[Len(scopes)]
  <2> DEFINE failed == /\ attr' = attr
                       /\ spoilt' = IF Outermost(Len(scopes)) THEN spoilt \cup {s.kind}
                                                              ELSE spoilt
  <2>1. /\ scopes # <<>> /\ outside' = outside
        /\ scopes' = SubSeq(scopes, 1, n)
    BY <1>2 DEF Leave
  <2>2. s \in Scope /\ Len(scopes) = n + 1 /\ n \in Nat
    BY <2>1
  <2>3. /\ Len(scopes') = n /\ scopes' \in Seq(Scope)
        /\ \A i \in 1 .. n : scopes'[i] = scopes[i]
    <3>1. \A i \in 1 .. n : scopes[i] \in Scope
      BY <2>2
    <3> QED
      BY <2>1, <2>2, <3>1, SubSeqProperties
  <2>4. \/ /\ attr' = IF s.on /\ Settable(s.kind, s.saved)
                        THEN [attr EXCEPT ![s.kind] = s.saved] ELSE attr
           /\ spoilt' = spoilt
        \/ failed
    BY <1>2 DEF Leave, Restores
  <2>5. ScopesTypeOK' /\ spoilt \subseteq spoilt'
    BY <2>1, <2>2, <2>3, <2>4 DEF Scope
  <2>6. ASSUME NEW k \in Kinds, ~Effective(k, n + 1) PROVE attr'[k] = attr[k]
    BY <2>4, <2>2, <2>6 DEF Scope, Effective
  <2>7. ASSUME NEW k \in Kinds, Settable(k, outside[k]) PROVE Settable(k, outside[k])'
    BY <2>1, <2>7 DEF Settable, InRange
  <2>8. ASSUME NEW k \in Kinds PROVE KindInv(k)'
    <3>1. CASE NoneEffective(k) /\ attr[k] = outside[k]
      <4>1. NoneEffective(k)' /\ ~Effective(k, n + 1)
        BY <2>2, <2>3, <3>1 DEF NoneEffective, Effective
      <4> QED
        BY <2>1, <2>6, <3>1, <4>1 DEF KindInv
    <3>2. ASSUME OutermostSaved(k, n + 1), Settable(k, outside[k]) PROVE KindInv(k)'
      <4>1. s.on /\ s.kind = k /\ s.saved = outside[k] /\ Outermost(Len(scopes))
        BY <2>2, <3>2 DEF OutermostSaved, Effective, Outermost
      <4>2. CASE failed
        BY <4>1, <4>2 DEF KindInv
      <4>3. CASE ~failed
        <5>1. attr'[k] = outside[k]
          BY <2>2, <2>4, <3>2, <4>1, <4>3 DEF Scope
        <5>2. NoneEffective(k)'
          BY <2>2, <2>3, <3>2 DEF OutermostSaved, NoneEffective, Effective
        <5> QED
          BY <2>1, <5>1, <5>2 DEF KindInv
      <4> QED
        BY <4>2, <4>3
    <3>3. ASSUME NEW i \in 1 .. n, OutermostSaved(k, i), Settable(k, outside[k])
          PROVE  KindInv(k)'
      <4>1. OutermostSaved(k, i)'
        BY <2>1, <2>2, <2>3, <3>3 DEF OutermostSaved, Effective
      <4> QED
        BY <2>3, <2>7, <3>3, <4>1 DEF KindInv
    <3>4. CASE k \in spoilt
      BY <2>5, <3>4 DEF KindInv
    <3> QED
      BY <2>2, <2>8, <3>1, <3>2, <3>3, <3>4 DEF ScopeInv, KindInv
  <2> QED
    BY <2>5, <2>8 DEF ScopeInv
<1>3. ASSUME NEW kind \in Kinds, SetDirectly(kind) PROVE (ScopesTypeOK /\ ScopeInv)'
  <2>1. PICK request : /\ attr' = [attr EXCEPT ![kind] = request]
                       /\ request \in Value
    <3>1. IF kind = "sched" THEN NORMAL \in Value ELSE Cores \in Value
      BY DEF NORMAL, Value, Policies
    <3> QED
      BY <1>3, <3>1, RequestsAreValues DEF SetDirectly
  <2>2. /\ outside' = IF NoneEffective(kind) THEN [outside EXCEPT ![kind] = attr'[kind]]
                                             ELSE outside
        /\ spoilt' = IF NoneEffective(kind) THEN spoilt \ {kind} ELSE spoilt
        /\ scopes' = scopes
    BY <1>3 DEF SetDirectly
  <2>3. ScopesTypeOK'
    BY <2>1, <2>2
  <2>4. ASSUME NEW k \in Kinds PROVE KindInv(k)'
    <3>1. CASE k = kind /\ NoneEffective(k)
      <4>1. attr'[k] = outside'[k] /\ NoneEffective(k)'
        BY <2>1, <2>2, <3>1 DEF NoneEffective, Effective
      <4> QED
        BY <4>1 DEF KindInv
    <3>2. CASE ~(k = kind /\ NoneEffective(k))
      <4>1. outside'[k] = outside[k] /\ (k \in spoilt => k \in spoilt')
        BY <2>1, <2>2, <3>2
      <4>2. NoneEffective(k) => attr'[k] = attr[k]
        BY <2>1, <3>2
      <4> QED
        BY <2>2, <4>1, <4>2 DEF ScopeInv, KindInv, Settable, InRange, NoneEffective,
                                OutermostSaved, Effective
    <3> QED
      BY <3>1, <3>2
  <2> QED
    BY <2>3, <2>4 DEF ScopeInv
<1>4. CASE UNCHANGED scopeVars
  BY <1>4 DEF scopeVars, ScopeInv, KindInv, Settable, InRange, NoneEffective, OutermostSaved,
             Effective
<1> QED
  BY <1>1, <1>2, <1>3, <1>4 DEF ScopesStep, ScopedRealtimePriority, ScopedCpuPin, Kinds

\* Nested ScopedRealtimePriority and ScopedCpuPin objects give the thread back what
\* it had outside of them, for every nesting, whichever calls fail, whatever policy it
\* began with and whenever it sets its attributes directly; only an outermost object
\* that could not save or restore, which spoilt names, leaves something behind.
THEOREM ScopesRestore == ScopesSpec => []UnwindRestores
<1>1. ScopesStart => ScopesTypeOK /\ ScopeInv
  BY ScopesInit
<1>2. ScopesTypeOK /\ ScopeInv /\ [ScopesStep]_scopeVars => (ScopesTypeOK /\ ScopeInv)'
  BY ScopesNext
<1>3. ScopesTypeOK /\ ScopeInv => UnwindRestores
  BY DEF UnwindRestores, ScopesTypeOK, ScopeInv, KindInv, NoneEffective, OutermostSaved
<1> QED
  BY <1>1, <1>2, <1>3, PTL DEF ScopesSpec
=============================================================================
