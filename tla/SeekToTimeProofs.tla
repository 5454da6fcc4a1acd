-------------------------- MODULE SeekToTimeProofs --------------------------
(***************************************************************************)
(* seekToTime misses nothing, for any number of pages and frames and while *)
(* the writer goes on, as long as callers take no liberties: gen_times     *)
(* come from the sentinels' clock, a page begins after the last one ends,  *)
(* and nobody seeks back on the page he is on.                             *)
(***************************************************************************)
EXTENDS SeekToTime, SequenceTheorems, TLAPS

-----------------------------------------------------------------------------
(* The inductive invariant. *)

SeekTypeOK ==
  /\ times \in [Pages -> Seq(Times)]
  /\ sentinel \in [Pages -> Nat]
  /\ listed \in Pages /\ current \in 1 .. listed
  /\ pc \in {"idle", "search", "load", "pages", "frames"}
  /\ page \in 0 .. current /\ pos \in Nat
  /\ timestamp \in Nat
  /\ left \in Nat /\ right \in Nat /\ best \in Nat
  /\ wanted \subseteq Pages \X (1 .. PageFrames)

\* Pages become full only when the writer leaves them.
FullIsLeft ==
  /\ full \in [Pages -> BOOLEAN]
  /\ \A p \in Pages : full[p] => p < current

\* No page after the writer's has frames; the pages before it have sentinels.
PagesInOrder ==
  /\ \A p \in Pages : p > current => times[p] = <<>>
  /\ \A p \in Pages : p >= current <=> sentinel[p] = 0

\* gen_times rise from page to page, and a sentinel's lies between those of the
\* frames before and after it.
TimesRise ==
  /\ \A p, q \in Pages : \A i \in 1 .. Len(times[p]), j \in 1 .. Len(times[q]) :
       p < q => times[p][i] < times[q][j]
  /\ \A p, q \in Pages : \A j \in 1 .. Len(times[q]) :
       p < q => sentinel[p] <= times[q][j]
  /\ \A p \in Pages : \A i \in 1 .. Len(times[p]) :
       sentinel[p] # 0 => times[p][i] <= sentinel[p]

\* The reader is at a frame, a sentinel or the end of its page.
Placed ==
  /\ page # 0 => pos \in 1 .. Len(times[page]) + 1
  /\ pc \in {"pages", "frames"} => page # 0

\* The frames a seek is after are there, and not older than its time.
WantedThere ==
  \A w \in wanted : /\ w[2] \in 1 .. Len(times[w[1]])
                    /\ times[w[1]][w[2]] >= timestamp

\* The binary search stays on the list of pages, and the page it has chosen
\* begins no later than the time sought.
SearchSound ==
  pc \in {"search", "load"} =>
    /\ left \in 1 .. MaxPages + 1 /\ right <= listed
    /\ best \in 1 .. current
    /\ best = 1 \/ (times[best] # <<>> /\ times[best][1] <= timestamp)
    /\ \A w \in wanted : w[1] = page => w[2] >= pos

\* From the load on, the reader is not past anything it is after.
NothingPassed ==
  pc \notin {"search", "load"} => \A w \in wanted : ~Before(w[1], w[2], page, pos)

SeekInv == /\ SeekTypeOK /\ FullIsLeft /\ PagesInOrder /\ TimesRise /\ Placed /\ WantedThere
           /\ SearchSound /\ NothingPassed

-----------------------------------------------------------------------------
(* The invariant is inductive. *)

\* Before anything is written.
LEMMA SeekInit == Init => SeekInv
<1> SUFFICES ASSUME Init PROVE SeekInv
  OBVIOUS
<1> USE SeekAssumption DEF Init, Pages
<1>1. SeekTypeOK
  BY DEF SeekTypeOK
<1>2. PagesInOrder /\ TimesRise /\ Placed
  BY DEF PagesInOrder, TimesRise, Placed
<1>4. FullIsLeft
  BY DEF FullIsLeft
<1>3. WantedThere /\ SearchSound /\ NothingPassed
  BY DEF WantedThere, SearchSound, NothingPassed
<1> QED BY <1>1, <1>2, <1>3, <1>4 DEF SeekInv

\* The page the search looks at is one of those it still considers.
LEMMA Middle ==
  ASSUME NEW l \in Nat, NEW r \in Nat, l <= r
  PROVE  /\ l + (r - l) \div 2 \in Nat
         /\ l <= l + (r - l) \div 2 /\ l + (r - l) \div 2 <= r
OBVIOUS

\* The journal's variables, page by page.
LEMMA Shape ==
  ASSUME SeekInv
  PROVE  /\ MaxPages \in Nat /\ current \in Nat /\ listed \in Nat
         /\ current \in Pages /\ current <= listed /\ listed <= MaxPages
         /\ page \in Nat /\ page <= current /\ (page # 0 => page \in Pages)
         /\ \A p \in Pages : /\ p \in Nat
                             /\ times[p] \in Seq(Times) /\ Len(times[p]) \in Nat
                             /\ DOMAIN times[p] = 1 .. Len(times[p])
                             /\ sentinel[p] \in Nat
         /\ \A p \in Pages : \A i \in 1 .. Len(times[p]) : times[p][i] \in Nat
         /\ \A w \in wanted : w[1] \in Pages /\ w[2] \in Nat
<1> USE SeekAssumption DEF SeekInv, SeekTypeOK, Pages
<1>1. /\ MaxPages \in Nat /\ current \in Nat /\ listed \in Nat
      /\ current \in Pages /\ current <= listed /\ listed <= MaxPages
      /\ page \in Nat /\ page <= current /\ (page # 0 => page \in Pages)
  OBVIOUS
<1>2. ASSUME NEW p \in Pages
      PROVE  /\ p \in Nat /\ times[p] \in Seq(Times) /\ Len(times[p]) \in Nat
             /\ DOMAIN times[p] = 1 .. Len(times[p]) /\ sentinel[p] \in Nat
  OBVIOUS
<1>3. ASSUME NEW p \in Pages, NEW i \in 1 .. Len(times[p])
      PROVE  times[p][i] \in Nat
  BY SMTT(30), <1>2 DEF Times
<1>4. ASSUME NEW w \in wanted
      PROVE  w[1] \in Pages /\ w[2] \in Nat
  <2>1. w \in Pages \X (1 .. PageFrames)
    OBVIOUS
  <2> QED BY <2>1
<1> QED BY <1>1, <1>2, <1>3, <1>4

\* The writer appends a frame.
LEMMA WriteKeeps ==
  ASSUME Liberties = {}, SeekInv, Write
  PROVE  SeekInv'
<1> USE DEF Pages
<1>1. PICK t \in Times :
        /\ SinceFrames(t) /\ SinceSentinels(t)
        /\ times[current] = <<>> => AfterFrames(t)
        /\ times' = [times EXCEPT ![current] = Append(@, t)]
  <2>1. PICK t \in Times :
          /\ SinceFrames(t)
          /\ (times[current] = <<>> /\ "tie" \notin Liberties) => AfterFrames(t)
          /\ "clock" \in Liberties \/ SinceSentinels(t)
          /\ times' = [times EXCEPT ![current] = Append(@, t)]
    BY DEF Write
  <2>2. "tie" \notin Liberties /\ "clock" \notin Liberties
    OBVIOUS
  <2> QED BY <2>1, <2>2
<1>2. /\ UNCHANGED <<sentinel, full, listed, current, pc, page, pos, timestamp, left,
                     right, best, wanted>>
  BY DEF Write, searchVars
<1>3. current \in Pages /\ t \in Nat
  BY <1>1, Shape DEF Times
<1>4. times' \in [Pages -> Seq(Times)]
  BY <1>1, <1>3 DEF SeekInv, SeekTypeOK
<1>5. /\ Len(times[current]) \in Nat
      /\ Len(times'[current]) = Len(times[current]) + 1
      /\ times'[current][Len(times[current]) + 1] = t
      /\ \A i \in 1 .. Len(times[current]) : times'[current][i] = times[current][i]
      /\ \A p \in Pages : p # current => times'[p] = times[p]
  BY <1>1, <1>3 DEF SeekInv, SeekTypeOK
<1>6. ASSUME NEW p \in Pages
      PROVE  /\ Len(times[p]) \in Nat /\ Len(times[p]) <= Len(times'[p])
             /\ \A i \in 1 .. Len(times[p]) : times'[p][i] = times[p][i]
             /\ \A i \in 1 .. Len(times[p]) : times[p][i] \in Nat /\ times[p][i] <= t
             /\ \A i \in 1 .. Len(times'[p]) :
                  \/ i \in 1 .. Len(times[p])
                  \/ p = current /\ times'[p][i] = t
             /\ sentinel[p] \in Nat /\ sentinel[p] <= t
  <2>1. times[p] \in Seq(Times) /\ sentinel[p] \in Nat
    BY DEF SeekInv, SeekTypeOK
  <2>2. \A i \in 1 .. Len(times[p]) : times[p][i] \in Nat /\ times[p][i] <= t
    BY <1>1, Shape DEF SinceFrames
  <2>3. sentinel[p] <= t
    BY <1>1 DEF SinceSentinels
  <2>4. CASE p = current
    BY <1>5, <2>1, <2>2, <2>3, <2>4
  <2>5. CASE p # current
    BY <1>5, <2>1, <2>2, <2>3, <2>5
  <2> QED BY <2>4, <2>5
<1>7. SeekTypeOK'
  BY <1>2, <1>4 DEF SeekInv, SeekTypeOK
<1>8. PagesInOrder'
  BY <1>2, <1>3, <1>5 DEF SeekInv, PagesInOrder
<1>14. FullIsLeft'
  BY <1>2 DEF SeekInv, FullIsLeft
<1>9. TimesRise'
  <2>1. ASSUME NEW p \in Pages, NEW q \in Pages, p < q,
               NEW i \in 1 .. Len(times'[p]), NEW j \in 1 .. Len(times'[q])
        PROVE  times'[p][i] < times'[q][j]
    <3>1. p # current /\ i \in 1 .. Len(times[p]) /\ times'[p][i] = times[p][i]
      <4>1. q <= current
        BY <1>2, <1>3, <1>8, <2>1 DEF PagesInOrder
      <4> QED BY <1>3, <1>5, <2>1, <4>1
    <3>2. CASE j \in 1 .. Len(times[q])
      BY <1>6, <2>1, <3>1, <3>2 DEF SeekInv, TimesRise
    <3>3. CASE q = current /\ times'[q][j] = t /\ times[current] = <<>>
      BY <1>1, <1>6, <3>1, <3>3 DEF AfterFrames
    <3>4. CASE q = current /\ times'[q][j] = t /\ times[current] # <<>>
      <4>1. 1 \in 1 .. Len(times[q]) /\ times[p][i] < times[q][1] /\ times[q][1] <= t
        BY SMTT(30), <1>5, <1>6, <2>1, <3>1, <3>4 DEF SeekInv, TimesRise, SeekTypeOK
      <4> QED BY <1>3, <1>6, <3>1, <3>4, <4>1
    <3> QED BY <1>6, <2>1, <3>2, <3>3, <3>4
  <2>2. ASSUME NEW p \in Pages, NEW q \in Pages, p < q, NEW j \in 1 .. Len(times'[q])
        PROVE  sentinel'[p] <= times'[q][j]
    BY <1>2, <1>6, <2>2 DEF SeekInv, TimesRise
  <2>3. ASSUME NEW p \in Pages, NEW i \in 1 .. Len(times'[p]), sentinel'[p] # 0
        PROVE  times'[p][i] <= sentinel'[p]
    <3>1. p # current
      BY <1>2, <1>3, <2>3 DEF SeekInv, PagesInOrder
    <3> QED BY <1>2, <1>6, <2>3, <3>1 DEF SeekInv, TimesRise
  <2> QED BY <2>1, <2>2, <2>3 DEF TimesRise
<1>10. Placed'
  <2>1. ASSUME page # 0 PROVE pos \in 1 .. Len(times'[page]) + 1
    <3>1. /\ page \in Pages /\ pos \in 1 .. Len(times[page]) + 1
      BY <2>1, Shape DEF SeekInv, Placed
    <3>2. Len(times'[page]) \in Nat
      BY <1>4, <3>1
    <3> QED BY <1>6, <3>1, <3>2
  <2> QED BY <1>2, <2>1 DEF SeekInv, Placed
<1>11. WantedThere'
  <2> SUFFICES ASSUME NEW w \in wanted
               PROVE  /\ w[2] \in 1 .. Len(times'[w[1]])
                      /\ times'[w[1]][w[2]] >= timestamp
    BY <1>2 DEF WantedThere
  <2>1. w[1] \in Pages
    BY DEF SeekInv, SeekTypeOK
  <2>2. w[2] \in 1 .. Len(times[w[1]]) /\ times[w[1]][w[2]] >= timestamp
    BY DEF SeekInv, WantedThere
  <2> QED BY <1>6, <2>1, <2>2
<1>12. SearchSound'
  <2> SUFFICES ASSUME pc \in {"search", "load"}, best # 1
               PROVE  times'[best] # <<>> /\ times'[best][1] <= timestamp
    BY <1>2 DEF SeekInv, SearchSound
  <2>1. best \in Pages /\ times[best] # <<>> /\ times[best][1] <= timestamp
    BY Shape DEF SeekInv, SearchSound
  <2>2. 1 \in 1 .. Len(times[best])
    BY <2>1 DEF SeekInv, SeekTypeOK
  <2> QED BY <1>4, <1>6, <2>1, <2>2
<1>13. NothingPassed'
  BY <1>2 DEF SeekInv, NothingPassed, Before
<1> QED BY <1>7, <1>8, <1>9, <1>10, <1>11, <1>12, <1>13, <1>14 DEF SeekInv

\* A page is prepared ahead.
LEMMA PrepareKeeps ==
  ASSUME SeekInv, Prepare
  PROVE  SeekInv'
<1> USE DEF Pages
<1>1. /\ listed' = listed + 1 /\ listed < MaxPages
      /\ UNCHANGED <<times, sentinel, full, current, pc, page, pos, timestamp, left, right,
                     best, wanted>>
  BY DEF Prepare, searchVars
<1>2. SeekTypeOK'
  BY SMTT(30), <1>1, Shape DEF SeekInv, SeekTypeOK
<1>3. FullIsLeft'
  BY <1>1 DEF SeekInv, FullIsLeft
<1>4. PagesInOrder' /\ TimesRise' /\ Placed' /\ WantedThere'
  BY <1>1 DEF SeekInv, PagesInOrder, TimesRise, Placed, WantedThere
<1>5. SearchSound'
  BY <1>1, Shape DEF SeekInv, SearchSound, SeekTypeOK
<1>6. NothingPassed'
  BY <1>1 DEF SeekInv, NothingPassed, Before
<1> QED BY <1>2, <1>3, <1>4, <1>5, <1>6 DEF SeekInv

\* The writer leaves its page.
LEMMA RotateKeeps ==
  ASSUME Liberties = {}, SeekInv, Rotate
  PROVE  SeekInv'
<1> USE DEF Pages
<1>1. PICK t \in Times, f \in BOOLEAN :
        /\ "clock" \in Liberties \/ SinceFrames(t)
        /\ sentinel' = [sentinel EXCEPT ![current] = t]
        /\ full' = [full EXCEPT ![current] = f]
  BY DEF Rotate
<1>2. /\ times[current] # <<>> /\ current < listed /\ current' = current + 1
      /\ UNCHANGED <<times, listed, pc, page, pos, timestamp, left, right, best, wanted>>
  BY DEF Rotate, searchVars
<1>3. t \in Nat /\ t # 0 /\ SinceFrames(t)
  BY <1>1, SeekAssumption DEF Times
<1>4. sentinel' \in [Pages -> Nat]
  BY <1>1, <1>3, Shape DEF SeekInv, SeekTypeOK
<1>5. SeekTypeOK'
  BY <1>2, <1>4, Shape DEF SeekInv, SeekTypeOK
<1>6. /\ sentinel'[current] = t
      /\ \A p \in Pages : p # current => sentinel'[p] = sentinel[p]
  BY <1>1, Shape DEF SeekInv, SeekTypeOK
<1>7. FullIsLeft'
  <2>1. full' \in [Pages -> BOOLEAN]
    BY <1>1 DEF SeekInv, FullIsLeft
  <2>2. \A p \in Pages : p # current => (full'[p] <=> full[p])
    BY <1>1 DEF SeekInv, FullIsLeft
  <2>3. ASSUME NEW p \in Pages, p # current, full'[p]
        PROVE  p < current
    BY <2>2, <2>3 DEF SeekInv, FullIsLeft
  <2>4. \A p \in Pages : full'[p] => p < current'
    <3>1. \A p \in Pages : p < current \/ p = current => p < current'
      BY <1>2, Shape
    <3> QED BY <2>3, <3>1
  <2> QED BY <2>1, <2>4 DEF FullIsLeft
<1>8. PagesInOrder'
  <2>1. ASSUME NEW p \in Pages
        PROVE  /\ p > current' => times'[p] = <<>>
               /\ p >= current' <=> sentinel'[p] = 0
    <3>1. CASE p = current
      BY <1>2, <1>3, <1>6, <3>1, Shape
    <3>2. CASE p # current
      BY <1>2, <1>6, <3>2, Shape DEF SeekInv, PagesInOrder
    <3> QED BY <3>1, <3>2
  <2> QED BY <2>1 DEF PagesInOrder
<1>9. TimesRise'
  <2>1. ASSUME NEW p \in Pages, NEW q \in Pages, p < q, NEW j \in 1 .. Len(times[q])
        PROVE  sentinel'[p] <= times[q][j]
    <3>1. CASE p = current
      BY <2>1, <3>1, Shape DEF SeekInv, PagesInOrder
    <3>2. CASE p # current
      BY <1>6, <2>1, <3>2 DEF SeekInv, TimesRise
    <3> QED BY <3>1, <3>2
  <2>2. ASSUME NEW p \in Pages, NEW i \in 1 .. Len(times[p]), sentinel'[p] # 0
        PROVE  times[p][i] <= sentinel'[p]
    <3>1. CASE p = current
      BY <1>3, <1>6, <3>1, Shape DEF SinceFrames
    <3>2. CASE p # current
      BY <1>6, <2>2, <3>2 DEF SeekInv, TimesRise
    <3> QED BY <3>1, <3>2
  <2> QED BY <1>2, <2>1, <2>2 DEF SeekInv, TimesRise
<1>10. Placed' /\ WantedThere'
  BY <1>2 DEF SeekInv, Placed, WantedThere
<1>11. SearchSound'
  BY <1>2, Shape DEF SeekInv, SearchSound
<1>12. NothingPassed'
  BY <1>2 DEF SeekInv, NothingPassed, Before
<1> QED BY <1>5, <1>7, <1>8, <1>9, <1>10, <1>11, <1>12 DEF SeekInv

\* What Journal::next does to the reader's place, with data to read.
LEMMA MovesOn ==
  ASSUME SeekInv, page # 0, HasData, MoveOn
  PROVE  /\ page' \in 1 .. current /\ pos' \in Nat
         /\ page' # 0 /\ pos' \in 1 .. Len(times[page']) + 1
         /\ pos = Len(times[page]) + 1 => sentinel[page] # 0 /\ page' = page + 1 /\ pos' = 1
         /\ pos # Len(times[page]) + 1 => page' = page /\ pos' = pos + 1
<1>1. /\ page \in Pages /\ pos \in 1 .. Len(times[page]) + 1 /\ Len(times[page]) \in Nat
      /\ times[page] \in Seq(Times)
  BY Shape DEF SeekInv, Placed
<1>2. CASE pos = Len(times[page]) + 1
  <2>1. sentinel[page] # 0
    BY <1>1, <1>2 DEF HasData, FramesOf
  <2>2. page < current
    BY <1>1, <2>1, Shape DEF SeekInv, PagesInOrder
  <2>3. page' = page + 1 /\ pos' = 1
    BY <1>2 DEF MoveOn, AtSentinel
  <2>4. page + 1 \in Pages
    BY <1>1, <2>2, Shape DEF Pages
  <2>5. Len(times[page + 1]) \in Nat
    BY <2>4, Shape
  <2> QED BY <1>1, <1>2, <2>1, <2>2, <2>3, <2>5, Shape
<1>3. CASE pos # Len(times[page]) + 1
  <2>1. page' = page /\ pos' = pos + 1
    BY <1>3 DEF MoveOn, AtSentinel
  <2> QED BY <1>1, <1>3, <2>1, Shape DEF Pages
<1> QED BY <1>2, <1>3

\* What the steps of the reader leave as it is.
LEMMA ReaderKeeps ==
  ASSUME SeekInv, UNCHANGED journalVars
  PROVE  FullIsLeft' /\ PagesInOrder' /\ TimesRise'
<1>1. UNCHANGED <<times, sentinel, listed, current>>
  BY DEF journalVars
<1>2. UNCHANGED <<full, current>>
  BY DEF journalVars
<1>3. FullIsLeft'
  BY <1>2 DEF SeekInv, FullIsLeft
<1>4. PagesInOrder' /\ TimesRise'
  BY <1>1 DEF SeekInv, PagesInOrder, TimesRise
<1> QED BY <1>3, <1>4

\* The reader takes a frame.
LEMMA ReadNextKeeps ==
  ASSUME SeekInv, ReadNext
  PROVE  SeekInv'
<1>1. /\ pc = "idle" /\ page # 0 /\ HasData /\ MoveOn /\ wanted' = {}
      /\ UNCHANGED journalVars
      /\ UNCHANGED <<times, sentinel, listed, current, pc, timestamp, left, right, best>>
  BY DEF ReadNext, journalVars, searchVars
<1>2. FullIsLeft' /\ PagesInOrder' /\ TimesRise'
  BY <1>1, ReaderKeeps
<1>3. /\ page' \in 1 .. current /\ pos' \in Nat
      /\ page' # 0 /\ pos' \in 1 .. Len(times[page']) + 1
  BY <1>1, MovesOn
<1>4. SeekTypeOK'
  BY <1>1, <1>3, Shape DEF SeekInv, SeekTypeOK
<1>5. Placed'
  BY <1>1, <1>3 DEF Placed
<1>6. WantedThere' /\ SearchSound' /\ NothingPassed'
  BY <1>1 DEF WantedThere, SearchSound, NothingPassed
<1> QED BY <1>2, <1>4, <1>5, <1>6 DEF SeekInv

\* A seek begins.
LEMMA SeekKeeps ==
  ASSUME Liberties = {}, SeekInv, Seek
  PROVE  SeekInv'
<1>1. PICK t \in 0 .. MaxTime :
        /\ "back" \in Liberties
             \/ \A p \in Pages : \A i \in DOMAIN times[p] :
                  times[p][i] >= t /\ p = page => ~Before(p, i, page, pos)
        /\ timestamp' = t
        /\ wanted' = {w \in Pages \X (1 .. PageFrames) :
                        w[2] \in DOMAIN times[w[1]] /\ times[w[1]][w[2]] >= t}
        /\ pc' = IF t = 0 THEN "load" ELSE "search"
  BY DEF Seek
<1>2. /\ left' = 1 /\ right' = listed /\ best' = 1
      /\ UNCHANGED journalVars
      /\ UNCHANGED <<times, sentinel, listed, current, page, pos>>
  BY DEF Seek, journalVars
<1>3. FullIsLeft' /\ PagesInOrder' /\ TimesRise'
  BY <1>2, ReaderKeeps
<1>4. pc' \in {"search", "load"} /\ pc' # "pages" /\ pc' # "frames"
  BY <1>1
<1>5. wanted' \subseteq Pages \X (1 .. PageFrames)
  BY <1>1
<1>6. SeekTypeOK'
  BY <1>1, <1>2, <1>4, <1>5, Shape, SeekAssumption DEF SeekInv, SeekTypeOK
<1>7. Placed'
  BY <1>2, <1>4 DEF SeekInv, Placed
<1>8. ASSUME NEW w \in wanted'
      PROVE  /\ w[1] \in Pages /\ w[2] \in Nat
             /\ w[2] \in 1 .. Len(times[w[1]]) /\ times[w[1]][w[2]] >= t
             /\ w[1] = page => w[2] >= pos
  <2>1. /\ w \in Pages \X (1 .. PageFrames)
        /\ w[2] \in DOMAIN times[w[1]] /\ times[w[1]][w[2]] >= t
    BY <1>1
  <2>2. w[1] \in Pages /\ w[2] \in 1 .. Len(times[w[1]]) /\ w[2] \in Nat
    BY <2>1, Shape
  <2>3. w[1] = page => ~Before(w[1], w[2], page, pos)
    BY <1>1, <2>1, <2>2
  <2> QED BY <2>1, <2>2, <2>3 DEF Before, SeekInv, SeekTypeOK
<1>9. WantedThere'
  BY <1>1, <1>2, <1>8 DEF WantedThere
<1>10. SearchSound'
  BY <1>2, <1>8, Shape, SeekAssumption DEF SearchSound, Pages
<1>11. NothingPassed'
  BY <1>4 DEF NothingPassed
<1> QED BY <1>3, <1>6, <1>7, <1>9, <1>10, <1>11 DEF SeekInv

\* The search halves the list.
LEMMA ProbeKeeps ==
  ASSUME SeekInv, Probe
  PROVE  SeekInv'
<1> DEFINE mid == left + (right - left) \div 2
<1>1. /\ pc = "search" /\ left <= right
      /\ \/ /\ BeginTime(mid) # 0 /\ BeginTime(mid) <= timestamp
            /\ best' = mid /\ left' = mid + 1 /\ right' = right
         \/ right' = mid - 1 /\ left' = left /\ best' = best
      /\ UNCHANGED journalVars
      /\ UNCHANGED <<times, sentinel, listed, current, pc, page, pos, timestamp, wanted>>
  BY DEF Probe, journalVars
<1>2. FullIsLeft' /\ PagesInOrder' /\ TimesRise'
  BY <1>1, ReaderKeeps
<1>3. /\ left \in 1 .. MaxPages + 1 /\ right <= listed /\ right \in Nat
      /\ best \in 1 .. current
      /\ best = 1 \/ (times[best] # <<>> /\ times[best][1] <= timestamp)
      /\ \A w \in wanted : w[1] = page => w[2] >= pos
  BY <1>1 DEF SeekInv, SearchSound, SeekTypeOK
<1>4. mid \in Nat /\ left <= mid /\ mid <= right
  <2>1. left \in Nat
    BY <1>3 DEF SeekInv, SeekTypeOK
  <2> QED BY <1>1, <1>3, <2>1, Middle
<1> HIDE DEF mid
<1>5. mid \in Pages /\ mid <= listed
  BY <1>3, <1>4, Shape DEF Pages
<1>6. ASSUME BeginTime(mid) # 0, BeginTime(mid) <= timestamp
      PROVE  mid \in 1 .. current /\ times[mid] # <<>> /\ times[mid][1] <= timestamp
  <2>1. times[mid] # <<>> /\ times[mid][1] <= timestamp
    BY <1>5, <1>6, Shape DEF BeginTime
  <2>2. mid <= current
    BY <1>5, <2>1, Shape DEF SeekInv, PagesInOrder
  <2> QED BY <1>5, <2>1, <2>2, Shape DEF Pages
<1>7. /\ left' \in 1 .. MaxPages + 1 /\ right' \in Nat /\ right' <= listed
      /\ best' \in 1 .. current
      /\ best' = 1 \/ (times[best'] # <<>> /\ times[best'][1] <= timestamp)
  BY SMTT(30), <1>1, <1>3, <1>4, <1>5, <1>6, Shape DEF Pages
<1>8. SeekTypeOK'
  BY <1>1, <1>7, Shape DEF SeekInv, SeekTypeOK
<1>9. Placed' /\ WantedThere' /\ NothingPassed'
  BY <1>1 DEF SeekInv, Placed, WantedThere, NothingPassed
<1>10. SearchSound'
  BY <1>1, <1>3, <1>7 DEF SearchSound
<1> QED BY <1>2, <1>8, <1>9, <1>10 DEF SeekInv

\* The search is over.
LEMMA SearchEndKeeps ==
  ASSUME SeekInv, SearchEnd
  PROVE  SeekInv'
<1>1. /\ pc = "search" /\ pc' = "load"
      /\ UNCHANGED journalVars
      /\ UNCHANGED <<times, sentinel, listed, current, page, pos, timestamp, left, right,
                     best, wanted>>
  BY DEF SearchEnd, journalVars, searchVars
<1>2. FullIsLeft' /\ PagesInOrder' /\ TimesRise'
  BY <1>1, ReaderKeeps
<1>3. SeekTypeOK'
  BY <1>1 DEF SeekInv, SeekTypeOK
<1>4. Placed' /\ WantedThere' /\ SearchSound' /\ NothingPassed'
  BY <1>1 DEF SeekInv, Placed, WantedThere, SearchSound, NothingPassed
<1> QED BY <1>2, <1>3, <1>4 DEF SeekInv

\* The page the search chose is loaded: what is wanted lies on it or after it.
LEMMA LoadPageKeeps ==
  ASSUME SeekInv, LoadPage
  PROVE  SeekInv'
<1>1. /\ pc = "load" /\ page' = best /\ pos' = (IF page = best THEN pos ELSE 1)
      /\ pc' = "pages" /\ left' = 0 /\ right' = 0 /\ best' = 0
      /\ UNCHANGED journalVars
      /\ UNCHANGED <<times, sentinel, listed, current, timestamp, wanted>>
  BY DEF LoadPage, journalVars
<1>2. FullIsLeft' /\ PagesInOrder' /\ TimesRise'
  BY <1>1, ReaderKeeps
<1>3. /\ best \in 1 .. current
      /\ best = 1 \/ (times[best] # <<>> /\ times[best][1] <= timestamp)
      /\ \A w \in wanted : w[1] = page => w[2] >= pos
  BY <1>1 DEF SeekInv, SearchSound
<1>4. best \in Pages /\ best # 0 /\ best \in Nat
  BY <1>3, Shape DEF Pages
<1>5. pos' \in 1 .. Len(times[best]) + 1 /\ pos' \in Nat
  BY <1>1, <1>4, Shape DEF SeekInv, Placed
<1>6. SeekTypeOK'
  BY <1>1, <1>3, <1>4, <1>5, Shape DEF SeekInv, SeekTypeOK
<1>7. Placed'
  BY <1>1, <1>4, <1>5 DEF Placed
<1>8. WantedThere' /\ SearchSound'
  BY <1>1 DEF SeekInv, WantedThere, SearchSound
<1>9. ASSUME NEW w \in wanted
      PROVE  ~Before(w[1], w[2], best, pos')
  <2>1. /\ w[1] \in Pages /\ w[1] \in Nat /\ w[2] \in Nat
        /\ w[2] \in 1 .. Len(times[w[1]]) /\ times[w[1]][w[2]] >= timestamp
    BY Shape DEF SeekInv, WantedThere
  <2>2. ~(w[1] < best)
    <3> SUFFICES ASSUME w[1] < best PROVE FALSE
      OBVIOUS
    <3>1. best # 1
      BY <2>1 DEF Pages
    <3>2. 1 \in 1 .. Len(times[best]) /\ times[best][1] <= timestamp
      BY <1>3, <1>4, <3>1, Shape
    <3>3. times[w[1]][w[2]] < times[best][1]
      BY <1>4, <2>1, <3>2 DEF SeekInv, TimesRise
    <3>4. times[w[1]][w[2]] \in Nat /\ times[best][1] \in Nat /\ timestamp \in Nat
      BY <1>4, <2>1, <3>2, Shape DEF SeekInv, SeekTypeOK
    <3> QED BY SMTT(30), <2>1, <3>2, <3>3, <3>4
  <2>3. w[1] = best => ~(w[2] < pos')
    <3>1. CASE page = best
      BY <1>1, <1>3, <1>5, <2>1, <3>1
    <3>2. CASE page # best
      BY <1>1, <2>1, <3>2
    <3> QED BY <3>1, <3>2
  <2> QED BY <2>2, <2>3 DEF Before
<1>10. NothingPassed'
  BY <1>1, <1>9 DEF NothingPassed, Before
<1> QED BY <1>2, <1>6, <1>7, <1>8, <1>10 DEF SeekInv

\* A full page that ends too early is left: what is wanted is not on it.
LEMMA SkipPageKeeps ==
  ASSUME SeekInv, SkipPage
  PROVE  SeekInv'
<1>1. /\ pc = "pages" /\ pc' \in {"pages", "frames"}
      /\ \/ /\ page' = page + 1 /\ pos' = 1
            /\ full[page] /\ sentinel[page] < timestamp
         \/ page' = page /\ pos' = pos
      /\ UNCHANGED journalVars
      /\ UNCHANGED <<times, sentinel, listed, current, timestamp, left, right, best, wanted>>
  BY DEF SkipPage, EndTime, journalVars, searchVars
<1>2. FullIsLeft' /\ PagesInOrder' /\ TimesRise'
  BY <1>1, ReaderKeeps
<1>3. /\ page \in Pages /\ page \in Nat /\ page # 0
      /\ pos \in 1 .. Len(times[page]) + 1 /\ pos \in Nat
  BY <1>1, Shape DEF SeekInv, Placed, SeekTypeOK
<1>4. full[page] => page < current
  BY <1>3 DEF SeekInv, FullIsLeft
<1>5. CASE page' = page /\ pos' = pos
  <2>1. SeekTypeOK'
    BY <1>1, <1>5, Shape DEF SeekInv, SeekTypeOK
  <2>2. Placed' /\ WantedThere' /\ SearchSound'
    BY <1>1, <1>3, <1>5 DEF SeekInv, Placed, WantedThere, SearchSound
  <2>3. NothingPassed'
    BY <1>1, <1>5 DEF SeekInv, NothingPassed, Before
  <2> QED BY <1>2, <2>1, <2>2, <2>3 DEF SeekInv
<1>6. CASE page' = page + 1 /\ pos' = 1 /\ sentinel[page] < timestamp /\ page < current
  <2>1. page + 1 \in Pages /\ page + 1 <= current
    BY <1>3, <1>6, Shape DEF Pages
  <2>2. 1 \in 1 .. Len(times[page + 1]) + 1
    BY <2>1, Shape
  <2>3. SeekTypeOK'
    <3>1. pc' \in {"pages", "frames"}
      BY <1>1
    <3>2. UNCHANGED <<times, sentinel, listed, current, timestamp, left, right, best, wanted>>
      BY <1>1
    <3>3. page' \in 0 .. current /\ pos' \in Nat
      BY <1>3, <1>6, <2>1, Shape
    <3> QED BY <3>1, <3>2, <3>3 DEF SeekInv, SeekTypeOK
  <2>4. Placed'
    BY <1>1, <1>3, <1>6, <2>2 DEF Placed
  <2>5. WantedThere' /\ SearchSound'
    BY <1>1 DEF SeekInv, WantedThere, SearchSound
  <2>6. ASSUME NEW w \in wanted
        PROVE  ~Before(w[1], w[2], page + 1, 1)
    <3>1. /\ w[1] \in Pages /\ w[1] \in Nat /\ w[2] \in Nat
          /\ w[2] \in 1 .. Len(times[w[1]]) /\ times[w[1]][w[2]] >= timestamp
          /\ times[w[1]][w[2]] \in Nat /\ timestamp \in Nat /\ sentinel[page] \in Nat
      BY <1>3, Shape DEF SeekInv, WantedThere, SeekTypeOK
    <3>2. w[1] # page
      <4>1. sentinel[page] # 0
        BY <1>3, <1>6, Shape DEF SeekInv, PagesInOrder
      <4>2. w[1] = page => times[w[1]][w[2]] <= sentinel[page]
        BY <1>3, <3>1, <4>1 DEF SeekInv, TimesRise
      <4> QED BY <1>6, <3>1, <4>2
    <3>3. ~Before(w[1], w[2], page, pos)
      BY <1>1 DEF SeekInv, NothingPassed
    <3> QED BY <1>3, <3>1, <3>2, <3>3 DEF Before
  <2>7. NothingPassed'
    BY <1>1, <1>6, <2>6 DEF NothingPassed, Before
  <2> QED BY <1>2, <2>3, <2>4, <2>5, <2>7 DEF SeekInv
<1> QED BY <1>1, <1>4, <1>5, <1>6

\* A frame that is too early, or the sentinel of its page, is left.
LEMMA SkipFrameKeeps ==
  ASSUME SeekInv, SkipFrame
  PROVE  SeekInv'
<1>1. /\ pc = "frames" /\ pc' \in {"frames", "idle"}
      /\ \/ HasData /\ FramesOf(page)[pos] < timestamp /\ MoveOn
         \/ page' = page /\ pos' = pos
      /\ UNCHANGED journalVars
      /\ UNCHANGED <<times, sentinel, listed, current, timestamp, left, right, best, wanted>>
  BY DEF SkipFrame, journalVars, searchVars
<1>2. FullIsLeft' /\ PagesInOrder' /\ TimesRise'
  BY <1>1, ReaderKeeps
<1>3. /\ page \in Pages /\ page \in Nat /\ page # 0
      /\ pos \in 1 .. Len(times[page]) + 1 /\ pos \in Nat
  BY <1>1, Shape DEF SeekInv, Placed, SeekTypeOK
<1>4. CASE page' = page /\ pos' = pos
  <2>1. SeekTypeOK'
    BY <1>1, <1>4, Shape DEF SeekInv, SeekTypeOK
  <2>2. Placed' /\ WantedThere' /\ SearchSound'
    BY <1>1, <1>3, <1>4 DEF SeekInv, Placed, WantedThere, SearchSound
  <2>3. NothingPassed'
    BY <1>1, <1>4 DEF SeekInv, NothingPassed, Before
  <2> QED BY <1>2, <2>1, <2>2, <2>3 DEF SeekInv
<1>5. CASE HasData /\ FramesOf(page)[pos] < timestamp /\ MoveOn
  <2>1. /\ page' \in 1 .. current /\ pos' \in Nat
        /\ page' # 0 /\ pos' \in 1 .. Len(times[page']) + 1
        /\ pos = Len(times[page]) + 1 => sentinel[page] # 0 /\ page' = page + 1 /\ pos' = 1
        /\ pos # Len(times[page]) + 1 => page' = page /\ pos' = pos + 1
    BY <1>3, <1>5, MovesOn
  <2>2. SeekTypeOK'
    BY SMTT(30), <1>1, <2>1, Shape DEF SeekInv, SeekTypeOK
  <2>3. Placed'
    BY <1>1, <2>1 DEF Placed
  <2>4. WantedThere' /\ SearchSound'
    BY <1>1 DEF SeekInv, WantedThere, SearchSound
  <2>5. ASSUME NEW w \in wanted
        PROVE  ~Before(w[1], w[2], page', pos')
    <3>1. /\ w[1] \in Pages /\ w[1] \in Nat /\ w[2] \in Nat
          /\ w[2] \in 1 .. Len(times[w[1]]) /\ times[w[1]][w[2]] >= timestamp
          /\ times[w[1]][w[2]] \in Nat /\ timestamp \in Nat /\ sentinel[page] \in Nat
      BY <1>3, Shape DEF SeekInv, WantedThere, SeekTypeOK
    <3>2. ~Before(w[1], w[2], page, pos)
      BY <1>1 DEF SeekInv, NothingPassed
    <3>3. CASE pos = Len(times[page]) + 1
      <4>1. sentinel[page] # 0 /\ sentinel[page] < timestamp
        <5>1. sentinel[page] # 0
          BY <2>1, <3>3
        <5>2. FramesOf(page)[pos] = sentinel[page]
          BY <1>3, <3>3, <5>1, Shape DEF FramesOf
        <5> QED BY <1>5, <5>1, <5>2
      <4>2. w[1] = page => times[w[1]][w[2]] <= sentinel[page]
        BY <1>3, <3>1, <4>1 DEF SeekInv, TimesRise
      <4>3. w[1] # page
        BY <3>1, <4>1, <4>2
      <4> QED BY <1>3, <2>1, <3>1, <3>2, <3>3, <4>3 DEF Before
    <3>4. CASE pos # Len(times[page]) + 1
      <4>1. FramesOf(page)[pos] = times[page][pos]
        BY <1>3, <3>4, Shape DEF FramesOf
      <4>2. ~(w[1] = page /\ w[2] = pos)
        BY <1>5, <3>1, <4>1
      <4> QED BY <1>3, <2>1, <3>1, <3>2, <3>4, <4>2 DEF Before
    <3> QED BY <3>3, <3>4
  <2>6. NothingPassed'
    BY <1>1, <2>5 DEF NothingPassed, Before
  <2> QED BY <1>2, <2>2, <2>3, <2>4, <2>6 DEF SeekInv
<1> QED BY <1>1, <1>4, <1>5

\* Stuttering.
LEMMA StutterKeeps ==
  ASSUME SeekInv, UNCHANGED vars
  PROVE  SeekInv'
<1>1. UNCHANGED journalVars
  BY DEF vars
<1>2. UNCHANGED <<times, sentinel, listed, current, pc, page, pos, timestamp, left, right,
                  best, wanted>>
  BY DEF vars, journalVars, searchVars
<1>3. FullIsLeft' /\ PagesInOrder' /\ TimesRise'
  BY <1>1, ReaderKeeps
<1>4. SeekTypeOK'
  BY <1>2 DEF SeekInv, SeekTypeOK
<1>5. Placed' /\ WantedThere' /\ SearchSound' /\ NothingPassed'
  BY <1>2 DEF SeekInv, Placed, WantedThere, SearchSound, NothingPassed, Before
<1> QED BY <1>3, <1>4, <1>5 DEF SeekInv

-----------------------------------------------------------------------------
(* The result. *)

\* A seek to a time, finished, is not past any frame of that time or later that
\* was in the journal when it began: neither findPageId's search over the pages,
\* nor the page it loads, nor the loops over full pages and over frames goes
\* too far, however many pages there are and whatever the writer does meanwhile.
THEOREM SeekNeverMisses ==
  ASSUME Liberties = {}
  PROVE  Spec => []SeekMissesNothing
<1>1. Init => SeekInv
  BY SeekInit
<1>2. SeekInv /\ [Next]_vars => SeekInv'
  <2> SUFFICES ASSUME SeekInv, [Next]_vars PROVE SeekInv'
    OBVIOUS
  <2>1. CASE Write
    BY <2>1, WriteKeeps
  <2>2. CASE Prepare
    BY <2>2, PrepareKeeps
  <2>3. CASE Rotate
    BY <2>3, RotateKeeps
  <2>4. CASE ReadNext
    BY <2>4, ReadNextKeeps
  <2>5. CASE Seek
    BY <2>5, SeekKeeps
  <2>6. CASE Probe
    BY <2>6, ProbeKeeps
  <2>7. CASE SearchEnd
    BY <2>7, SearchEndKeeps
  <2>8. CASE LoadPage
    BY <2>8, LoadPageKeeps
  <2>9. CASE SkipPage
    BY <2>9, SkipPageKeeps
  <2>10. CASE SkipFrame
    BY <2>10, SkipFrameKeeps
  <2>11. CASE UNCHANGED vars
    BY <2>11, StutterKeeps
  <2> QED BY <2>1, <2>2, <2>3, <2>4, <2>5, <2>6, <2>7, <2>8, <2>9, <2>10, <2>11
          DEF Next, SeekStep
<1>3. SeekInv => SeekMissesNothing
  BY DEF SeekInv, NothingPassed, SeekMissesNothing
<1> QED BY <1>1, <1>2, <1>3, PTL DEF Spec
=============================================================================
