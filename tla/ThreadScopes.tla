---------------------------- MODULE ThreadScopes ----------------------------
(***************************************************************************)
(* One thread's scheduling policy and CPU affinity under nested            *)
(* ScopedRealtimePriority and ScopedCpuPin objects and direct calls of     *)
(* RealtimePriority and CpuAffinity.  An object saves what it finds, sets  *)
(* what it was asked for, which may fail, and restores in its destructor.  *)
(* Objects die in the reverse order of their construction.                 *)
(***************************************************************************)
EXTENDS Naturals, Sequences

CONSTANTS
  Cores,         \* the machine's
  FirstPolicies, \* the policies a thread may begin with
  Priorities,    \* priorities callers ask for
  GetFails,      \* pthread_getschedparam, pthread_getaffinity_np may fail
  RestoreFails,  \* the calls of a destructor may fail
  MaxDepth       \* bound: nesting

Realtime == {"FIFO", "RR"}
Policies == Realtime \cup {"NORMAL", "BATCH", "IDLE"}
Kinds == {"sched", "cores"}
NORMAL == [policy |-> "NORMAL", priority |-> 0]

ASSUME ScopesAssumption ==
  /\ FirstPolicies \subseteq Policies /\ Priorities \subseteq Nat /\ MaxDepth \in Nat
  /\ GetFails \in BOOLEAN /\ RestoreFails \in BOOLEAN

VARIABLES
  attr,    \* the thread's attributes, by kind
  scopes,  \* the live objects: kind, what each saved, enabled_ or pinned_
  outside, \* history: by kind, what was last set below no object that took effect
  spoilt   \* history: kinds whose outermost object could not save or restore that

scopeVars == <<attr, scopes, outside, spoilt>>

\* The attributes a thread may begin with.
FirstAttributes(kind) ==
  IF kind = "sched"
    THEN {[policy |-> p, priority |-> IF p \in Realtime THEN 50 ELSE 0] : p \in FirstPolicies}
    ELSE {Cores} \cup {{c} : c \in Cores}

ScopesStart ==
  /\ \E sched \in FirstAttributes("sched"), cores \in FirstAttributes("cores") :
       attr = [kind \in Kinds |-> IF kind = "sched" THEN sched ELSE cores]
  /\ scopes = <<>> /\ outside = attr /\ spoilt = {}

\* The object took effect, which is what its destructor asks; no live object of the
\* kind did.
Effective(kind, i) == scopes[i].kind = kind /\ scopes[i].on

NoneEffective(kind) == \A i \in 1 .. Len(scopes) : ~Effective(kind, i)

\* setRealtimePriority's own test, which the kernel's follows.
InRange(v) == v.priority \in 1 .. 99

\* Whether the calls that set attributes take a value: setNormalPriority or
\* setRealtimePriority, pinToCore or pinToCores.
Settable(kind, v) ==
  IF kind = "sched" THEN v.policy = "NORMAL" \/ InRange(v) ELSE v # {}

\* What callers ask for: setRealtimePriority(priority, policy), pinToCore(core).
Requests(kind) ==
  IF kind = "sched" THEN [policy : Realtime, priority : Priorities]
                    ELSE {{c} : c \in Cores}

\* The getters answer with the default and with no cores when the system call
\* fails.
getCurrentPriority == {attr["sched"]} \cup (IF GetFails THEN {NORMAL} ELSE {})
getCurrentAffinity == {attr["cores"]} \cup (IF GetFails THEN {{}} ELSE {})

Readings(kind) == IF kind = "sched" THEN getCurrentPriority ELSE getCurrentAffinity

\* History: an object that takes effect below no other of its kind has not saved
\* what it found, or has saved a policy that no call sets again.
Spoils(kind, saved) ==
  NoneEffective(kind) /\ (saved # attr[kind] \/ ~Settable(kind, saved))

\* A slip: the new priority is set before the old one is saved.
EnterSavingLate(kind) ==
  /\ Len(scopes) < MaxDepth
  /\ \E request \in Requests(kind), ok \in BOOLEAN :
       /\ ok => Settable(kind, request)
       /\ attr' = IF ok THEN [attr EXCEPT ![kind] = request] ELSE attr
       /\ scopes' = Append(scopes, [kind |-> kind, saved |-> attr'[kind], on |-> ok])
  /\ UNCHANGED <<outside, spoilt>>

\* The constructors.
Enter(kind) ==
  /\ Len(scopes) < MaxDepth
  /\ \E saved \in Readings(kind), request \in Requests(kind), ok \in BOOLEAN :
       /\ ok => Settable(kind, request)
       /\ attr' = IF ok THEN [attr EXCEPT ![kind] = request] ELSE attr
       /\ scopes' = Append(scopes, [kind |-> kind, saved |-> saved, on |-> ok])
       /\ spoilt' = IF ok /\ Spoils(kind, saved) THEN spoilt \cup {kind} ELSE spoilt
  /\ UNCHANGED outside

ScopedRealtimePriority == Enter("sched")
ScopedCpuPin == Enter("cores")

\* What a destructor can give back: only an object that took effect acts, and only
\* with something that can be set.
Restores(s) == s.on /\ Settable(s.kind, s.saved)

\* History: the object that goes is the outermost of its kind that took effect.
Outermost(i) ==
  /\ scopes[i].on
  /\ \A j \in 1 .. i - 1 : ~Effective(scopes[i].kind, j)

\* The destructors: setNormalPriority, which the kernel always accepts, or
\* setRealtimePriority with its test of the priority; pinToCores.
Leave ==
  /\ scopes # <<>>
  /\ LET s == scopes[Len(scopes)]
     IN  \/ /\ attr' = IF Restores(s) THEN [attr EXCEPT ![s.kind] = s.saved] ELSE attr
            /\ UNCHANGED spoilt
         \/ /\ RestoreFails
            /\ spoilt' = IF Outermost(Len(scopes)) THEN spoilt \cup {s.kind} ELSE spoilt
            /\ UNCHANGED attr
  /\ scopes' = SubSeq(scopes, 1, Len(scopes) - 1)
  /\ UNCHANGED outside

\* A direct call of setRealtimePriority, setNormalPriority, pinToCore, pinToCores or
\* pinAndVerify, at any time: below an object, below one whose constructor failed, or
\* below none.
SetDirectly(kind) ==
  /\ \E request \in Requests(kind) \cup {IF kind = "sched" THEN NORMAL ELSE Cores} :
       /\ Settable(kind, request)
       /\ attr' = [attr EXCEPT ![kind] = request]
  /\ outside' = IF NoneEffective(kind) THEN [outside EXCEPT ![kind] = attr'[kind]]
                                       ELSE outside
  /\ spoilt' = IF NoneEffective(kind) THEN spoilt \ {kind} ELSE spoilt
  /\ UNCHANGED scopes

ScopesStep ==
  \/ ScopedRealtimePriority \/ ScopedCpuPin \/ Leave
  \/ \E kind \in Kinds : SetDirectly(kind)

ScopesSpec == ScopesStart /\ [][ScopesStep]_scopeVars

-----------------------------------------------------------------------------
\* When the last object that took effect is gone, the thread has the policy, the
\* priority and the cores it had outside of them, however they were nested, whatever
\* failed within and whatever was set directly in between.  A direct call below no
\* object in effect (below one whose constructor failed, say) is not undone: it is
\* then what the thread has outside.  The one exception is the outermost object,
\* whose getter failed, which found a policy it cannot set again, or whose restoring
\* call failed (RealtimePriority.h: "Restore original priority", CpuAffinity.h:
\* "Restore original affinity"): no object behind it makes that good.
UnwindRestores ==
  \A kind \in Kinds :
    NoneEffective(kind) /\ kind \notin spoilt => attr[kind] = outside[kind]

\* Why: of each kind that is not spoilt, either no live object took effect and the
\* attribute is the outside one, or the outermost that did has saved that one and
\* can set it.
OutermostSaved(kind, i) ==
  /\ Effective(kind, i) /\ scopes[i].saved = outside[kind]
  /\ \A j \in 1 .. i - 1 : ~Effective(kind, j)

KindInv(kind) ==
  \/ kind \in spoilt
  \/ NoneEffective(kind) /\ attr[kind] = outside[kind]
  \/ /\ Settable(kind, outside[kind])
     /\ \E i \in 1 .. Len(scopes) : OutermostSaved(kind, i)

ScopeInv == \A kind \in Kinds : KindInv(kind)
=============================================================================
