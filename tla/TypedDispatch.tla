--------------------------- MODULE TypedDispatch ----------------------------
(***************************************************************************)
(* TypedJournalDispatcher over a JournalReader with one joined journal:    *)
(* the table of handlers, next, run and dispatchCurrent.  A handler may    *)
(* throw, and so does the size check in front of it; the exception leaves  *)
(* the call, and the reader stays on the frame.                            *)
(***************************************************************************)
EXTENDS FrameStream

CONSTANTS
  sizeof,       \* type -> the size of the struct its handler takes
  EmptyTypes,   \* types whose struct is empty
  HandledTypes, \* types for which handlers are registered
  Unlimited,    \* run's default for max_frames, more than any count
  RunLimits     \* the other values of max_frames

ASSUME DispatchAssumption ==
  /\ sizeof \in [Types -> Nat] /\ EmptyTypes \subseteq Types
  /\ HandledTypes \subseteq Types
  /\ Unlimited \in Nat /\ RunLimits \subseteq 1 .. Unlimited

VARIABLES
  handlers,     \* the types with an entry in typed_handlers_
  unknown,      \* unknown_handler_ is set
  dpc,          \* idle, dispatch, advance
  left,         \* max_frames less the frames counted; 0 in dispatchCurrent
  dpos,         \* frames the reader has passed
  done          \* history: the frames whose dispatch ended and that next passed

dispatchVars == <<handlers, unknown, dpc, left, dpos, done>>

DispatchInit ==
  /\ handlers = {} /\ unknown = FALSE
  /\ dpc = "idle" /\ left = 0 /\ dpos = 0 /\ done = <<>>

\* on<T>, onUnknown, clearHandlers.
on(type) ==
  /\ dpc = "idle"
  /\ handlers' = handlers \cup {type}
  /\ UNCHANGED <<unknown, dpc, left, dpos, done>>

onUnknown ==
  /\ dpc = "idle"
  /\ unknown' = TRUE
  /\ UNCHANGED <<handlers, dpc, left, dpos, done>>

clearHandlers ==
  /\ dpc = "idle"
  /\ handlers' = {} /\ unknown' = FALSE
  /\ UNCHANGED <<dpc, left, dpos, done>>

\* tryCurrentFrame finds a frame; without one the call returns at once, and
\* nothing changes.
Begin(max) ==
  /\ dpc = "idle" /\ dpos < Len(log)
  /\ dpc' = "dispatch" /\ left' = max
  /\ UNCHANGED <<handlers, unknown, dpos, done>>

\* next is run's loop taken once, dispatchCurrent its body without the advance.
run == \E max \in RunLimits \cup {Unlimited} : Begin(max)
next == Begin(1)
dispatchCurrent == Begin(0)

\* The frame that was captured; nobody else moves the reader.
Current == log[dpos + 1]

\* typedPayload's test.
PayloadFits(f) ==
  f.size = sizeof[f.msg_type] \/ (f.msg_type \in EmptyTypes /\ f.size = 0)

\* A slip: next gives up when dispatchFrame returns false, and an unhandled frame
\* stays in the way.
DispatchReturnsHandled ==
  /\ dpc = "dispatch"
  /\ Current.msg_type \in handlers => PayloadFits(Current)
  /\ IF left = 0 \/ ~(unknown \/ Current.msg_type \in handlers)
       THEN dpc' = "idle" /\ left' = 0 /\ UNCHANGED done
       ELSE dpc' = "advance" /\ done' = Append(done, Current) /\ UNCHANGED left
  /\ UNCHANGED <<handlers, unknown, dpos>>

\* dispatchFrame returns: the handler of the type, else the one for unknown
\* frames, else nothing was called.
DispatchReturns ==
  /\ dpc = "dispatch"
  /\ Current.msg_type \in handlers => PayloadFits(Current)
  /\ IF left = 0 THEN dpc' = "idle" /\ UNCHANGED done
                 ELSE dpc' = "advance" /\ done' = Append(done, Current)
  /\ UNCHANGED <<handlers, unknown, left, dpos>>

\* A slip: next advances before it dispatches, so a frame whose handler throws
\* is not seen again.
DispatchThrowsAdvanced ==
  /\ dpc = "dispatch"
  /\ Current.msg_type \in handlers \/ unknown
  /\ dpc' = "idle" /\ left' = 0 /\ dpos' = IF left = 0 THEN dpos ELSE dpos + 1
  /\ UNCHANGED <<handlers, unknown, done>>

\* A handler throws, or typedPayload before it, and the call is over.
DispatchThrows ==
  /\ dpc = "dispatch"
  /\ Current.msg_type \in handlers \/ unknown
  /\ dpc' = "idle" /\ left' = 0
  /\ UNCHANGED <<handlers, unknown, dpos, done>>

\* advance(current), and run's loop: the next frame, or the call is over.
AdvanceDispatcher ==
  /\ dpc = "advance"
  /\ dpos' = dpos + 1
  /\ IF left > 1 /\ dpos' < Len(log) THEN dpc' = "dispatch" /\ left' = left - 1
                                     ELSE dpc' = "idle" /\ left' = 0
  /\ UNCHANGED <<handlers, unknown, done>>

GoOnDispatching == DispatchReturns \/ DispatchThrows \/ AdvanceDispatcher

DispatchStep ==
  \/ \E type \in HandledTypes : on(type)
  \/ onUnknown \/ clearHandlers
  \/ run \/ next \/ dispatchCurrent \/ GoOnDispatching
=============================================================================
