---- MODULE AudioOutputProofs ----
(***************************************************************************)
(* Proofs about AudioOutput, for any set of devices.  A device is always   *)
(* in exactly one place: in use, waiting to be closed, being closed, or in *)
(* the future.  That follows from who may write which place when: nothing  *)
(* is in use while there is an outstanding result, and the control thread  *)
(* takes a job and the old device together.                                *)
(***************************************************************************)
EXTENDS AudioOutput, TLAPS

\* The two bits say where the callback is, and who is allowed to call.
Callbacks ==
  \A d \in Device :
    /\ "InCallback" \in word[d] <=> native[d] # "idle"
    /\ d # impl => "Paused" \in word[d]
    /\ fresh[d] => fade[d]

\* Where the caller is, and what it knows there.
Stopping == at \in {"drain", "parked", "quiet"}

CallerPoints ==
  /\ at = "free" <=> call = "none"
  /\ at \in {"drain", "parked"} => impl # None
  /\ at = "resume" => call = "Start" /\ impl # None /\ fade[impl]
  /\ at \in {"drain", "parked", "quiet", "resume"} /\ impl # None => "Paused" \in word[impl]
  /\ at = "opening" => call = "Open"
  /\ at \in {"outstanding", "close", "closing", "destroy", "exiting", "join"}
       => call \in {"Close", "Destroy"}
  /\ Stopping /\ call \in {"Close", "Destroy"} => impl # None
  /\ Stopping /\ call \in {"Open", "BeginReopen", "BeginClose"} => result = None
  /\ Stopping /\ call \in {"Open", "BeginReopen"} => owner
  /\ Stopping => call \notin {"none", "Start"}
  /\ call = "BeginClose" => impl # None
  /\ at = "outstanding" => impl = None
  /\ at \in {"closing", "destroy", "exiting", "join"} => impl = None
  /\ at \in {"destroy", "exiting", "join"} => call = "Destroy"
  /\ at \in {"exiting", "join"} <=> flags.exiting

\* Where the control thread is, and what it has in hand.
ThreadPoints ==
  /\ thread = "none" <=> ~owner
  /\ thread = "ended" <=> flags.exited
  /\ thread \in {"none", "check", "asleep"} => next = None
  /\ thread = "ended" => next = "exit"
  /\ thread = "opening" => next = "open"
  /\ thread \in {"none", "check", "asleep", "opening", "ended"} => doomed = {}
  /\ next = "exit" => flags.exiting /\ result = None /\ job = None /\ retiring = None
  /\ ~owner => /\ impl = None /\ job = None /\ result = None /\ retiring = None
               /\ flags = NoFlags

\* The future is pending while its job is in the queue or being run.
Running == next \in {"open", "empty"}

Outstanding ==
  /\ result = "pending" <=> job # None \/ Running
  /\ ~(job # None /\ Running)

\* A device that is open is in one place, and no other device is open.
OnePlace ==
  /\ open = ({impl, retiring, result} \cap Device) \cup doomed
  /\ impl # None => result = None /\ retiring = None /\ doomed = {}
  /\ retiring # None => result \notin Device /\ doomed = {} /\ ~Running
  /\ result \in Device => doomed = {}
  /\ \A d, e \in doomed : d = e

IInv ==
  /\ TypeOK /\ Callbacks /\ ClientIsQuiet /\ CallerPoints /\ ThreadPoints
  /\ Outstanding /\ OnePlace

-----------------------------------------------------------------------------
\* Every step keeps it.

\* A flag that is set is still a flag.
LEMMA FlagSet ==
  ASSUME NEW f \in [Device -> BOOLEAN], NEW d \in Device
  PROVE  [f EXCEPT ![d] = TRUE] \in [Device -> BOOLEAN]
OBVIOUS

\* A callback marks the word before it calls, and clears the mark last.
LEMMA RenderSteps ==
  ASSUME IInv, \E d \in Device : RenderOutput(d)
  PROVE  IInv'
<1> USE DeviceAssumption DEF None, NoFlags, IInv, TypeOK, Callbacks, ClientIsQuiet, CallerPoints, Stopping,
           ThreadPoints, Running, Outstanding, OnePlace, callbacks, caller, handoff, control
<1>1. CASE \E d \in Device : Enter(d)
  BY <1>1 DEF Enter
<1>2. CASE \E d \in Device : Deliver(d)
  BY <1>2 DEF Deliver
<1>3. CASE \E d \in Device : Leave(d)
  BY <1>3 DEF Leave
<1> QED  BY <1>1, <1>2, <1>3 DEF RenderOutput

\* The control thread takes a job and the old device together, and closes the
\* device first.
LEMMA ControlSteps ==
  ASSUME IInv, Control
  PROVE  IInv'
<1> USE DeviceAssumption DEF None, NoFlags, IInv, TypeOK, Callbacks, ClientIsQuiet, CallerPoints, Stopping,
           ThreadPoints, Running, Outstanding, OnePlace, callbacks, caller, handoff, control
<1>1. CASE Wake
  BY <1>1 DEF Wake
<1>2. CASE NothingToRun
  <2>1. TypeOK'
    BY <1>2 DEF NothingToRun, Released
  <2>2. Callbacks'
    BY <1>2 DEF NothingToRun, Released
  <2>3. ClientIsQuiet'
    BY <1>2 DEF NothingToRun, Released
  <2>4. CallerPoints'
    BY <1>2 DEF NothingToRun, Released
  <2>5. ThreadPoints'
    BY <1>2 DEF NothingToRun, Released
  <2>6. Outstanding'
    BY <1>2 DEF NothingToRun, Released
  <2>7. OnePlace'
    BY <1>2 DEF NothingToRun, Released
  <2> QED  BY <2>1, <2>2, <2>3, <2>4, <2>5, <2>6, <2>7
<1>3. CASE RunEmpty
  BY <1>3 DEF RunEmpty, Released
<1>4. CASE RunOpen
  BY <1>4 DEF RunOpen, Released
<1>5. CASE Exit
  BY <1>5 DEF Exit, Released
<1>6. CASE \E d \in Device : Retire(d)
  BY <1>6 DEF Retire
<1>7. CASE \E d \in Device : Drained(d)
  BY <1>7 DEF Drained
<1> QED  BY <1>1, <1>2, <1>3, <1>4, <1>5, <1>6, <1>7 DEF Control

\* A device is opened when no other one is open.
LEMMA NativeSteps ==
  ASSUME IInv, NativeCall
  PROVE  IInv'
<1> USE DeviceAssumption DEF None, NoFlags, IInv, TypeOK, Callbacks, ClientIsQuiet, CallerPoints, Stopping,
           ThreadPoints, Running, Outstanding, OnePlace, callbacks, caller, handoff, control
<1>1. CASE OpenFailed
  BY <1>1 DEF OpenFailed
<1>2. CASE \E d \in Device : NativeClose(d)
  BY <1>2 DEF NativeClose
<1>3. CASE \E d \in Device : Opened(d)
  BY <1>3 DEF Opened, NewDevice
<1>4. CASE \E d \in Device : Unusable(d)
  BY <1>4 DEF Unusable, NewDevice
<1> QED  BY <1>1, <1>2, <1>3, <1>4 DEF NativeCall

\* A call begins by pausing the device in use.
LEMMA BeginSteps ==
  ASSUME IInv, Begin
  PROVE  IInv'
<1> USE DeviceAssumption DEF None, NoFlags, IInv, TypeOK, Callbacks, ClientIsQuiet, CallerPoints, Stopping,
           ThreadPoints, Running, Outstanding, OnePlace, callbacks, caller, handoff, control
<1>1. ASSUME NEW c \in {"Stop", "Open", "BeginReopen", "BeginClose"}, Call(c)
      PROVE  IInv'
  <2>1. /\ Free /\ call' = c /\ Allowed(c) /\ StopFirst
        /\ UNCHANGED <<open, fade, native, fresh, impl, job, result, retiring, flags, next, doomed>>
    BY <1>1 DEF Call
  <2>2. IF owner \/ c \in {"Stop", "BeginClose"}
        THEN UNCHANGED <<owner, thread>> ELSE owner' = TRUE /\ thread' = "check"
    BY <1>1 DEF Call, CreateOwner
  <2>3. TypeOK'
    <3>1. owner' \in BOOLEAN /\ thread' \in {thread, "check"}
      BY <2>2
    <3>2. /\ word' \in [Device -> SUBSET {"Paused", "InCallback"}]
          /\ at' \in {"quiet", "drain"}
      BY <2>1 DEF StopFirst
    <3> QED  BY <2>1, <3>1, <3>2
  <2>4. Callbacks' /\ ClientIsQuiet'
    BY <2>1 DEF StopFirst, Free
  <2>5. /\ c \in {"Stop", "BeginClose"} => impl # None
        /\ c \in {"Open", "BeginReopen", "BeginClose"} => result = None
    BY <2>1 DEF Allowed, IsOpening
  <2>6. CallerPoints'
    <3>1. CASE impl = None
      BY <2>1, <2>2, <2>5, <3>1 DEF StopFirst, Free
    <3>2. CASE impl # None
      BY <2>1, <2>2, <2>5, <3>2 DEF StopFirst, Free
    <3> QED  BY <3>1, <3>2
  <2>7. ThreadPoints' /\ Outstanding' /\ OnePlace'
    BY <2>1, <2>2
  <2> QED  BY <2>3, <2>4, <2>6, <2>7
<1>2. CASE \E c \in {"Close", "Destroy"} : Close(c)
  BY <1>2 DEF Close, Free, IsOpening
<1>3. CASE FinishReopen
  BY <1>3 DEF FinishReopen, Free, Adopt, IsOpenReady, IsOpening, ClosedHere
<1> QED  BY <1>1, <1>2, <1>3 DEF Begin

\* What the caller hands over it has stopped, and there is room for it.
LEMMA ContinueSteps ==
  ASSUME IInv, Continue
  PROVE  IInv'
<1> USE DeviceAssumption DEF None, NoFlags, IInv, TypeOK, Callbacks, ClientIsQuiet, CallerPoints, Stopping,
           ThreadPoints, Running, Outstanding, OnePlace, callbacks, caller, handoff, control
<1>1. CASE Park
  BY <1>1 DEF Park
<1>2. CASE Quiet
  BY <1>2 DEF Quiet
<1>3. CASE ResumeCallbacks
  <2>1. TypeOK'
    <3>1. impl \in Device
      BY <1>3 DEF ResumeCallbacks
    <3>2. fade' \in [Device -> BOOLEAN]
      <4>1. CASE Free
        <5>1. fade' = [fade EXCEPT ![impl] = TRUE]
          BY <1>3, <4>1 DEF ResumeCallbacks, Free
        <5> QED  BY <3>1, <5>1, FlagSet
      <4>2. CASE ~Free
        BY <1>3, <4>2 DEF ResumeCallbacks
      <4> QED  BY <4>1, <4>2
    <3>5. fresh' \in [Device -> BOOLEAN]
      <4>1. CASE Free
        BY <1>3, <4>1 DEF ResumeCallbacks, Free
      <4>2. CASE ~Free
        <5>1. fresh' = [fresh EXCEPT ![impl] = TRUE]
          BY <1>3, <4>2 DEF ResumeCallbacks
        <5> QED  BY <3>1, <5>1, FlagSet
      <4> QED  BY <4>1, <4>2
    <3>3. word' \in [Device -> SUBSET {"Paused", "InCallback"}]
      BY <1>3, <3>1 DEF ResumeCallbacks
    <3>4. /\ at' \in {"free", "resume"} /\ call' \in {"none", "Start"}
          /\ UNCHANGED <<open, native, impl, handoff, control>>
      BY <1>3 DEF ResumeCallbacks, Return
    <3> QED  BY <3>2, <3>3, <3>4, <3>5
  <2>2. Callbacks'
    BY <1>3 DEF ResumeCallbacks, Free, Return
  <2>3. ClientIsQuiet'
    BY <1>3 DEF ResumeCallbacks, Free, Return
  <2>4. CallerPoints'
    BY <1>3 DEF ResumeCallbacks, Free, Return
  <2>5. ThreadPoints'
    BY <1>3 DEF ResumeCallbacks, Free, Return
  <2>6. Outstanding'
    BY <1>3 DEF ResumeCallbacks, Free, Return
  <2>7. OnePlace'
    BY <1>3 DEF ResumeCallbacks, Free, Return
  <2> QED  BY <2>1, <2>2, <2>3, <2>4, <2>5, <2>6, <2>7
<1>4. CASE StopReturns
  BY <1>4 DEF StopReturns, Return
<1>5. CASE Submit
  <2>1. TypeOK'
    BY <1>5 DEF Submit, Return, Notify, ClosedHere
  <2>2. Callbacks'
    BY <1>5 DEF Submit, Return, Notify, ClosedHere
  <2>3. ClientIsQuiet'
    BY <1>5 DEF Submit, Return, Notify, ClosedHere
  <2>4. CallerPoints'
    BY <1>5 DEF Submit, Return, Notify, ClosedHere
  <2>5. ThreadPoints'
    BY <1>5 DEF Submit, Return, Notify, ClosedHere
  <2>6. Outstanding'
    BY <1>5 DEF Submit, Return, Notify, ClosedHere
  <2>7. OnePlace'
    BY <1>5 DEF Submit, Return, Notify, ClosedHere
  <2> QED  BY <2>1, <2>2, <2>3, <2>4, <2>5, <2>6, <2>7
<1>6. CASE OpenReturns
  BY <1>6 DEF OpenReturns, Adopt, Return, IsOpenReady, IsOpening, ClosedHere
<1>7. CASE TakeOutstanding
  BY <1>7 DEF TakeOutstanding, Adopt, IsOpenReady, IsOpening, ClosedHere
<1>8. CASE CloseDevice
  BY <1>8 DEF CloseDevice, StopFirst, CloseReturns, Return
<1>9. CASE OwnerClose
  <2>1. TypeOK'
    BY <1>9 DEF OwnerClose, Notify, ClosedHere
  <2>2. Callbacks'
    BY <1>9 DEF OwnerClose, Notify, ClosedHere
  <2>3. ClientIsQuiet'
    BY <1>9 DEF OwnerClose, Notify, ClosedHere
  <2>4. CallerPoints'
    BY <1>9 DEF OwnerClose, Notify, ClosedHere
  <2>5. ThreadPoints'
    BY <1>9 DEF OwnerClose, Notify, ClosedHere
  <2>6. Outstanding'
    BY <1>9 DEF OwnerClose, Notify, ClosedHere
  <2>7. OnePlace'
    BY <1>9 DEF OwnerClose, Notify, ClosedHere
  <2> QED  BY <2>1, <2>2, <2>3, <2>4, <2>5, <2>6, <2>7
<1>10. CASE CloseDone
  BY <1>10 DEF CloseDone, CloseReturns, Return
<1>11. CASE Destroy
  <2>1. TypeOK'
    <3>1. open' \subseteq Device /\ impl' = None
      BY <1>11 DEF Destroy, ClosedHere
    <3>2. flags' \in [exiting : BOOLEAN, closing : BOOLEAN, exited : BOOLEAN]
      <4>1. flags' = flags \/ flags' = [flags EXCEPT !.exiting = TRUE]
        BY <1>11 DEF Destroy
      <4>2. [flags EXCEPT !.exiting = TRUE]
              \in [exiting : BOOLEAN, closing : BOOLEAN, exited : BOOLEAN]
        OBVIOUS
      <4>3. flags \in [exiting : BOOLEAN, closing : BOOLEAN, exited : BOOLEAN]
        OBVIOUS
      <4> QED  BY <4>1, <4>2, <4>3, Zenon
    <3>3. thread' \in {thread, "check"} /\ at' \in {"free", "exiting"} /\ call' \in {call, "none"}
      BY <1>11 DEF Destroy, Notify, Return
    <3>4. UNCHANGED <<callbacks, owner, job, result, retiring, next, doomed>>
      BY <1>11 DEF Destroy
    <3> QED  BY <3>1, <3>2, <3>3, <3>4
  <2>2. Callbacks'
    BY <1>11 DEF Destroy, Notify, ClosedHere, Return
  <2>3. ClientIsQuiet'
    BY <1>11 DEF Destroy, Notify, ClosedHere, Return
  <2>4. CallerPoints'
    BY <1>11 DEF Destroy, Notify, ClosedHere, Return
  <2>5. ThreadPoints'
    BY <1>11 DEF Destroy, Notify, ClosedHere, Return
  <2>6. Outstanding'
    BY <1>11 DEF Destroy, Notify, ClosedHere, Return
  <2>7. OnePlace'
    BY <1>11 DEF Destroy, Notify, ClosedHere, Return
  <2> QED  BY <2>1, <2>2, <2>3, <2>4, <2>5, <2>6, <2>7
<1>12. CASE ExitSeen
  BY <1>12 DEF ExitSeen
<1>13. CASE Join
  <2>1. TypeOK'
    BY <1>13 DEF Join, ClosedHere, Return
  <2>2. Callbacks'
    BY <1>13 DEF Join, ClosedHere, Return
  <2>3. ClientIsQuiet'
    BY <1>13 DEF Join, ClosedHere, Return
  <2>4. CallerPoints'
    BY <1>13 DEF Join, ClosedHere, Return
  <2>5. ThreadPoints'
    BY <1>13 DEF Join, ClosedHere, Return
  <2>6. Outstanding'
    BY <1>13 DEF Join, ClosedHere, Return
  <2>7. OnePlace'
    BY <1>13 DEF Join, ClosedHere, Return
  <2> QED  BY <2>1, <2>2, <2>3, <2>4, <2>5, <2>6, <2>7
<1>14. CASE TimeOut
  BY <1>14 DEF TimeOut, CloseReturns, Return
<1> QED  BY <1>1, <1>2, <1>3, <1>4, <1>5, <1>6, <1>7, <1>8, <1>9, <1>10, <1>11, <1>12, <1>13, <1>14 DEF Continue

\* It holds before anything is opened.
LEMMA Initially == ASSUME Init PROVE IInv
BY DeviceAssumption
DEF Init, None, NoFlags, IInv, TypeOK, Callbacks, ClientIsQuiet, CallerPoints, Stopping,
    ThreadPoints, Running, Outstanding, OnePlace

\* The whole step.
LEMMA Inductive == ASSUME IInv, [Next]_vars PROVE IInv'
<1>1. CASE Next
  BY <1>1, RenderSteps, ControlSteps, NativeSteps, BeginSteps, ContinueSteps DEF Next
<1>2. CASE UNCHANGED vars
  BY <1>2
  DEF vars, callbacks, caller, handoff, control, IInv, TypeOK, Callbacks, ClientIsQuiet,
      CallerPoints, Stopping, ThreadPoints, Running, Outstanding, OnePlace
<1> QED  BY <1>1, <1>2

LEMMA Invariant == Spec => []IInv
BY Initially, Inductive, PTL DEF Spec

-----------------------------------------------------------------------------
\* What it is good for.

\* Type correctness, for any set of devices.
THEOREM OutputTypes == Spec => []TypeOK
<1>1. IInv => TypeOK
  BY DEF IInv
<1> QED  BY <1>1, Invariant, PTL

\* A replacement is opened when the old device is gone, whatever has timed out
\* before (Owner's thread).
THEOREM OneDeviceOpen == Spec => []OneDevice
<1>1. IInv => OneDevice
  <2>1. ASSUME IInv
        PROVE  \A d, e \in open : d = e
    BY <2>1, DeviceAssumption DEF IInv, OnePlace, None
  <2>2. ASSUME IInv, thread = "opening"
        PROVE  open = {}
    <3>1. doomed = {} /\ next = "open"
      BY <2>2 DEF IInv, ThreadPoints
    <3>2. result = "pending" /\ retiring = None
      BY <2>2, <3>1 DEF IInv, Outstanding, OnePlace, Running
    <3>3. impl = None
      BY <2>2, <3>2 DEF IInv, OnePlace, None
    <3> QED  BY <2>2, <3>1, <3>2, <3>3, DeviceAssumption DEF IInv, OnePlace, None
  <2> QED  BY <2>1, <2>2 DEF OneDevice
<1> QED  BY <1>1, Invariant, PTL

\* No client callback runs for a device that is stopped, retired or not yet
\* adopted (PauseCallbacks and RenderOutput).
THEOREM StoppedIsQuiet == Spec => []ClientIsQuiet
<1>1. IInv => ClientIsQuiet
  BY DEF IInv
<1> QED  BY <1>1, Invariant, PTL

\* An output that has been destroyed leaves no device and no thread (~Owner).
THEOREM NothingLeftOpen == Spec => []NothingLeft
<1>1. IInv => NothingLeft
  BY DeviceAssumption DEF IInv, NothingLeft, OnePlace, ThreadPoints, None
<1> QED  BY <1>1, Invariant, PTL

\* The first client callback after a start finds the transition it is to fade
\* in (ResumeCallbacks and RenderOutput).
THEOREM FirstIsFaded == Spec => FadesIn
<1>1. IInv => \A d \in Device : fresh[d] => fade[d]
  BY DEF IInv, Callbacks
<1>2. IInv /\ [Next]_vars
        => [\A d \in Device :
              native[d] = "entered" /\ native'[d] = "client" /\ fresh[d] => fade[d]]_vars
  BY <1>1
<1> QED  BY <1>2, Invariant, PTL DEF Spec, FadesIn

\* Whatever the caller assigns or destroys, it holds no open device there: only
\* the control thread closes one (Submit, Close, FinishReopen, ~AudioOutput).
THEOREM OnlyOwnerCloses == Spec => ReleasedByOwner
<1>1. ASSUME IInv, Next
      PROVE  \A d \in open \ open' : thread = "closing" /\ d \in doomed
  <2>1. CASE \E d \in Device : RenderOutput(d)
    BY <2>1 DEF RenderOutput, Enter, Deliver, Leave
  <2>2. CASE Control
    BY <2>2
    DEF Control, Wake, NothingToRun, RunEmpty, RunOpen, Exit, Retire, Drained
  <2>3. CASE NativeCall
    BY <2>3 DEF NativeCall, OpenFailed, NativeClose, Opened, Unusable, NewDevice
  <2>4. CASE Begin
    <3>1. CASE FinishReopen
      BY <1>1, <3>1, DeviceAssumption
      DEF FinishReopen, Adopt, ClosedHere, IsOpenReady, IsOpening, IInv, OnePlace, None
    <3> QED  BY <2>4, <3>1 DEF Begin, Call, Close
  <2>5. CASE Continue
    <3>1. CASE Submit
      BY <1>1, <3>1, DeviceAssumption
      DEF Submit, ClosedHere, IInv, OnePlace, CallerPoints, Stopping, None
    <3>2. CASE OpenReturns \/ TakeOutstanding
      BY <1>1, <3>2, DeviceAssumption
      DEF OpenReturns, TakeOutstanding, Adopt, ClosedHere, IsOpenReady, IsOpening, IInv,
          OnePlace, None
    <3>3. CASE OwnerClose
      BY <1>1, <3>3, DeviceAssumption
      DEF OwnerClose, ClosedHere, IInv, OnePlace, CallerPoints, Stopping, None
    <3>4. CASE Destroy
      BY <1>1, <3>4, DeviceAssumption DEF Destroy, ClosedHere, IInv, CallerPoints, None
    <3>5. CASE Join
      BY <1>1, <3>5, DeviceAssumption DEF Join, ClosedHere, IInv, ThreadPoints, None
    <3> QED
      BY <2>5, <3>1, <3>2, <3>3, <3>4, <3>5
      DEF Continue, Park, Quiet, ResumeCallbacks, StopReturns, CloseDevice, CloseDone, ExitSeen,
          TimeOut
  <2> QED  BY <1>1, <2>1, <2>2, <2>3, <2>4, <2>5 DEF Next
<1>2. IInv /\ [Next]_vars
        => [\A d \in open \ open' : thread = "closing" /\ d \in doomed]_vars
  BY <1>1
<1> QED  BY <1>2, Invariant, PTL DEF Spec, ReleasedByOwner
====
