---- MODULE AudioOutput ----
(***************************************************************************)
(* The life of the audio output device (AudioOutput.cpp).  Three threads   *)
(* meet: the caller (the UI, with the emulation stopped), one control      *)
(* thread per output that alone opens and closes native devices, and the   *)
(* callback thread of each native device.  The caller hands devices over   *)
(* and takes them back through Owner's mutex and a future; its waits are   *)
(* bounded, except for a running callback and for the final join.          *)
(*                                                                         *)
(* A device is an Impl that has been opened.  Settings, the negotiated     *)
(* format, enumeration and the device's own state (running, lost) are left *)
(* out; a native call may take any time, and opening one may fail.         *)
(***************************************************************************)
EXTENDS FiniteSets

CONSTANT Device   \* the Impl objects; one that is closed may be used again

None == "none"    \* a null unique_ptr, an empty task, an invalid future

ASSUME DeviceAssumption == Device \cap {None, "pending", "empty"} = {}

VARIABLES
  open,         \* the devices that are open
  word,         \* Impl.callbackState, as the set of its bits
  fade,         \* Impl.resumeTransition
  native,       \* control point of the device's callback, RenderOutput
  fresh,        \* history: no client callback has run since the last resume
  impl, call,   \* AudioOutput.impl, the call in progress
  at,           \* control point of the caller
  owner,        \* whether there is an Owner
  job, result,  \* Owner.job; Owner.result, pending or what it is ready with
  retiring,     \* Owner.retiring
  flags,        \* Owner.exiting, closing and exited
  thread,       \* control point of the control thread
  next, doomed  \* its local variables: the job it has taken, the devices to close

callbacks == <<word, fade, native, fresh>>
caller    == <<impl, call, at>>
handoff   == <<owner, job, result, retiring, flags>>
control   == <<thread, next, doomed>>
vars == <<open, callbacks, caller, handoff, control>>

NoFlags == [exiting |-> FALSE, closing |-> FALSE, exited |-> FALSE]

Init ==
  /\ open = {}
  /\ word = [d \in Device |-> {"Paused"}]
  /\ fade = [d \in Device |-> FALSE] /\ fresh = [d \in Device |-> FALSE]
  /\ native = [d \in Device |-> "idle"]
  /\ impl = None /\ call = "none" /\ at = "free"
  /\ owner = FALSE /\ job = None /\ result = None /\ retiring = None /\ flags = NoFlags
  /\ thread = "none" /\ next = None /\ doomed = {}

-----------------------------------------------------------------------------
\* The callback of a native device.  One that finds the word not clear plays
\* silence and changes nothing.

Enter(d) ==
  /\ d \in open /\ native[d] = "idle" /\ word[d] = {}
  /\ word' = [word EXCEPT ![d] = {"InCallback"}]
  /\ native' = [native EXCEPT ![d] = "entered"]
  /\ UNCHANGED <<open, fade, fresh, caller, handoff, control>>

Deliver(d) ==
  /\ native[d] = "entered"
  /\ native' = [native EXCEPT ![d] = "client"]
  /\ fade' = [fade EXCEPT ![d] = FALSE] /\ fresh' = [fresh EXCEPT ![d] = FALSE]
  /\ UNCHANGED <<open, word, caller, handoff, control>>

\* Bug: nobody is told.
LeaveSilently(d) ==
  /\ native[d] = "client"
  /\ native' = [native EXCEPT ![d] = "idle"]
  /\ word' = [word EXCEPT ![d] = @ \ {"InCallback"}]
  /\ UNCHANGED <<open, fade, fresh, caller, handoff, control>>

\* The last step tells a caller that is waiting in PauseCallbacks.
Leave(d) ==
  /\ native[d] = "client"
  /\ native' = [native EXCEPT ![d] = "idle"]
  /\ word' = [word EXCEPT ![d] = @ \ {"InCallback"}]
  /\ at' = IF at = "parked" /\ "Paused" \in word[d] THEN "drain" ELSE at
  /\ UNCHANGED <<open, fade, fresh, impl, call, handoff, control>>

RenderOutput(d) == Enter(d) \/ Deliver(d) \/ Leave(d)

-----------------------------------------------------------------------------
\* The control thread.

\* Under the lock: it is to exit, there is something to do, or it sleeps.
Wake ==
  /\ thread = "check"
  /\ IF flags.exiting
     THEN /\ doomed' = {retiring, result} \cap Device
          /\ result' = None /\ job' = None /\ retiring' = None
          /\ next' = "exit" /\ thread' = "release"
     ELSE IF flags.closing \/ job # None
     THEN /\ doomed' = {retiring} \cap Device
          /\ next' = job /\ job' = None /\ retiring' = None
          /\ thread' = "release" /\ UNCHANGED result
     ELSE thread' = "asleep" /\ UNCHANGED <<next, doomed, job, result, retiring>>
  /\ UNCHANGED <<open, callbacks, caller, owner, flags>>

\* ~Impl waits for a callback, then closes the native device.
Retire(d) ==
  /\ thread = "release" /\ d \in doomed
  /\ word' = [word EXCEPT ![d] = @ \cup {"Paused"}]
  /\ thread' = "drain"
  /\ UNCHANGED <<open, fade, native, fresh, caller, handoff, next, doomed>>

Drained(d) ==
  /\ thread = "drain" /\ d \in doomed /\ "InCallback" \notin word[d]
  /\ thread' = "closing"
  /\ UNCHANGED <<open, callbacks, caller, handoff, next, doomed>>

NativeClose(d) ==
  /\ thread = "closing" /\ d \in doomed
  /\ open' = open \ {d} /\ doomed' = doomed \ {d} /\ thread' = "release"
  /\ UNCHANGED <<callbacks, caller, handoff, next>>

\* What there is to do once the old device is gone.
Released == thread = "release" /\ doomed = {}

NothingToRun ==
  /\ Released /\ next = None
  /\ flags' = [flags EXCEPT !.closing = FALSE] /\ thread' = "check"
  /\ UNCHANGED <<open, callbacks, caller, owner, job, result, retiring, next, doomed>>

RunEmpty ==
  /\ Released /\ next = "empty"
  /\ result' = "empty" /\ next' = None /\ thread' = "check"
  /\ UNCHANGED <<open, callbacks, caller, owner, job, retiring, flags, doomed>>

\* Bug: the job is run before the old device is gone.
RunOpenFirst ==
  /\ thread = "release" /\ next = "open" /\ thread' = "opening"
  /\ UNCHANGED <<open, callbacks, caller, handoff, next, doomed>>

RunOpen ==
  /\ Released /\ next = "open" /\ thread' = "opening"
  /\ UNCHANGED <<open, callbacks, caller, handoff, next, doomed>>

Exit ==
  /\ Released /\ next = "exit"
  /\ flags' = [flags EXCEPT !.exited = TRUE] /\ thread' = "ended"
  /\ UNCHANGED <<open, callbacks, caller, owner, job, result, retiring, next, doomed>>

\* The native device is opened, with client callbacks paused.
NewDevice(d) ==
  /\ thread = "opening" /\ d \in Device \ open
  /\ open' = open \cup {d}
  /\ word' = [word EXCEPT ![d] = {"Paused"}]
  /\ fade' = [fade EXCEPT ![d] = FALSE] /\ fresh' = [fresh EXCEPT ![d] = FALSE]
  /\ UNCHANGED <<native, caller, owner, job, retiring, flags>>

Opened(d) ==
  /\ NewDevice(d) /\ result' = d /\ next' = None /\ thread' = "check"
  /\ UNCHANGED doomed

\* It is of no use: it is closed again, and there is no result.
Unusable(d) ==
  /\ NewDevice(d) /\ doomed' = {d} /\ next' = "empty" /\ thread' = "release"
  /\ UNCHANGED result

OpenFailed ==
  /\ thread = "opening"
  /\ result' = "empty" /\ next' = None /\ thread' = "check"
  /\ UNCHANGED <<open, callbacks, caller, owner, job, retiring, flags, doomed>>

\* The native calls, which may never return.
NativeCall ==
  OpenFailed \/ \E d \in Device : NativeClose(d) \/ Opened(d) \/ Unusable(d)

Control ==
  \/ Wake \/ NothingToRun \/ RunEmpty \/ RunOpen \/ Exit
  \/ \E d \in Device : Retire(d) \/ Drained(d)

-----------------------------------------------------------------------------
\* The caller.

Free == at = "free"
IsOpening == result # None
IsOpenReady == IsOpening /\ result # "pending"

\* What the caller's own assignments destroy, it closes on its own thread.
ClosedHere(S) == open' = open \ S

Return == at' = "free" /\ call' = "none"

\* wake.notify_one
Notify == thread' = IF thread = "asleep" THEN "check" ELSE thread

\* PauseCallbacks, if there is a device.
StopFirst ==
  IF impl = None
  THEN at' = "quiet" /\ UNCHANGED word
  ELSE at' = "drain" /\ word' = [word EXCEPT ![impl] = @ \cup {"Paused"}]

Park ==
  /\ at = "drain" /\ "InCallback" \in word[impl] /\ at' = "parked"
  /\ UNCHANGED <<open, callbacks, impl, call, handoff, control>>

\* Bug: a callback that is running is not waited for.
QuietAtOnce ==
  /\ at = "drain" /\ at' = "quiet"
  /\ UNCHANGED <<open, callbacks, impl, call, handoff, control>>

Quiet ==
  /\ at = "drain" /\ "InCallback" \notin word[impl] /\ at' = "quiet"
  /\ UNCHANGED <<open, callbacks, impl, call, handoff, control>>

\* Bug: the fade is asked for when callbacks may run already.
ResumeTooSoon ==
  \/ /\ Free /\ impl # None /\ "Paused" \in word[impl]
     /\ word' = [word EXCEPT ![impl] = @ \ {"Paused"}]
     /\ fresh' = [fresh EXCEPT ![impl] = TRUE]
     /\ at' = "resume" /\ call' = "Start"
     /\ UNCHANGED <<open, fade, native, impl, handoff, control>>
  \/ /\ at = "resume"
     /\ fade' = [fade EXCEPT ![impl] = TRUE] /\ Return
     /\ UNCHANGED <<open, word, native, fresh, impl, handoff, control>>

\* Start, unless it fails first.
ResumeCallbacks ==
  \/ /\ Free /\ impl # None /\ "Paused" \in word[impl]
     /\ fade' = [fade EXCEPT ![impl] = TRUE]
     /\ at' = "resume" /\ call' = "Start"
     /\ UNCHANGED <<open, word, native, fresh, impl, handoff, control>>
  \/ /\ at = "resume"
     /\ word' = [word EXCEPT ![impl] = @ \ {"Paused"}]
     /\ fresh' = [fresh EXCEPT ![impl] = TRUE]
     /\ Return
     /\ UNCHANGED <<open, fade, native, impl, handoff, control>>

\* Stop, Open, BeginReopen and BeginClose begin with a stop.
Allowed(c) ==
  CASE c = "Stop"        -> impl # None
    [] c = "Open"        -> impl = None /\ ~IsOpening
    [] c = "BeginReopen" -> ~IsOpening
    [] c = "BeginClose"  -> impl # None /\ ~IsOpening

CreateOwner ==
  IF owner THEN UNCHANGED <<owner, thread>> ELSE owner' = TRUE /\ thread' = "check"

Call(c) ==
  /\ Free /\ Allowed(c) /\ call' = c /\ StopFirst
  /\ IF c \in {"Open", "BeginReopen"} THEN CreateOwner ELSE UNCHANGED <<owner, thread>>
  /\ UNCHANGED <<open, fade, native, fresh, impl, job, result, retiring, flags, next, doomed>>

StopReturns ==
  /\ at = "quiet" /\ call = "Stop" /\ Return
  /\ UNCHANGED <<open, callbacks, impl, handoff, control>>

\* Bug: a device that is waiting to be closed is given up for one or none.
SubmitOver ==
  /\ at = "quiet" /\ call \in {"Open", "BeginReopen", "BeginClose"}
  /\ result' = "pending" /\ job' = IF call = "BeginClose" THEN "empty" ELSE "open"
  /\ retiring' = impl /\ ClosedHere({retiring, result} \cap Device)
  /\ impl' = None /\ Notify
  /\ IF call = "Open" THEN at' = "opening" /\ UNCHANGED call ELSE Return
  /\ UNCHANGED <<callbacks, owner, flags, next, doomed>>

\* Under the lock: a device that is waiting to be closed keeps its place.
Submit ==
  /\ at = "quiet" /\ call \in {"Open", "BeginReopen", "BeginClose"}
  /\ result' = "pending" /\ job' = IF call = "BeginClose" THEN "empty" ELSE "open"
  /\ IF impl # None
     THEN retiring' = impl /\ ClosedHere({retiring, result} \cap Device)
     ELSE UNCHANGED retiring /\ ClosedHere({result} \cap Device)
  /\ impl' = None /\ Notify
  /\ IF call = "Open" THEN at' = "opening" /\ UNCHANGED call ELSE Return
  /\ UNCHANGED <<callbacks, owner, flags, next, doomed>>

\* The result is taken; a device it had before would be closed here.
Adopt ==
  /\ IsOpenReady /\ result' = None
  /\ impl' = IF result \in Device THEN result ELSE impl
  /\ ClosedHere(IF result \in Device THEN {impl} \cap Device ELSE {})

FinishReopen ==
  /\ Free /\ Adopt
  /\ UNCHANGED <<callbacks, call, at, owner, job, retiring, flags, control>>

OpenReturns ==
  /\ at = "opening" /\ Adopt /\ Return
  /\ UNCHANGED <<callbacks, owner, job, retiring, flags, control>>

\* Close, for its own sake or in the destructor, first takes an open that is
\* still outstanding.
Close(c) ==
  /\ Free /\ call' = c /\ at' = IF IsOpening THEN "outstanding" ELSE "close"
  /\ UNCHANGED <<open, callbacks, impl, handoff, control>>

TakeOutstanding ==
  /\ at = "outstanding" /\ Adopt /\ at' = "close"
  /\ UNCHANGED <<callbacks, call, owner, job, retiring, flags, control>>

CloseReturns == IF call = "Close" THEN Return ELSE at' = "destroy" /\ UNCHANGED call

CloseDevice ==
  /\ at = "close"
  /\ IF impl = None THEN CloseReturns /\ UNCHANGED word ELSE StopFirst /\ UNCHANGED call
  /\ UNCHANGED <<open, fade, native, fresh, impl, handoff, control>>

OwnerClose ==
  /\ at = "quiet" /\ call \in {"Close", "Destroy"}
  /\ retiring' = impl /\ ClosedHere({retiring} \cap Device) /\ impl' = None
  /\ flags' = [flags EXCEPT !.closing = TRUE] /\ Notify
  /\ at' = "closing"
  /\ UNCHANGED <<callbacks, call, owner, job, result, next, doomed>>

CloseDone ==
  /\ at = "closing" /\ ~flags.closing /\ CloseReturns
  /\ UNCHANGED <<open, callbacks, impl, handoff, control>>

\* ~AudioOutput: its device, if it has one, then ~Owner.
Destroy ==
  /\ at = "destroy" /\ ClosedHere({impl} \cap Device) /\ impl' = None
  /\ IF owner
     THEN /\ flags' = [flags EXCEPT !.exiting = TRUE] /\ Notify
          /\ at' = "exiting" /\ UNCHANGED call
     ELSE Return /\ UNCHANGED <<flags, thread>>
  /\ UNCHANGED <<callbacks, owner, job, result, retiring, next, doomed>>

ExitSeen ==
  /\ at = "exiting" /\ flags.exited /\ at' = "join"
  /\ UNCHANGED <<open, callbacks, impl, call, handoff, control>>

\* Bug: the thread is detached.
Detach ==
  /\ at = "join"
  /\ ClosedHere({retiring, result} \cap Device)
  /\ owner' = FALSE /\ job' = None /\ result' = None /\ retiring' = None
  /\ flags' = NoFlags /\ thread' = "none" /\ next' = None /\ doomed' = {}
  /\ Return
  /\ UNCHANGED <<callbacks, impl>>

\* The thread has ended and its Owner is destroyed with what is left in it.
Join ==
  /\ at = "join" /\ thread = "ended"
  /\ ClosedHere({retiring, result} \cap Device)
  /\ owner' = FALSE /\ job' = None /\ result' = None /\ retiring' = None
  /\ flags' = NoFlags /\ thread' = "none" /\ next' = None /\ doomed' = {}
  /\ Return
  /\ UNCHANGED <<callbacks, impl>>

\* Every bounded wait may expire.
TimeOut ==
  /\ \/ at = "opening" /\ Return
     \/ at \in {"outstanding", "closing"} /\ CloseReturns
     \/ at = "exiting" /\ at' = "join" /\ UNCHANGED call
  /\ UNCHANGED <<open, callbacks, impl, handoff, control>>

-----------------------------------------------------------------------------
Begin ==
  \/ \E c \in {"Stop", "Open", "BeginReopen", "BeginClose"} : Call(c)
  \/ \E c \in {"Close", "Destroy"} : Close(c)
  \/ FinishReopen

Continue ==
  \/ Park \/ Quiet \/ ResumeCallbacks \/ StopReturns \/ Submit \/ OpenReturns
  \/ TakeOutstanding \/ CloseDevice \/ OwnerClose \/ CloseDone
  \/ Destroy \/ ExitSeen \/ Join \/ TimeOut

Next ==
  \/ \E d \in Device : RenderOutput(d)
  \/ Control \/ NativeCall \/ Begin \/ Continue

Spec == Init /\ [][Next]_vars

\* The threads run, waits are bounded and client callbacks return.  The
\* native calls of the control thread may hang.
Fairness ==
  /\ WF_vars(~Free /\ Continue) /\ WF_vars(Control)
  /\ \A d \in Device : WF_vars(Deliver(d) \/ Leave(d))

FairSpec == Spec /\ Fairness

-----------------------------------------------------------------------------
\* Properties.

\* Every variable has its type.
TypeOK ==
  /\ open \subseteq Device
  /\ word \in [Device -> SUBSET {"Paused", "InCallback"}]
  /\ fade \in [Device -> BOOLEAN] /\ fresh \in [Device -> BOOLEAN]
  /\ native \in [Device -> {"idle", "entered", "client"}]
  /\ impl \in Device \cup {None}
  /\ call \in {"none", "Start", "Stop", "Open", "BeginReopen", "BeginClose", "Close", "Destroy"}
  /\ at \in {"free", "drain", "parked", "quiet", "resume", "opening", "outstanding", "close",
             "closing", "destroy", "exiting", "join"}
  /\ owner \in BOOLEAN /\ job \in {None, "open", "empty"}
  /\ result \in Device \cup {None, "pending", "empty"}
  /\ retiring \in Device \cup {None}
  /\ flags \in [exiting : BOOLEAN, closing : BOOLEAN, exited : BOOLEAN]
  /\ thread \in {"none", "check", "asleep", "release", "drain", "closing", "opening", "ended"}
  /\ next \in {None, "open", "empty", "exit"}
  /\ doomed \subseteq Device

\* "The retired device was released on the control thread before the deferred
\* open could report ready" (tests/FrontendAudio.cpp:467): no two devices of an
\* output are open at once, and none while another is being opened.
OneDevice ==
  /\ \A d, e \in open : d = e
  /\ thread = "opening" => open = {}

\* Stop "waits until client callbacks finish" (AudioOutput.h:54): the client is
\* called only for the device in use, and not between a stop and a start.
ClientIsQuiet ==
  \A d \in Device :
    native[d] # "idle" =>
      d = impl /\ ("Paused" \notin word[d] \/ at \in {"drain", "parked"})

\* What the client plays first after a start is faded in.
FadesIn ==
  [][\A d \in Device :
       native[d] = "entered" /\ native'[d] = "client" /\ fresh[d] => fade[d]]_vars

\* "It owns COM initialization and destruction, including failed/stale opens"
\* (AudioOutput.cpp:208): only the control thread closes a native device.
ReleasedByOwner ==
  [][\A d \in open \ open' : thread = "closing" /\ d \in doomed]_vars

\* "the control thread leaves before the queue's storage or a captured Impl
\* can be released" (AudioOutput.cpp:276): an output that is gone leaves
\* nothing open.
NothingLeft == ~owner => open = {} /\ thread = "none"

\* "Routine Open/Close waits are bounded; callback drain and the final
\* destructor join still wait for native work" (AudioOutput.h:45): a call
\* returns even if a native call hangs, and the destructor if none hangs.
NativeReturns == []<>(thread \notin {"opening", "closing"})

CallsReturn ==
  /\ (call \notin {"none", "Destroy"}) ~> (call = "none" \/ call = "Destroy")
  /\ NativeReturns => (call = "Destroy") ~> (call = "none")
====
