----------------------------- MODULE EmuMessages -----------------------------
(* The messages from the user interface to the emulation thread: a queue, a *)
(* semaphore with a permit for each message handled, a stop token that cuts *)
(* long work short, and what the messages do to the state of the console:   *)
(* running, nested pauses, single frames, sound, the loan of the graphics   *)
(* context.  Both threads send: hotkeys and a guest that powers off send    *)
(* from the emulation thread, which never waits for itself.                 *)
EXTENDS Integers, Sequences

CONSTANTS
  MaxCalls,   \* bound: operations of the user interface
  MaxKeys,    \* bound: messages begun by the emulation thread
  MaxFaults   \* bound: failures to make the graphics context current

ASSUME BoundAssumption == MaxCalls \in Nat /\ MaxKeys \in Nat /\ MaxFaults \in Nat

VARIABLES
  queue,        \* msgQueue; asked: the sender waits for this message alone
  permits,      \* msgSemaphore
  stop,         \* cheatStopSource has been asked to stop
  result,       \* msgResult
  core,         \* status, pauses, activity, failed recovery, sound
  gl,           \* the root context: "off", "on", "failed"
  glBorrowed,
  at,           \* the emulation thread's control point
  lent,         \* glborrow: the context was lent in this pass
  interrupted,  \* audioSyncInterrupted
  ui,           \* the user interface's control point and operation
  unclaimed,    \* history: permits nobody will take, or will by chance
  slipped,      \* history: a message met a state it was not sent for
  misled,        \* history: a wait has ended early, or another message's result was read
  keys, calls, faults

box     == <<queue, permits, stop, unclaimed>>
past    == <<slipped, misled>>
screen  == <<gl, glBorrowed, faults>>
thread  == <<at, lent, interrupted>>
vars == <<queue, permits, stop, result, core, gl, glBorrowed, at, lent,
          interrupted, ui, unclaimed, slipped, misled, keys, calls, faults>>

Controls == {"exit", "pause", "unpause", "initgl", "deinitgl", "borrow", "cache"}
Asked    == {"pause", "unpause", "stop", "reset", "load", "boot", "run", "cart",
             "initgl", "deinitgl", "borrow"}
Kinds    == Controls \cup Asked \cup {"step"}
Message  == [kind : Kinds, asked : BOOLEAN]
Core     == [status : {"Exit", "Running", "Paused", "FrameStep"},
             prev : {"Exit", "Running", "Paused"}, stack : Nat,
             active : BOOLEAN, broken : BOOLEAN, audio : BOOLEAN]

NoOp == [at |-> "idle", op |-> "none"]

Init ==
  /\ queue = <<>> /\ permits = 0 /\ stop = FALSE /\ result = 0
  /\ core = [status |-> "Paused", prev |-> "Paused", stack |-> 0, active |-> FALSE,
             broken |-> FALSE, audio |-> FALSE]
  /\ gl \in {"off", "on", "failed"} /\ glBorrowed = FALSE
  /\ at = "loop" /\ lent = FALSE /\ interrupted = FALSE
  /\ ui = NoOp
  /\ unclaimed = 0 /\ slipped = FALSE /\ misled = FALSE
  /\ keys = 0 /\ calls = 0 /\ faults = 0

-----------------------------------------------------------------------------
(* Sending. *)

(* The queue is locked while the emulation thread handles messages.         *)
SendMessage(kind, asked) ==
  /\ at # "handling"
  /\ queue' = Append(queue, [kind |-> kind, asked |-> asked])
  /\ stop' = TRUE
  /\ UNCHANGED permits

\* Bug: a request queued before the frame takes its token is lost.
TokenAlwaysNew == stop' = FALSE

(* A new token, unless a message that came before it is still queued.       *)
CheatStopToken == stop' = (stop /\ queue # <<>>)

-----------------------------------------------------------------------------
(* What a message does to the console. *)

Quiet(c)  == [c EXCEPT !.audio = FALSE]
Resume(c) == [c EXCEPT !.audio = c.status = "Running"]

Run(c) ==
  IF c.broken THEN c
  ELSE [c EXCEPT !.status = "Running", !.stack = 0, !.active = TRUE, !.audio = TRUE]

(* A nested pause, too, suspends a frame step.                              *)
Pause(c) ==
  LET halted == IF c.status = "FrameStep" THEN [Quiet(c) EXCEPT !.status = "Paused"] ELSE c
  IN  IF c.stack > 0 THEN [halted EXCEPT !.stack = @ + 1]
      ELSE [halted EXCEPT !.stack = 1, !.prev = halted.status, !.status = "Paused",
                          !.audio = @ /\ halted.status = "Paused"]

\* Bug: the first pause to end resumes the console; one too many is counted.
UnpauseAtOnce(c) ==
  IF c.broken THEN c
  ELSE [c EXCEPT !.stack = @ - 1, !.status = c.prev,
                 !.audio = @ \/ (c.prev # "Paused" /\ gl # "failed")]

Unpause(c) ==
  IF c.broken \/ c.stack = 0 THEN c
  ELSE IF c.stack > 1 THEN [c EXCEPT !.stack = @ - 1]
  ELSE [c EXCEPT !.stack = 0, !.status = c.prev,
                 !.audio = @ \/ (c.prev # "Paused" /\ gl # "failed")]

Stop(c) == [Quiet(c) EXCEPT !.status = "Paused", !.active = FALSE]
Step(c) == IF c.broken THEN c ELSE [c EXCEPT !.status = "FrameStep"]
Exit(c) == [Quiet(c) EXCEPT !.status = "Exit", !.stack = 0]

(* The old console is gone and the new one cannot run.                      *)
Fail(c) == [Stop(c) EXCEPT !.broken = TRUE, !.prev = "Paused", !.stack = 0]

(* Console and answer after a message; most can fail in ways that keep the  *)
(* present session, and some in ways that end it.                           *)
Outcome(kind, c) ==
  CASE kind = "exit"    -> {<<Exit(c), result>>}
    [] kind = "run"     -> {<<Run(c), result>>}
    [] kind = "pause"   -> {<<Pause(c), result>>}
    [] kind = "unpause" -> {<<Unpause(c), result>>}
    [] kind = "stop"    -> {<<Stop(c), result>>}
    [] kind = "step"    -> {<<Step(c), result>>}
    [] kind = "reset"   -> {<<Run([c EXCEPT !.broken = FALSE]), 1>>, <<Resume(c), 0>>,
                            <<c, 0>>, <<Fail(c), 0>>}
    [] kind = "load"    -> {<<Fail(c), 0>>} \cup
                           (IF c.broken THEN {} ELSE {Resume(c)} \X {0, 1})
    [] kind = "boot"    -> {<<Quiet([c EXCEPT !.broken = FALSE]), 1>>, <<Resume(c), 0>>,
                            <<Fail(c), 0>>}
    [] kind = "cart"    -> {c} \X {0, 1}
    [] kind = "cache"   -> {<<c, result>>}

-----------------------------------------------------------------------------
(* The graphics context. *)

ReportGLFailure(c) == gl' = "failed" /\ core' = Quiet(c)

(* It is made current for every message and frame that may draw.            *)
PrepareGL == gl # "failed"
LoseGL == gl = "on" /\ faults < MaxFaults /\ faults' = faults + 1 /\ UNCHANGED glBorrowed

(* The sound goes on when graphics have recovered.                          *)
ClearGLFailure(c) ==
  IF gl = "failed" /\ c.active /\ c.status = "Running" THEN [c EXCEPT !.audio = TRUE] ELSE c

-----------------------------------------------------------------------------
(* The emulation thread handles messages. *)

Handling == at = "handling" /\ queue # <<>>
Current == Head(queue)

\* Bug: a message that is refused is not acknowledged.
AcknowledgeHandled ==
  /\ queue' = Tail(queue)
  /\ permits' = IF gl = "failed" /\ Current.kind \notin Controls THEN permits ELSE permits + 1
  /\ UNCHANGED <<stop, unclaimed>>

\* Bug: a message that is refused is acknowledged twice.
AcknowledgeTwice ==
  /\ queue' = Tail(queue)
  /\ permits' = IF gl = "failed" /\ Current.kind \notin Controls THEN permits + 2 ELSE permits + 1
  /\ UNCHANGED <<stop, unclaimed>>

(* One permit for each message, whatever came of it.                        *)
Acknowledge ==
  /\ queue' = Tail(queue) /\ permits' = permits + 1
  /\ UNCHANGED <<stop, unclaimed>>

(* The messages the interface waits for have been handled.                  *)
Answered == \A i \in 1 .. Len(queue) : ~queue[i].asked

Slip == slipped' = (slipped \/ core.status = "Exit"
                            \/ (Current.kind = "step" /\ core.stack = 0 /\ ~core.broken))

HandleConsole ==
  /\ Handling /\ Current.kind \notin {"initgl", "deinitgl", "borrow"}
  /\ Current.kind \in Controls \/ PrepareGL
  /\ Acknowledge /\ Slip
  /\ \E o \in Outcome(Current.kind, core) : core' = o[1] /\ result' = o[2]
  /\ UNCHANGED <<screen, thread, ui, misled, keys, calls>>

(* Without the context nothing but controls is carried out.                 *)
Refuse ==
  /\ Handling /\ Current.kind \notin Controls
  /\ \/ ~PrepareGL /\ UNCHANGED <<screen, core>>
     \/ LoseGL /\ ReportGLFailure(core)
  /\ Acknowledge /\ Slip /\ result' = 0
  /\ misled' = (misled \/ (ui.at = "wait" /\ Answered /\ result # 0))
  /\ UNCHANGED <<thread, ui, keys, calls>>

HandleInitGL ==
  /\ Handling /\ Current.kind = "initgl"
  /\ Acknowledge /\ Slip
  /\ \/ gl' = "on" /\ core' = ClearGLFailure(core) /\ UNCHANGED faults
     \/ faults < MaxFaults /\ faults' = faults + 1 /\ ReportGLFailure(core)
  /\ UNCHANGED <<result, glBorrowed, thread, ui, misled, keys, calls>>

HandleDeInitGL ==
  /\ Handling /\ Current.kind = "deinitgl"
  /\ Acknowledge /\ Slip
  /\ \/ gl' = "off" /\ core' = ClearGLFailure(core) /\ result' = 1 /\ UNCHANGED faults
     \/ faults < MaxFaults /\ faults' = faults + 1 /\ ReportGLFailure(core) /\ result' = 0
  /\ UNCHANGED <<glBorrowed, thread, ui, misled, keys, calls>>

\* Bug: the loan is not recorded before it is announced.
HandleBorrowLate ==
  /\ Handling /\ Current.kind = "borrow"
  /\ Acknowledge /\ Slip /\ lent' = TRUE /\ result' = 1
  /\ UNCHANGED <<screen, core, at, interrupted, ui, misled, keys, calls>>

(* The loan is announced before the permit; the thread stops after the      *)
(* messages behind it.                                                      *)
HandleBorrow ==
  /\ Handling /\ Current.kind = "borrow"
  /\ Acknowledge /\ Slip
  /\ \/ glBorrowed' = TRUE /\ lent' = TRUE /\ result' = 1 /\ UNCHANGED <<gl, core, faults>>
     \/ LoseGL /\ ReportGLFailure(core) /\ result' = 0 /\ UNCHANGED lent
  /\ UNCHANGED <<at, interrupted, ui, misled, keys, calls>>

Lock ==
  /\ at = "handle" /\ at' = "handling"
  /\ UNCHANGED <<box, result, core, screen, lent, interrupted, ui, past, keys, calls>>

Loop == IF core.status = "Exit" THEN "gone" ELSE "loop"

Unlock ==
  /\ at = "handling" /\ queue = <<>>
  /\ at' = IF lent THEN "lent" ELSE Loop
  /\ UNCHANGED <<box, result, core, screen, lent, interrupted, ui, past, keys, calls>>

LoanEnds ==
  /\ at = "lent" /\ ~glBorrowed
  /\ at' = Loop /\ lent' = FALSE
  /\ UNCHANGED <<box, result, core, screen, interrupted, ui, past, keys, calls>>

-----------------------------------------------------------------------------
(* The emulation thread's loop. *)

Runs == core.status \in {"Running", "FrameStep"}

(* The wait for the sound that a message had cut short is completed first.  *)
ResumeSync ==
  /\ at = "loop" /\ interrupted /\ Runs
  /\ CheatStopToken
  /\ IF stop' THEN at' = "handle" /\ UNCHANGED interrupted
     ELSE interrupted' = FALSE /\ UNCHANGED at
  /\ UNCHANGED <<queue, permits, unclaimed, result, core, screen, lent, ui, past, keys, calls>>

BeginPass ==
  /\ at = "loop" /\ ~(interrupted /\ Runs) /\ at' = "input"
  /\ \/ UNCHANGED <<core, screen>>
     \/ LoseGL /\ ReportGLFailure(core)
  /\ UNCHANGED <<box, result, lent, interrupted, ui, past, keys, calls>>

(* A message of the thread's own: it will not take the permit.              *)
SendOwn(kind) == SendMessage(kind, FALSE) /\ unclaimed' = unclaimed + 1

PauseKey ==
  /\ at = "input" /\ keys < MaxKeys /\ keys' = keys + 1
  /\ SendOwn(IF core.status = "Paused" THEN "unpause" ELSE "pause")
  /\ at' = "input2"
  /\ UNCHANGED <<result, core, screen, lent, interrupted, ui, past, calls>>

StepKey ==
  /\ at \in {"input", "input2"} /\ keys < MaxKeys /\ keys' = keys + 1
  /\ IF core.stack = 0 THEN SendOwn("pause") ELSE UNCHANGED box
  /\ at' = "stepping"
  /\ UNCHANGED <<result, core, screen, lent, interrupted, ui, past, calls>>

StepKeySent ==
  /\ at = "stepping" /\ SendOwn("step")
  /\ at' = "work"
  /\ UNCHANGED <<result, core, screen, lent, interrupted, ui, past, keys, calls>>

EndInput ==
  /\ at \in {"input", "input2"} /\ at' = "work"
  /\ UNCHANGED <<box, result, core, screen, lent, interrupted, ui, past, keys, calls>>

(* A frame step is one frame; then the console is paused.                   *)
BeginFrame ==
  /\ at = "work" /\ gl # "failed" /\ Runs
  /\ core' = IF core.status = "FrameStep" THEN [core EXCEPT !.status = "Paused"] ELSE core
  /\ CheatStopToken /\ at' = "frame"
  /\ UNCHANGED <<queue, permits, unclaimed, result, screen, lent, interrupted, ui, past, keys, calls>>

(* Nothing to run, or nothing to draw on.                                   *)
Rest ==
  /\ at = "work" /\ (gl = "failed" \/ ~Runs) /\ at' = "handle"
  /\ \/ UNCHANGED <<core, screen>>
     \/ LoseGL /\ ReportGLFailure(core)
  /\ UNCHANGED <<box, result, lent, interrupted, ui, past, keys, calls>>

(* The guest switches itself off.                                           *)
PowerOff ==
  /\ at = "frame" /\ keys < MaxKeys /\ keys' = keys + 1
  /\ SendOwn("stop") /\ at' = "framed"
  /\ UNCHANGED <<result, core, screen, lent, interrupted, ui, past, calls>>

(* The picture is drawn, and the sound of the frame is waited for.          *)
EndFrame ==
  /\ at \in {"frame", "framed"}
  /\ \/ CheatStopToken /\ at' = "sync" /\ UNCHANGED <<core, screen>>
     \/ LoseGL /\ ReportGLFailure(core) /\ at' = "handle" /\ UNCHANGED stop
  /\ UNCHANGED <<queue, permits, unclaimed, result, lent, interrupted, ui, past, keys, calls>>

EndSync ==
  /\ at = "sync" /\ interrupted' = stop /\ at' = "handle"
  /\ UNCHANGED <<box, result, core, screen, lent, ui, past, keys, calls>>

Emulation ==
  \/ HandleConsole \/ Refuse \/ HandleInitGL \/ HandleDeInitGL \/ HandleBorrow
  \/ Lock \/ Unlock \/ LoanEnds
  \/ ResumeSync \/ BeginPass \/ EndInput \/ StepKeySent
  \/ BeginFrame \/ Rest \/ EndFrame \/ EndSync

Keys == PauseKey \/ StepKey \/ PowerOff

-----------------------------------------------------------------------------
(* The user interface. *)

Begin == ui.at = "idle" /\ calls < MaxCalls /\ calls' = calls + 1
Go(place, op) == ui' = [at |-> place, op |-> op]

(* A message and the wait for it.  The menu offers some only for a console  *)
(* that is switched on.                                                     *)
Call(op) ==
  /\ Begin /\ op # "run" /\ (op \in {"stop", "reset"} => core.active)
  /\ SendMessage(op, TRUE) /\ Go("wait", op)
  /\ UNCHANGED <<unclaimed, result, core, screen, thread, past, keys>>

(* waitMessage returns with any permit, and the result is read.             *)
WaitMessage ==
  /\ ui.at = "wait" /\ permits > 0 /\ permits' = permits - 1
  /\ ui' = IF ui.op = "boot" /\ result = 1 THEN [at |-> "booted", op |-> "run"]
           ELSE IF ui.op = "borrow" /\ result = 1 THEN [at |-> "holding", op |-> "borrow"]
           ELSE NoOp
  /\ misled' = (misled \/ ~Answered)
  /\ UNCHANGED <<queue, stop, unclaimed, result, core, screen, thread, slipped, keys, calls>>

(* A console that has booted is told to run.                                *)
RunBooted ==
  /\ ui.at = "booted"
  /\ SendMessage("run", TRUE) /\ Go("wait", "run")
  /\ UNCHANGED <<unclaimed, result, core, screen, thread, past, keys, calls>>

\* Bug: the return is a signal, lost unless the thread waits for it already.
ReturnGLBySignal ==
  /\ ui.at = "holding" /\ glBorrowed' = (at # "lent") /\ ui' = NoOp
  /\ UNCHANGED <<box, result, core, gl, faults, thread, past, keys, calls>>

ReturnGL ==
  /\ ui.at = "holding" /\ glBorrowed' = FALSE /\ ui' = NoOp
  /\ UNCHANGED <<box, result, core, gl, faults, thread, past, keys, calls>>

(* The video settings clear a cache and do not wait.                        *)
ClearRendererCache ==
  /\ Begin /\ SendMessage("cache", FALSE) /\ unclaimed' = unclaimed + 1
  /\ UNCHANGED <<ui, result, core, screen, thread, past, keys>>

EmuFrameStep ==
  /\ Begin /\ core.active /\ Go("stepping", "step")
  /\ IF core.stack = 0 THEN SendMessage("pause", FALSE) /\ unclaimed' = unclaimed + 1
     ELSE UNCHANGED box
  /\ UNCHANGED <<result, core, screen, thread, past, keys>>

StepSent ==
  /\ ui.at = "stepping" /\ Go("waitall", "step")
  /\ SendMessage("step", FALSE) /\ unclaimed' = unclaimed + 1
  /\ UNCHANGED <<result, core, screen, thread, past, keys, calls>>

EmuExit ==
  /\ Begin /\ Go("waitall", "exit")
  /\ SendMessage("exit", FALSE) /\ unclaimed' = unclaimed + 1
  /\ UNCHANGED <<result, core, screen, thread, past, keys>>

(* waitAllMessages looks at the queue without the lock.                     *)
WaitAllMessages ==
  /\ ui.at = "waitall"
  /\ ui' = IF queue # <<>> THEN [ui EXCEPT !.at = "acquire"]
           ELSE IF ui.op = "exit" THEN [ui EXCEPT !.at = "joining"] ELSE NoOp
  /\ UNCHANGED <<box, result, core, screen, thread, past, keys, calls>>

Acquire ==
  /\ ui.at = "acquire" /\ permits > 0
  /\ permits' = permits - 1 /\ unclaimed' = unclaimed - 1
  /\ ui' = [ui EXCEPT !.at = "waitall"]
  /\ UNCHANGED <<queue, stop, result, core, screen, thread, past, keys, calls>>

Join ==
  /\ ui.at = "joining" /\ at = "gone" /\ ui' = [ui EXCEPT !.at = "gone"]
  /\ UNCHANGED <<box, result, core, screen, thread, past, keys, calls>>

Waiting == WaitMessage \/ RunBooted \/ ReturnGL \/ StepSent \/ WaitAllMessages \/ Acquire \/ Join

Calling == (\E op \in Asked : Call(op)) \/ ClearRendererCache \/ EmuFrameStep \/ EmuExit

-----------------------------------------------------------------------------
Next == Emulation \/ Keys \/ Waiting \/ Calling

Spec == Init /\ [][Next]_vars

(* Both threads run on, and one that waits for the queue's lock gets it;    *)
(* keys, the guest and the user are free.                                   *)
FairSpec == Spec /\ WF_vars(Emulation) /\ SF_vars(Waiting)

-----------------------------------------------------------------------------
(* Properties. *)

Awaited == IF ui.at = "wait" THEN 1 ELSE 0

(* Every variable has its type. *)
TypeOK ==
  /\ queue \in Seq(Message) /\ permits \in Nat /\ stop \in BOOLEAN /\ result \in {0, 1}
  /\ core \in Core
  /\ gl \in {"off", "on", "failed"} /\ glBorrowed \in BOOLEAN
  /\ at \in {"loop", "input", "input2", "stepping", "work", "frame", "framed", "sync",
             "handle", "handling", "lent", "gone"}
  /\ lent \in BOOLEAN /\ interrupted \in BOOLEAN
  /\ ui \in [at : {"idle", "wait", "booted", "holding", "stepping", "waitall",
                   "acquire", "joining", "gone"},
             op : Asked \cup {"none", "step", "exit"}]
  /\ unclaimed \in Int /\ slipped \in BOOLEAN /\ misled \in BOOLEAN
  /\ keys \in 0 .. MaxKeys /\ calls \in 0 .. MaxCalls /\ faults \in 0 .. MaxFaults

(* Permits and messages are conserved: those posted and those to come are   *)
(* what the present wait is owed and what nobody asked for.  A message that *)
(* is answered twice, or refused without an answer, breaks the count.       *)
PermitsMatch == permits + Len(queue) = unclaimed + Awaited

(* waitMessage returns when its message has been handled, provided no       *)
(* permit is about that nobody asked for.                                   *)
WaitIsAnswered ==
  [][ui.at = "wait" /\ ui'.at # "wait" /\ unclaimed = 0 => Answered]_vars

(* "Do not lose a request queued before this frame acquires its token"      *)
(* (EmuThread.cpp:685): while a message waits, long work is told to stop.   *)
StopReachesWork == queue # <<>> => stop

(* Pauses nest: nothing runs while any is held; a console that is paused    *)
(* and switched on is held by somebody who can resume it.  The sound is on  *)
(* only while the console runs and can be seen.  A frame step that has met  *)
(* a console somebody resumed in between, and whatever follows an exit, are *)
(* excepted.                                                                *)
PausesNest ==
  \/ slipped
  \/ /\ core.status = "Running" => core.stack = 0
     /\ core.status = "Paused" /\ core.active => core.stack > 0
     /\ core.audio => core.status = "Running" /\ gl # "failed"

(* main.h:63 promises to "stop every running worker": while the interface   *)
(* holds the context, the thread is on its way to wait for its return.      *)
LoanStopsWorker == ui.at = "holding" => lent

(* The same, provided no wait has been misled; and the loan is recorded     *)
(* where its return will be.                                                *)
LoanIsHonoured ==
  ui.at = "holding" /\ ~misled => lent /\ glBorrowed

(* Every call of the user interface returns, and the thread ends when told, *)
(* unless a wait has been misled or a message slipped.                      *)
CallReturns ==
  (ui.at # "idle") ~> (ui.at \in {"idle", "gone"} \/ misled \/ slipped)
=============================================================================
