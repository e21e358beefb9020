-------------------------- MODULE EmuMessagesProofs --------------------------
(***************************************************************************)
(* Theorems about EmuMessages, for every number of calls, keys and         *)
(* failures of the graphics context.                                       *)
(***************************************************************************)
EXTENDS EmuMessages, SequenceTheorems, TLAPS

(* A queue after a message: one longer, the new message last.              *)
LEMMA Sent ==
  ASSUME NEW q \in Seq(Message), NEW m \in Message
  PROVE  /\ Append(q, m) \in Seq(Message)
         /\ Len(Append(q, m)) = Len(q) + 1
         /\ \A i \in 1 .. Len(q) : Append(q, m)[i] = q[i]
         /\ Append(q, m)[Len(q) + 1] = m
         /\ Len(q) \in Nat
  OBVIOUS

(* A queue after its first message has been taken: one shorter.            *)
LEMMA Taken ==
  ASSUME NEW q \in Seq(Message), q # <<>>
  PROVE  /\ Head(q) \in Message /\ Head(q) = q[1]
         /\ Tail(q) \in Seq(Message)
         /\ Len(Tail(q)) = Len(q) - 1
         /\ \A i \in 1 .. Len(q) - 1 : Tail(q)[i] = q[i + 1]
         /\ Len(q) \in Nat \ {0}
<1>1. Len(q) \in Nat \ {0}
  BY EmptySeq
<1> QED
  BY <1>1, HeadTailProperties

(* What every control point sends is a message.                            *)
LEMMA Sendable ==
  ASSUME NEW kind \in Kinds, NEW asked \in BOOLEAN
  PROVE  [kind |-> kind, asked |-> asked] \in Message
  BY DEF Message

(* The messages that user interface and thread send by name.               *)
LEMMA SentKinds ==
  /\ {"pause", "unpause", "stop", "step", "cache", "exit", "run"} \subseteq Kinds
  /\ Asked \subseteq Kinds
  BY DEF Kinds, Controls, Asked

(* Every operator on the console returns one.                              *)
LEMMA CoreOperators ==
  ASSUME NEW c \in Core
  PROVE  /\ Quiet(c) \in Core /\ Resume(c) \in Core /\ Run(c) \in Core
         /\ Pause(c) \in Core /\ Unpause(c) \in Core /\ Stop(c) \in Core
         /\ Step(c) \in Core /\ Exit(c) \in Core /\ Fail(c) \in Core
         /\ ClearGLFailure(c) \in Core
         /\ [c EXCEPT !.broken = FALSE] \in Core
         /\ Run([c EXCEPT !.broken = FALSE]) \in Core
         /\ Quiet([c EXCEPT !.broken = FALSE]) \in Core
         /\ (IF c.status = "FrameStep" THEN [c EXCEPT !.status = "Paused"] ELSE c) \in Core
<1>1. /\ Quiet(c) \in Core /\ Resume(c) \in Core /\ Run(c) \in Core
      /\ Stop(c) \in Core /\ Step(c) \in Core /\ Exit(c) \in Core
      /\ ClearGLFailure(c) \in Core
  BY DEF Core, Quiet, Resume, Run, Stop, Step, Exit, ClearGLFailure
<1>2. Fail(c) \in Core
  BY <1>1 DEF Core, Fail
<1>3. Unpause(c) \in Core
  <2> DEFINE sound == c.audio \/ (c.prev # "Paused" /\ gl # "failed")
  <2>1. sound \in BOOLEAN
    OBVIOUS
  <2>2. Unpause(c) = IF c.broken \/ c.stack = 0 THEN c
                     ELSE IF c.stack > 1 THEN [c EXCEPT !.stack = c.stack - 1]
                     ELSE [c EXCEPT !.stack = 0, !.status = c.prev, !.audio = sound]
    BY DEF Unpause
  <2> HIDE DEF sound
  <2>3. [c EXCEPT !.stack = 0, !.status = c.prev, !.audio = sound] \in Core
    BY <2>1 DEF Core
  <2>4. c.stack > 1 => [c EXCEPT !.stack = c.stack - 1] \in Core
    BY DEF Core
  <2> QED
    BY <2>2, <2>3, <2>4
<1>4. Pause(c) \in Core
  <2> DEFINE halted == IF c.status = "FrameStep" THEN [Quiet(c) EXCEPT !.status = "Paused"]
                       ELSE c
             sound == halted.audio /\ halted.status = "Paused"
  <2>1. halted \in Core /\ halted.status \in {"Exit", "Running", "Paused"}
    BY <1>1 DEF Core
  <2>2. sound \in BOOLEAN
    OBVIOUS
  <2>3. Pause(c) = IF c.stack > 0 THEN [halted EXCEPT !.stack = halted.stack + 1]
                   ELSE [halted EXCEPT !.stack = 1, !.prev = halted.status,
                                       !.status = "Paused", !.audio = sound]
    BY DEF Pause
  <2> HIDE DEF halted, sound
  <2>4. [halted EXCEPT !.stack = halted.stack + 1] \in Core
    BY <2>1 DEF Core
  <2>5. [halted EXCEPT !.stack = 1, !.prev = halted.status,
                       !.status = "Paused", !.audio = sound] \in Core
    BY <2>1, <2>2 DEF Core
  <2> QED
    BY <2>3, <2>4, <2>5
<1>5. /\ [c EXCEPT !.broken = FALSE] \in Core
      /\ Run([c EXCEPT !.broken = FALSE]) \in Core
      /\ Quiet([c EXCEPT !.broken = FALSE]) \in Core
      /\ (IF c.status = "FrameStep" THEN [c EXCEPT !.status = "Paused"] ELSE c) \in Core
  BY DEF Core, Run, Quiet
<1> QED
  BY <1>1, <1>2, <1>3, <1>4, <1>5

(* A message leaves a console and an answer.                               *)
LEMMA OutcomeType ==
  ASSUME NEW c \in Core, result \in {0, 1},
         NEW kind \in Kinds \ {"initgl", "deinitgl", "borrow"},
         NEW o \in Outcome(kind, c)
  PROVE  o[1] \in Core /\ o[2] \in {0, 1}
<1>1. kind \in {"exit", "run", "pause", "unpause", "stop", "step", "reset", "load",
                "boot", "cart", "cache"}
  BY DEF Kinds, Controls, Asked
<1>2. CASE kind \in {"exit", "run", "pause", "unpause", "stop", "step", "cache"}
  <2>1. o[1] \in {Exit(c), Run(c), Pause(c), Unpause(c), Stop(c), Step(c), c} /\ o[2] = result
    BY <1>2 DEF Outcome
  <2> QED
    BY <2>1, CoreOperators
<1>3. CASE kind = "reset"
  <2>1. /\ o[1] \in {Run([c EXCEPT !.broken = FALSE]), Resume(c), c, Fail(c)}
        /\ o[2] \in {0, 1}
    BY <1>3 DEF Outcome
  <2> QED
    BY <2>1, CoreOperators
<1>4. CASE kind = "boot"
  <2>1. /\ o[1] \in {Quiet([c EXCEPT !.broken = FALSE]), Resume(c), Fail(c)}
        /\ o[2] \in {0, 1}
    BY <1>4 DEF Outcome
  <2> QED
    BY <2>1, CoreOperators
<1>5. CASE kind \in {"load", "cart"}
  <2>1. o[1] \in {Fail(c), Resume(c), c} /\ o[2] \in {0, 1}
    BY <1>5 DEF Outcome
  <2> QED
    BY <2>1, CoreOperators
<1> QED
  BY <1>1, <1>2, <1>3, <1>4, <1>5

-----------------------------------------------------------------------------
(* Sending keeps the types of what it changes.                             *)
LEMMA SendType ==
  ASSUME TypeOK, NEW kind \in Kinds, NEW asked \in BOOLEAN, SendMessage(kind, asked)
  PROVE  queue' \in Seq(Message) /\ permits' \in Nat /\ stop' \in BOOLEAN
<1>1. queue' \in Seq(Message)
  BY Sendable, Sent DEF TypeOK, SendMessage
<1> QED
  BY <1>1 DEF TypeOK, SendMessage

LEMMA SendOwnType ==
  ASSUME TypeOK, NEW kind \in Kinds, SendOwn(kind)
  PROVE  /\ queue' \in Seq(Message) /\ permits' \in Nat /\ stop' \in BOOLEAN
         /\ unclaimed' \in Int
<1>1. SendMessage(kind, FALSE) /\ unclaimed' = unclaimed + 1
  BY DEF SendOwn
<1>2. queue' \in Seq(Message) /\ permits' \in Nat /\ stop' \in BOOLEAN
  BY <1>1, SendType
<1>3. unclaimed' \in Int
  BY <1>1 DEF TypeOK
<1> QED
  BY <1>2, <1>3

(* So does answering.                                                      *)
LEMMA AcknowledgeType ==
  ASSUME TypeOK, queue # <<>>, Acknowledge
  PROVE  /\ queue' \in Seq(Message) /\ permits' \in Nat /\ stop' \in BOOLEAN
         /\ unclaimed' \in Int /\ Current \in Message
<1>1. queue' \in Seq(Message) /\ Current \in Message
  BY Taken DEF TypeOK, Acknowledge, Current
<1>2. permits' \in Nat /\ unclaimed' \in Int
  BY DEF TypeOK, Acknowledge
<1>3. stop' \in BOOLEAN
  BY DEF TypeOK, Acknowledge
<1> QED
  BY <1>1, <1>2, <1>3

LEMMA TokenType ==
  ASSUME TypeOK, CheatStopToken
  PROVE  stop' \in BOOLEAN
  BY DEF TypeOK, CheatStopToken

LEMMA SlipType ==
  ASSUME Slip
  PROVE  slipped' \in BOOLEAN
  BY DEF Slip

(* Handling a message.                                                     *)
LEMMA HandlingType ==
  ASSUME TypeOK, HandleConsole \/ Refuse \/ HandleInitGL \/ HandleDeInitGL \/ HandleBorrow
  PROVE  TypeOK'
<1>0. /\ queue' \in Seq(Message) /\ permits' \in Nat /\ stop' \in BOOLEAN
      /\ unclaimed' \in Int /\ Current \in Message /\ slipped' \in BOOLEAN
  BY AcknowledgeType, SlipType
     DEF HandleConsole, Refuse, HandleInitGL, HandleDeInitGL, HandleBorrow, Handling
<1>c. Quiet(core) \in Core /\ ClearGLFailure(core) \in Core
  BY CoreOperators DEF TypeOK
<1>1. CASE HandleConsole
  <2>1. Current.kind \in Kinds \ {"initgl", "deinitgl", "borrow"}
    BY <1>0, <1>1 DEF HandleConsole, Message
  <2>2. core' \in Core /\ result' \in {0, 1}
    BY <1>1, <2>1, OutcomeType DEF HandleConsole, TypeOK
  <2> QED
    BY <1>0, <1>1, <2>2 DEF TypeOK, HandleConsole, screen, thread
<1>2. CASE Refuse
  <2>1. core' \in Core /\ gl' \in {"off", "on", "failed"} /\ glBorrowed' \in BOOLEAN
        /\ faults' \in 0 .. MaxFaults
    BY <1>2, <1>c, BoundAssumption DEF TypeOK, Refuse, screen, LoseGL, ReportGLFailure
  <2>2. misled' \in BOOLEAN
    BY <1>2 DEF Refuse
  <2> QED
    BY <1>0, <1>2, <2>1, <2>2 DEF TypeOK, Refuse, thread
<1>3. CASE HandleInitGL
  <2>1. core' \in Core /\ gl' \in {"off", "on", "failed"} /\ faults' \in 0 .. MaxFaults
    BY <1>3, <1>c, BoundAssumption DEF TypeOK, HandleInitGL, ReportGLFailure
  <2> QED
    BY <1>0, <1>3, <2>1 DEF TypeOK, HandleInitGL, thread
<1>4. CASE HandleDeInitGL
  <2>1. core' \in Core /\ gl' \in {"off", "on", "failed"} /\ faults' \in 0 .. MaxFaults
        /\ result' \in {0, 1}
    BY <1>4, <1>c, BoundAssumption DEF TypeOK, HandleDeInitGL, ReportGLFailure
  <2> QED
    BY <1>0, <1>4, <2>1 DEF TypeOK, HandleDeInitGL, thread
<1>5. CASE HandleBorrow
  <2>1. core' \in Core /\ gl' \in {"off", "on", "failed"} /\ faults' \in 0 .. MaxFaults
        /\ result' \in {0, 1} /\ glBorrowed' \in BOOLEAN /\ lent' \in BOOLEAN
    <3>1. CASE glBorrowed' = TRUE /\ lent' = TRUE /\ result' = 1 /\ UNCHANGED <<gl, core, faults>>
      BY <3>1 DEF TypeOK
    <3>2. CASE LoseGL /\ ReportGLFailure(core) /\ result' = 0 /\ UNCHANGED lent
      BY <3>2, <1>c, BoundAssumption DEF TypeOK, ReportGLFailure, LoseGL
    <3> QED
      BY <1>5, <3>1, <3>2 DEF HandleBorrow
  <2> QED
    BY <1>0, <1>5, <2>1 DEF TypeOK, HandleBorrow
<1> QED
  BY <1>1, <1>2, <1>3, <1>4, <1>5

(* The rest of the emulation thread.                                       *)
LEMMA LoopType ==
  ASSUME TypeOK,
         \/ Lock \/ Unlock \/ LoanEnds
         \/ ResumeSync \/ BeginPass \/ EndInput \/ StepKeySent
         \/ BeginFrame \/ Rest \/ EndFrame \/ EndSync
  PROVE  TypeOK'
<1>c. Quiet(core) \in Core
  BY CoreOperators DEF TypeOK
<1>k. {"pause", "unpause", "stop", "step", "cache", "exit", "run"} \subseteq Kinds
  BY SentKinds
<1>1. CASE Lock
  BY <1>1 DEF TypeOK, Lock, box, screen, past
<1>2. CASE Unlock
  <2>1. CASE lent
    BY <1>2, <2>1 DEF TypeOK, Unlock, box, screen, past
  <2>2. CASE ~lent /\ core.status = "Exit"
    BY <1>2, <2>2 DEF TypeOK, Unlock, Loop, box, screen, past
  <2>3. CASE ~lent /\ core.status # "Exit"
    BY <1>2, <2>3 DEF TypeOK, Unlock, Loop, box, screen, past
  <2> QED
    BY <2>1, <2>2, <2>3
<1>3. CASE LoanEnds
  <2>1. at' \in {"gone", "loop"} /\ lent' \in BOOLEAN
    BY <1>3 DEF LoanEnds, Loop
  <2>2. UNCHANGED <<box, result, core, screen, interrupted, ui, past, keys, calls>>
    BY <1>3 DEF LoanEnds
  <2> QED
    BY <2>1, <2>2 DEF TypeOK, box, screen, past
<1>4. CASE ResumeSync
  <2>1. stop' \in BOOLEAN
    BY <1>4, TokenType DEF ResumeSync
  <2>2. at' \in {"loop", "handle"} /\ interrupted' \in BOOLEAN
    BY <1>4 DEF ResumeSync, TypeOK
  <2> QED
    BY <1>4, <2>1, <2>2 DEF TypeOK, ResumeSync, screen, past
<1>5. CASE BeginPass
  <2>1. core' \in Core /\ gl' \in {"off", "on", "failed"} /\ glBorrowed' \in BOOLEAN
        /\ faults' \in 0 .. MaxFaults
    BY <1>5, <1>c, BoundAssumption DEF TypeOK, BeginPass, screen, LoseGL, ReportGLFailure
  <2> QED
    BY <1>5, <2>1 DEF TypeOK, BeginPass, box, past
<1>6. CASE EndInput
  BY <1>6 DEF TypeOK, EndInput, box, screen, past
<1>7. CASE StepKeySent
  <2>1. /\ queue' \in Seq(Message) /\ permits' \in Nat /\ stop' \in BOOLEAN
        /\ unclaimed' \in Int
    BY <1>7, <1>k, SendOwnType DEF StepKeySent
  <2> QED
    BY <1>7, <2>1 DEF TypeOK, StepKeySent, screen, past
<1>8. CASE BeginFrame
  <2>1. stop' \in BOOLEAN
    BY <1>8, TokenType DEF BeginFrame
  <2>2. core' \in Core
    BY <1>8, CoreOperators DEF BeginFrame, TypeOK
  <2> QED
    BY <1>8, <2>1, <2>2 DEF TypeOK, BeginFrame, screen, past
<1>9. CASE Rest
  <2>1. core' \in Core /\ gl' \in {"off", "on", "failed"} /\ glBorrowed' \in BOOLEAN
        /\ faults' \in 0 .. MaxFaults
    BY <1>9, <1>c, BoundAssumption DEF TypeOK, Rest, screen, LoseGL, ReportGLFailure
  <2> QED
    BY <1>9, <2>1 DEF TypeOK, Rest, box, past
<1>10. CASE EndFrame
  <2>1. core' \in Core /\ gl' \in {"off", "on", "failed"} /\ glBorrowed' \in BOOLEAN
        /\ faults' \in 0 .. MaxFaults /\ at' \in {"sync", "handle"}
    BY <1>10, <1>c, BoundAssumption DEF TypeOK, EndFrame, screen, LoseGL, ReportGLFailure
  <2>2. stop' \in BOOLEAN
    BY <1>10, TokenType DEF EndFrame, TypeOK
  <2> QED
    BY <1>10, <2>1, <2>2 DEF TypeOK, EndFrame, past
<1>11. CASE EndSync
  BY <1>11 DEF TypeOK, EndSync, box, screen, past
<1> QED
  BY <1>1, <1>2, <1>3, <1>4, <1>5, <1>6, <1>7, <1>8, <1>9, <1>10, <1>11

(* Hotkeys and the guest.                                                  *)
LEMMA KeysType ==
  ASSUME TypeOK, Keys
  PROVE  TypeOK'
<1>k. {"pause", "unpause", "stop", "step", "cache", "exit", "run"} \subseteq Kinds
  BY SentKinds
<1>1. CASE PauseKey
  <2>1. /\ queue' \in Seq(Message) /\ permits' \in Nat /\ stop' \in BOOLEAN
        /\ unclaimed' \in Int
    BY <1>1, <1>k, SendOwnType DEF PauseKey
  <2> QED
    BY <1>1, <2>1, BoundAssumption DEF TypeOK, PauseKey, screen, past
<1>2. CASE StepKey
  <2>1. /\ queue' \in Seq(Message) /\ permits' \in Nat /\ stop' \in BOOLEAN
        /\ unclaimed' \in Int
    BY <1>2, <1>k, SendOwnType DEF StepKey, box, TypeOK
  <2> QED
    BY <1>2, <2>1, BoundAssumption DEF TypeOK, StepKey, screen, past
<1>3. CASE PowerOff
  <2>1. /\ queue' \in Seq(Message) /\ permits' \in Nat /\ stop' \in BOOLEAN
        /\ unclaimed' \in Int
    BY <1>3, <1>k, SendOwnType DEF PowerOff
  <2> QED
    BY <1>3, <2>1, BoundAssumption DEF TypeOK, PowerOff, screen, past
<1> QED
  BY <1>1, <1>2, <1>3 DEF Keys

(* The user interface.                                                     *)
LEMMA InterfaceType ==
  ASSUME TypeOK, Waiting \/ Calling
  PROVE  TypeOK'
<1>k. /\ {"pause", "unpause", "stop", "step", "cache", "exit", "run"} \subseteq Kinds
      /\ Asked \subseteq Kinds /\ "run" \in Asked /\ "borrow" \in Asked
  BY SentKinds DEF Asked
<1>1. ASSUME NEW op \in Asked, Call(op) PROVE TypeOK'
  <2>1. queue' \in Seq(Message) /\ permits' \in Nat /\ stop' \in BOOLEAN
    BY <1>1, <1>k, SendType DEF Call
  <2>2. ui' = [at |-> "wait", op |-> op] /\ calls' \in 0 .. MaxCalls
    BY <1>1, BoundAssumption DEF Call, Go, Begin, TypeOK
  <2> QED
    BY <1>1, <2>1, <2>2 DEF TypeOK, Call, screen, thread, past
<1>2. CASE ClearRendererCache
  <2>1. queue' \in Seq(Message) /\ permits' \in Nat /\ stop' \in BOOLEAN
    BY <1>2, <1>k, SendType DEF ClearRendererCache
  <2> QED
    BY <1>2, <2>1, BoundAssumption DEF TypeOK, ClearRendererCache, Begin, screen, thread, past
<1>3. CASE EmuFrameStep
  <2>1. /\ queue' \in Seq(Message) /\ permits' \in Nat /\ stop' \in BOOLEAN
        /\ unclaimed' \in Int
    <3>1. CASE SendMessage("pause", FALSE) /\ unclaimed' = unclaimed + 1
      <4>1. queue' \in Seq(Message) /\ permits' \in Nat /\ stop' \in BOOLEAN
        BY <3>1, <1>k, SendType
      <4>2. unclaimed' \in Int
        BY <3>1 DEF TypeOK
      <4> QED
        BY <4>1, <4>2
    <3>2. CASE UNCHANGED box
      <4>1. queue' = queue /\ permits' = permits /\ stop' = stop /\ unclaimed' = unclaimed
        BY <3>2 DEF box
      <4> QED
        BY <4>1 DEF TypeOK
    <3> QED
      BY <1>3, <3>1, <3>2 DEF EmuFrameStep
  <2>2. ui' = [at |-> "stepping", op |-> "step"] /\ calls' \in 0 .. MaxCalls
    BY <1>3, BoundAssumption DEF EmuFrameStep, Go, Begin, TypeOK
  <2> QED
    BY <1>3, <2>1, <2>2 DEF TypeOK, EmuFrameStep, screen, thread, past
<1>4. CASE EmuExit
  <2>1. queue' \in Seq(Message) /\ permits' \in Nat /\ stop' \in BOOLEAN
    BY <1>4, <1>k, SendType DEF EmuExit
  <2>2. ui' = [at |-> "waitall", op |-> "exit"] /\ calls' \in 0 .. MaxCalls
    BY <1>4, BoundAssumption DEF EmuExit, Go, Begin, TypeOK
  <2> QED
    BY <1>4, <2>1, <2>2 DEF TypeOK, EmuExit, screen, thread, past
<1>5. CASE WaitMessage
  <2>1. ui' \in {[at |-> "booted", op |-> "run"], [at |-> "holding", op |-> "borrow"], NoOp}
    BY <1>5 DEF WaitMessage
  <2>2. permits' \in Nat /\ misled' \in BOOLEAN
    BY <1>5 DEF WaitMessage, TypeOK
  <2> QED
    BY <1>5, <1>k, <2>1, <2>2 DEF TypeOK, WaitMessage, NoOp, screen, thread
<1>6. CASE RunBooted
  <2>1. queue' \in Seq(Message) /\ permits' \in Nat /\ stop' \in BOOLEAN
    BY <1>6, <1>k, SendType DEF RunBooted
  <2>2. ui' = [at |-> "wait", op |-> "run"]
    BY <1>6 DEF RunBooted, Go
  <2> QED
    BY <1>6, <1>k, <2>1, <2>2 DEF TypeOK, RunBooted, screen, thread, past
<1>7. CASE ReturnGL
  <2>1. /\ glBorrowed' = FALSE /\ ui' = [at |-> "idle", op |-> "none"]
        /\ UNCHANGED <<box, result, core, gl, faults, thread, past, keys, calls>>
    BY <1>7 DEF ReturnGL, NoOp
  <2>2. ui' \in [at : {"idle", "wait", "booted", "holding", "stepping", "waitall",
                       "acquire", "joining", "gone"}, op : Asked \cup {"none", "step", "exit"}]
    BY <2>1
  <2>3. glBorrowed' \in BOOLEAN
    BY <2>1
  <2>4. UNCHANGED <<box, result, core, gl, faults, thread, past, keys, calls>>
    BY <2>1
  <2> QED
    BY <2>2, <2>3, <2>4 DEF TypeOK, box, thread, past
<1>8. CASE StepSent
  <2>1. queue' \in Seq(Message) /\ permits' \in Nat /\ stop' \in BOOLEAN
    BY <1>8, <1>k, SendType DEF StepSent
  <2>2. ui' = [at |-> "waitall", op |-> "step"]
    BY <1>8 DEF StepSent, Go
  <2> QED
    BY <1>8, <2>1, <2>2 DEF TypeOK, StepSent, screen, thread, past
<1>9. CASE WaitAllMessages
  <2>1. ui' \in {[ui EXCEPT !.at = "acquire"], [ui EXCEPT !.at = "joining"], NoOp}
    BY <1>9 DEF WaitAllMessages
  <2>2. UNCHANGED <<queue, permits, stop, unclaimed, result, core, gl, glBorrowed, faults,
                    at, lent, interrupted, slipped, misled, keys, calls>>
    BY <1>9 DEF WaitAllMessages, box, screen, thread, past
  <2>3. ui' \in [at : {"idle", "wait", "booted", "holding", "stepping", "waitall",
                       "acquire", "joining", "gone"}, op : Asked \cup {"none", "step", "exit"}]
    BY <2>1 DEF TypeOK, NoOp
  <2> QED
    BY <2>2, <2>3 DEF TypeOK
<1>10. CASE Acquire
  BY <1>10 DEF TypeOK, Acquire, screen, thread, past
<1>11. CASE Join
  BY <1>11 DEF TypeOK, Join, box, screen, thread, past
<1> QED
  BY <1>1, <1>2, <1>3, <1>4, <1>5, <1>6, <1>7, <1>8, <1>9, <1>10, <1>11 DEF Waiting, Calling

(* Types: each variable keeps its own, whatever is sent, refused or lost.  *)
THEOREM MessageTypes == Spec => []TypeOK
<1>1. Init => TypeOK
  <2> SUFFICES ASSUME Init PROVE TypeOK
    OBVIOUS
  <2>1. core \in Core
    BY DEF Init, Core
  <2>2. queue \in Seq(Message)
    BY EmptySeq DEF Init
  <2>3. /\ permits \in Nat /\ result \in {0, 1} /\ unclaimed \in Int
        /\ keys \in 0 .. MaxKeys /\ calls \in 0 .. MaxCalls /\ faults \in 0 .. MaxFaults
    BY BoundAssumption DEF Init
  <2>4. /\ gl \in {"off", "on", "failed"} /\ glBorrowed \in BOOLEAN /\ at = "loop"
        /\ lent \in BOOLEAN /\ interrupted \in BOOLEAN /\ ui = NoOp
        /\ slipped \in BOOLEAN /\ misled \in BOOLEAN /\ stop \in BOOLEAN
    BY DEF Init
  <2> QED
    BY <2>1, <2>2, <2>3, <2>4 DEF TypeOK, NoOp
<1>2. TypeOK /\ [Next]_vars => TypeOK'
  <2> SUFFICES ASSUME TypeOK, [Next]_vars PROVE TypeOK'
    OBVIOUS
  <2>1. CASE UNCHANGED vars
    BY <2>1 DEF TypeOK, vars
  <2>2. CASE Emulation
    BY <2>2, HandlingType, LoopType DEF Emulation
  <2> QED
    BY <2>1, <2>2, KeysType, InterfaceType DEF Next
<1> QED
  BY <1>1, <1>2, PTL DEF Spec

-----------------------------------------------------------------------------
(* What a message does to the count and to the stop request.               *)
LEMMA SendCounts ==
  ASSUME TypeOK, NEW kind \in Kinds, NEW asked \in BOOLEAN, SendMessage(kind, asked)
  PROVE  /\ permits' = permits /\ Len(queue') = Len(queue) + 1
         /\ Len(queue) \in Nat /\ StopReachesWork'
<1>1. queue' = Append(queue, [kind |-> kind, asked |-> asked]) /\ permits' = permits
  BY DEF SendMessage
<1>2. Len(queue') = Len(queue) + 1 /\ Len(queue) \in Nat
  BY <1>1, Sendable, Sent DEF TypeOK
<1>3. StopReachesWork'
  BY DEF SendMessage, StopReachesWork
<1> QED
  BY <1>1, <1>2, <1>3

LEMMA AcknowledgeCounts ==
  ASSUME TypeOK, queue # <<>>, Acknowledge, StopReachesWork
  PROVE  /\ permits' = permits + 1 /\ Len(queue') = Len(queue) - 1
         /\ unclaimed' = unclaimed /\ Len(queue) \in Nat /\ StopReachesWork'
<1>1. /\ queue' = Tail(queue) /\ permits' = permits + 1
      /\ unclaimed' = unclaimed
  BY DEF Acknowledge
<1>2. Len(Tail(queue)) = Len(queue) - 1 /\ Len(queue) \in Nat
  BY Taken DEF TypeOK
<1>3. StopReachesWork'
  BY DEF Acknowledge, StopReachesWork
<1> QED
  BY <1>1, <1>2, <1>3

LEMMA TokenCounts ==
  ASSUME StopReachesWork, CheatStopToken, queue' = queue
  PROVE  StopReachesWork'
  BY DEF StopReachesWork, CheatStopToken

(* Counts and stop request, step by step.                                  *)
BoxInv == PermitsMatch /\ StopReachesWork

LEMMA SendOwnBox ==
  ASSUME TypeOK, BoxInv, NEW kind \in Kinds, SendOwn(kind), ui' = ui
  PROVE  BoxInv'
<1>1. SendMessage(kind, FALSE) /\ unclaimed' = unclaimed + 1
  BY DEF SendOwn
<1>2. /\ permits' = permits /\ Len(queue') = Len(queue) + 1
      /\ Len(queue) \in Nat /\ StopReachesWork'
  BY <1>1, SendCounts
<1>3. PermitsMatch'
  BY <1>1, <1>2 DEF BoxInv, PermitsMatch, Awaited, TypeOK
<1> QED
  BY <1>2, <1>3 DEF BoxInv

LEMMA BoxAside ==
  ASSUME BoxInv, UNCHANGED box, Awaited' = Awaited
  PROVE  BoxInv'
  BY DEF BoxInv, box, PermitsMatch, StopReachesWork

LEMMA BoxEmulation ==
  ASSUME TypeOK, BoxInv, Emulation \/ Keys
  PROVE  BoxInv'
<1>k. {"pause", "unpause", "stop", "step", "cache", "exit", "run"} \subseteq Kinds
  BY SentKinds
<1>0. ui' = ui
  BY DEF Emulation, Keys, HandleConsole, Refuse, HandleInitGL, HandleDeInitGL, HandleBorrow,
         Lock, Unlock, LoanEnds, ResumeSync, BeginPass, EndInput, StepKeySent, BeginFrame,
         Rest, EndFrame, EndSync, PauseKey, StepKey, PowerOff
<1>a. Awaited' = Awaited
  BY <1>0 DEF Awaited
<1>1. CASE HandleConsole \/ Refuse \/ HandleInitGL \/ HandleDeInitGL \/ HandleBorrow
  <2>1. Acknowledge /\ queue # <<>>
    BY <1>1 DEF HandleConsole, Refuse, HandleInitGL, HandleDeInitGL, HandleBorrow, Handling
  <2>2. /\ permits' = permits + 1 /\ Len(queue') = Len(queue) - 1
        /\ unclaimed' = unclaimed /\ Len(queue) \in Nat /\ StopReachesWork'
    BY <2>1, AcknowledgeCounts DEF BoxInv
  <2>3. PermitsMatch'
    BY <1>a, <2>2 DEF BoxInv, PermitsMatch, TypeOK, Awaited
  <2> QED
    BY <2>2, <2>3 DEF BoxInv
<1>2. CASE Lock \/ Unlock \/ LoanEnds \/ BeginPass \/ EndInput \/ Rest \/ EndSync
  <2>1. UNCHANGED box
    BY <1>2 DEF Lock, Unlock, LoanEnds, BeginPass, EndInput, Rest, EndSync
  <2> QED
    BY <1>a, <2>1, BoxAside
<1>3. CASE ResumeSync \/ BeginFrame \/ EndFrame
  <2>1. /\ UNCHANGED <<queue, permits, unclaimed>>
        /\ CheatStopToken \/ UNCHANGED stop
    BY <1>3 DEF ResumeSync, BeginFrame, EndFrame
  <2>2. StopReachesWork'
    BY <2>1, TokenCounts DEF BoxInv, StopReachesWork
  <2>3. PermitsMatch'
    BY <1>a, <2>1 DEF BoxInv, PermitsMatch
  <2> QED
    BY <2>2, <2>3 DEF BoxInv
<1>4. CASE StepKeySent
  BY <1>0, <1>4, <1>k, SendOwnBox DEF StepKeySent
<1>5. CASE PauseKey
  BY <1>0, <1>5, <1>k, SendOwnBox DEF PauseKey
<1>6. CASE StepKey
  BY <1>0, <1>a, <1>6, <1>k, SendOwnBox, BoxAside DEF StepKey
<1>7. CASE PowerOff
  BY <1>0, <1>7, <1>k, SendOwnBox DEF PowerOff
<1> QED
  BY <1>1, <1>2, <1>3, <1>4, <1>5, <1>6, <1>7 DEF Emulation, Keys

LEMMA BoxInterface ==
  ASSUME TypeOK, BoxInv, Waiting \/ Calling
  PROVE  BoxInv'
<1>k. /\ {"pause", "unpause", "stop", "step", "cache", "exit", "run"} \subseteq Kinds
      /\ Asked \subseteq Kinds
  BY SentKinds
<1>1. ASSUME NEW kind \in Kinds, SendMessage(kind, TRUE), unclaimed' = unclaimed,
             ui.at # "wait", ui'.at = "wait"
      PROVE  BoxInv'
  <2>1. /\ permits' = permits /\ Len(queue') = Len(queue) + 1
        /\ Len(queue) \in Nat /\ StopReachesWork'
    BY <1>1, SendCounts
  <2>2. PermitsMatch'
    BY <1>1, <2>1 DEF BoxInv, PermitsMatch, TypeOK, Awaited
  <2> QED
    BY <2>1, <2>2 DEF BoxInv
<1>2. ASSUME NEW kind \in Kinds, SendMessage(kind, FALSE), unclaimed' = unclaimed + 1,
             ui.at # "wait", ui'.at # "wait"
      PROVE  BoxInv'
  <2>1. /\ permits' = permits /\ Len(queue') = Len(queue) + 1
        /\ Len(queue) \in Nat /\ StopReachesWork'
    BY <1>2, SendCounts
  <2>2. PermitsMatch'
    BY <1>2, <2>1 DEF BoxInv, PermitsMatch, TypeOK, Awaited
  <2> QED
    BY <2>1, <2>2 DEF BoxInv
<1>3. ASSUME NEW op \in Asked, Call(op) PROVE BoxInv'
  <2>1. /\ SendMessage(op, TRUE) /\ unclaimed' = unclaimed
        /\ ui.at = "idle" /\ ui' = [at |-> "wait", op |-> op]
    BY <1>3 DEF Call, Begin, Go
  <2> QED
    BY <1>k, <1>1, <2>1
<1>4. CASE RunBooted
  <2>1. /\ SendMessage("run", TRUE) /\ unclaimed' = unclaimed
        /\ ui.at = "booted" /\ ui' = [at |-> "wait", op |-> "run"]
    BY <1>4 DEF RunBooted, Go
  <2> QED
    BY <1>k, <1>1, <2>1
<1>5. CASE ClearRendererCache
  <2>1. /\ SendMessage("cache", FALSE) /\ unclaimed' = unclaimed + 1
        /\ ui.at = "idle" /\ ui' = ui
    BY <1>5 DEF ClearRendererCache, Begin
  <2> QED
    BY <1>k, <1>2, <2>1
<1>6. CASE EmuFrameStep
  <2>1. /\ \/ SendMessage("pause", FALSE) /\ unclaimed' = unclaimed + 1
           \/ UNCHANGED box
        /\ ui.at = "idle" /\ ui' = [at |-> "stepping", op |-> "step"]
    BY <1>6 DEF EmuFrameStep, Begin, Go
  <2>2. CASE UNCHANGED box
    BY <2>1, <2>2, BoxAside DEF Awaited
  <2> QED
    BY <1>k, <1>2, <2>1, <2>2
<1>7. CASE StepSent \/ EmuExit
  <2>1. /\ SendMessage("step", FALSE) \/ SendMessage("exit", FALSE)
        /\ unclaimed' = unclaimed + 1 /\ ui.at # "wait" /\ ui'.at = "waitall"
    <3>1. CASE StepSent
      BY <3>1 DEF StepSent, Go
    <3>2. CASE EmuExit
      BY <3>2 DEF EmuExit, Begin, Go
    <3> QED
      BY <1>7, <3>1, <3>2
  <2> QED
    BY <1>k, <1>2, <2>1
<1>8. CASE WaitMessage
  <2>1. /\ ui.at = "wait" /\ ui'.at # "wait" /\ permits' = permits - 1
        /\ UNCHANGED <<queue, stop, unclaimed>>
    BY <1>8 DEF WaitMessage, NoOp
  <2>2. Len(queue) \in Nat
    BY LenProperties DEF TypeOK
  <2>3. PermitsMatch'
    BY <2>1, <2>2 DEF BoxInv, PermitsMatch, TypeOK, Awaited
  <2> QED
    BY <2>1, <2>3 DEF BoxInv, StopReachesWork
<1>9. CASE Acquire
  <2>1. /\ ui.at = "acquire" /\ ui' = [ui EXCEPT !.at = "waitall"] /\ permits' = permits - 1
        /\ unclaimed' = unclaimed - 1 /\ UNCHANGED <<queue, stop>>
    BY <1>9 DEF Acquire
  <2>2. Len(queue) \in Nat /\ ui'.at = "waitall"
    BY <2>1, LenProperties DEF TypeOK
  <2>3. PermitsMatch'
    BY <2>1, <2>2 DEF BoxInv, PermitsMatch, TypeOK, Awaited
  <2> QED
    BY <2>1, <2>3 DEF BoxInv, StopReachesWork
<1>10. CASE ReturnGL \/ WaitAllMessages \/ Join
  <2>1. /\ UNCHANGED box /\ ui.at # "wait"
        /\ ui' \in {NoOp, [ui EXCEPT !.at = "acquire"], [ui EXCEPT !.at = "joining"],
                    [ui EXCEPT !.at = "gone"]}
    BY <1>10 DEF ReturnGL, WaitAllMessages, Join
  <2>2. ui'.at # "wait"
    BY <2>1 DEF TypeOK, NoOp
  <2> QED
    BY <2>1, <2>2, BoxAside DEF Awaited
<1> QED
  BY <1>3, <1>4, <1>5, <1>6, <1>7, <1>8, <1>9, <1>10 DEF Waiting, Calling

LEMMA BoxCorrect == Spec => []BoxInv
<1>1. Init => BoxInv
  BY EmptySeq DEF Init, BoxInv, PermitsMatch, StopReachesWork, Awaited, NoOp
<1>2. TypeOK /\ BoxInv /\ [Next]_vars => BoxInv'
  <2> SUFFICES ASSUME TypeOK, BoxInv, [Next]_vars PROVE BoxInv'
    OBVIOUS
  <2>1. CASE UNCHANGED vars
    BY <2>1, BoxAside DEF vars, box, Awaited
  <2> QED
    BY <2>1, BoxEmulation, BoxInterface DEF Next
<1> QED
  BY <1>1, <1>2, MessageTypes, PTL DEF Spec

-----------------------------------------------------------------------------
(* Messages and permits are conserved, whoever sends and whatever is       *)
(* refused.                                                                *)
THEOREM PermitsConserved == Spec => []PermitsMatch
<1>1. BoxInv => PermitsMatch
  BY DEF BoxInv
<1> QED
  BY <1>1, BoxCorrect, PTL

(* A stop request lasts as long as the message it is made for.             *)
THEOREM StopRequestsLast == Spec => []StopReachesWork
<1>1. BoxInv => StopReachesWork
  BY DEF BoxInv
<1> QED
  BY <1>1, BoxCorrect, PTL

(* Without permits that nobody asked for, a wait ends when its message has *)
(* been handled: a permit is there only when the queue is empty.           *)
THEOREM WaitsAreAnswered == Spec => WaitIsAnswered
<1>1. TypeOK /\ BoxInv /\ [Next]_vars
      => [ui.at = "wait" /\ ui'.at # "wait" /\ unclaimed = 0 => Answered]_vars
  <2> SUFFICES ASSUME TypeOK, BoxInv, Next, ui.at = "wait", ui'.at # "wait", unclaimed = 0
               PROVE  Answered
    OBVIOUS
  <2>1. WaitMessage
    BY DEF Next, Emulation, Keys, HandleConsole, Refuse, HandleInitGL, HandleDeInitGL,
           HandleBorrow, Lock, Unlock, LoanEnds, ResumeSync, BeginPass, EndInput, StepKeySent,
           BeginFrame, Rest, EndFrame, EndSync, PauseKey, StepKey, PowerOff,
           Waiting, RunBooted, ReturnGL, StepSent, WaitAllMessages, Acquire, Join,
           Calling, Call, ClearRendererCache, EmuFrameStep, EmuExit, Begin
  <2>2. permits > 0 /\ permits + Len(queue) = 1
    BY <2>1 DEF WaitMessage, BoxInv, PermitsMatch, Awaited
  <2>3. Len(queue) \in Nat
    BY LenProperties DEF TypeOK
  <2>4. Len(queue) = 0
    BY <2>2, <2>3 DEF TypeOK
  <2> QED
    BY <2>4 DEF Answered
<1> QED
  BY <1>1, MessageTypes, BoxCorrect, PTL DEF Spec, WaitIsAnswered

-----------------------------------------------------------------------------
(* Pauses.  A console no message has met out of turn.                      *)
Sane(c) ==
  /\ c.status = "Running" => c.stack = 0
  /\ c.status = "FrameStep" => c.stack > 0
  /\ c.status = "Paused" /\ c.active => c.stack > 0
  /\ c.stack > 0 /\ c.prev = "Paused" => ~c.active
  /\ c.prev # "Exit"
  /\ c.audio => c.status = "Running"

PauseInv == slipped \/ (Sane(core) /\ (core.audio => gl # "failed"))

(* What the operators make of a sane console that has not been left.       *)
LEMMA SaneOperators ==
  ASSUME NEW c \in Core, Sane(c), c.status # "Exit"
  PROVE  /\ Sane(Quiet(c)) /\ Sane(Resume(c)) /\ Sane(Run(c)) /\ Sane(Pause(c))
         /\ Sane(Unpause(c)) /\ Sane(Stop(c)) /\ Sane(Exit(c)) /\ Sane(Fail(c))
         /\ c.stack # 0 \/ c.broken => Sane(Step(c))
         /\ Sane(Run([c EXCEPT !.broken = FALSE])) /\ Sane(Quiet([c EXCEPT !.broken = FALSE]))
<1>1. Sane(Quiet(c)) /\ Sane(Stop(c)) /\ Sane(Exit(c)) /\ Sane(Fail(c))
  BY DEF Core, Sane, Quiet, Stop, Exit, Fail
<1>2. Sane(Resume(c))
  BY DEF Core, Sane, Resume
<1>3. Sane(Run(c)) /\ Sane(Run([c EXCEPT !.broken = FALSE]))
  BY DEF Core, Sane, Run
<1>4. Sane(Quiet([c EXCEPT !.broken = FALSE]))
  BY DEF Core, Sane, Quiet
<1>5. c.stack # 0 \/ c.broken => Sane(Step(c))
  BY DEF Core, Sane, Step
<1>6. Sane(Unpause(c))
  <2>1. CASE c.broken \/ c.stack = 0
    BY <2>1 DEF Unpause
  <2>2. CASE ~c.broken /\ c.stack > 1
    BY <2>2 DEF Core, Sane, Unpause
  <2>3. CASE ~c.broken /\ c.stack = 1
    BY <2>3 DEF Core, Sane, Unpause
  <2> QED
    BY <2>1, <2>2, <2>3 DEF Core
<1>7. Sane(Pause(c))
  <2>1. CASE c.status = "FrameStep"
    <3> DEFINE h == [Quiet(c) EXCEPT !.status = "Paused"]
    <3>1. /\ h.stack = c.stack /\ h.status = "Paused" /\ h.prev = c.prev
          /\ h.active = c.active /\ ~h.audio /\ h \in Core
      BY DEF Core, Quiet
    <3>2. c.stack > 0
      BY <2>1 DEF Sane
    <3>3. Pause(c) = [h EXCEPT !.stack = h.stack + 1]
      BY <2>1, <3>2 DEF Pause
    <3> HIDE DEF h
    <3> QED
      BY <3>1, <3>2, <3>3 DEF Sane, Core
  <2>2. CASE c.status # "FrameStep" /\ c.stack > 0
    BY <2>2 DEF Core, Sane, Pause
  <2>3. CASE c.status # "FrameStep" /\ c.stack = 0
    <3> DEFINE sound == c.audio /\ c.status = "Paused"
    <3>1. sound = FALSE
      BY DEF Sane
    <3>2. Pause(c) = [c EXCEPT !.stack = 1, !.prev = c.status, !.status = "Paused",
                               !.audio = sound]
      BY <2>3 DEF Pause
    <3> HIDE DEF sound
    <3>3. Pause(c) = [c EXCEPT !.stack = 1, !.prev = c.status, !.status = "Paused",
                               !.audio = FALSE]
      BY <3>1, <3>2
    <3>4. /\ Pause(c).stack = 1 /\ Pause(c).prev = c.status /\ Pause(c).status = "Paused"
          /\ Pause(c).active = c.active /\ ~Pause(c).audio
      BY <3>3 DEF Core
    <3> QED
      BY <2>3, <3>4 DEF Sane
  <2> QED
    BY <2>1, <2>2, <2>3 DEF Core
<1> QED
  BY <1>1, <1>2, <1>3, <1>4, <1>5, <1>6, <1>7

(* Controls, which need no graphics, start the sound only if there are any.*)
LEMMA ControlSound ==
  ASSUME NEW c \in Core, NEW kind \in {"exit", "pause", "unpause", "cache"},
         NEW o \in Outcome(kind, c), o[1].audio
  PROVE  c.audio \/ gl # "failed"
<1>1. CASE kind = "exit"
  <2>1. o[1] = Exit(c)
    BY <1>1 DEF Outcome
  <2> QED
    BY <2>1 DEF Exit, Quiet, Core
<1>2. CASE kind = "pause"
  <2>1. o[1] = Pause(c)
    BY <1>2 DEF Outcome
  <2>2. CASE c.status = "FrameStep"
    BY <2>1, <2>2 DEF Pause, Quiet, Core
  <2>3. CASE c.status # "FrameStep"
    BY <2>1, <2>3 DEF Pause, Core
  <2> QED
    BY <2>2, <2>3
<1>3. CASE kind = "unpause"
  <2>1. o[1] = Unpause(c)
    BY <1>3 DEF Outcome
  <2> QED
    BY <2>1 DEF Unpause, Core
<1>4. CASE kind = "cache"
  BY <1>4 DEF Outcome
<1> QED
  BY <1>1, <1>2, <1>3, <1>4

(* A message that slips past none keeps a console sane.                    *)
LEMMA OutcomeSane ==
  ASSUME NEW c \in Core, Sane(c), c.status # "Exit",
         NEW kind \in Kinds \ {"initgl", "deinitgl", "borrow"},
         kind = "step" => c.stack # 0 \/ c.broken,
         NEW o \in Outcome(kind, c)
  PROVE  Sane(o[1])
<1>1. kind \in {"exit", "run", "pause", "unpause", "stop", "step", "reset", "load",
                "boot", "cart", "cache"}
  BY DEF Kinds, Controls, Asked
<1>2. CASE kind \in {"exit", "run", "pause", "unpause", "stop", "cache"}
  <2>1. o[1] \in {Exit(c), Run(c), Pause(c), Unpause(c), Stop(c), c}
    BY <1>2 DEF Outcome
  <2> QED
    BY <2>1, SaneOperators
<1>3. CASE kind = "step"
  <2>1. o[1] = Step(c)
    BY <1>3 DEF Outcome
  <2> QED
    BY <1>3, <2>1, SaneOperators
<1>4. CASE kind = "reset"
  <2>1. o[1] \in {Run([c EXCEPT !.broken = FALSE]), Resume(c), c, Fail(c)}
    BY <1>4 DEF Outcome
  <2> QED
    BY <2>1, SaneOperators
<1>5. CASE kind = "boot"
  <2>1. o[1] \in {Quiet([c EXCEPT !.broken = FALSE]), Resume(c), Fail(c)}
    BY <1>5 DEF Outcome
  <2> QED
    BY <2>1, SaneOperators
<1>6. CASE kind \in {"load", "cart"}
  <2>1. o[1] \in {Fail(c), Resume(c), c}
    BY <1>6 DEF Outcome
  <2> QED
    BY <2>1, SaneOperators
<1> QED
  BY <1>1, <1>2, <1>3, <1>4, <1>5, <1>6

(* When graphics fail the console falls silent; nothing else changes.      *)
LEMMA FailureSane ==
  ASSUME core \in Core, Sane(core), ReportGLFailure(core)
  PROVE  Sane(core') /\ ~core'.audio
  BY DEF ReportGLFailure, Core, Sane, Quiet

LEMMA PauseHandling ==
  ASSUME TypeOK, PauseInv,
         HandleConsole \/ Refuse \/ HandleInitGL \/ HandleDeInitGL \/ HandleBorrow
  PROVE  PauseInv'
<1>1. Slip /\ queue # <<>>
  BY DEF HandleConsole, Refuse, HandleInitGL, HandleDeInitGL, HandleBorrow, Handling
<1> SUFFICES ASSUME ~slipped' PROVE Sane(core') /\ (core'.audio => gl' # "failed")
  BY DEF PauseInv
<1>2. /\ ~slipped /\ core.status # "Exit"
      /\ Current.kind = "step" => core.stack # 0 \/ core.broken
  BY <1>1 DEF Slip
<1>3. core \in Core /\ Sane(core) /\ (core.audio => gl # "failed") /\ Current \in Message
  BY <1>1, <1>2, Taken DEF PauseInv, TypeOK, Current
<1>4. CASE HandleConsole
  <2>1. /\ Current.kind \in Kinds \ {"initgl", "deinitgl", "borrow"}
        /\ Current.kind \in Controls \/ gl # "failed"
        /\ gl' = gl
    BY <1>3, <1>4 DEF HandleConsole, Message, PrepareGL, screen
  <2>2. PICK o \in Outcome(Current.kind, core) : core' = o[1]
    BY <1>4 DEF HandleConsole
  <2>3. Sane(core')
    BY <1>2, <1>3, <2>1, <2>2, OutcomeSane
  <2>4. CASE gl # "failed"
    BY <2>1, <2>3, <2>4
  <2>5. CASE gl = "failed"
    <3>1. Current.kind \in {"exit", "pause", "unpause", "cache"}
      BY <2>1, <2>5 DEF Controls
    <3> QED
      BY <1>3, <2>2, <2>3, <2>5, <3>1, ControlSound
  <2> QED
    BY <2>4, <2>5
<1>5. CASE ReportGLFailure(core)
  BY <1>3, <1>5, FailureSane
<1>6. CASE UNCHANGED <<gl, core>>
  BY <1>3, <1>6
<1>7. CASE gl' \in {"on", "off"} /\ core' = ClearGLFailure(core)
  BY <1>3, <1>7 DEF ClearGLFailure, Sane, Core
<1> QED
  BY <1>4, <1>5, <1>6, <1>7 DEF Refuse, HandleInitGL, HandleDeInitGL, HandleBorrow, screen

LEMMA PauseElsewhere ==
  ASSUME TypeOK, PauseInv, Next,
         ~(HandleConsole \/ Refuse \/ HandleInitGL \/ HandleDeInitGL \/ HandleBorrow)
  PROVE  PauseInv'
<1>1. slipped' = slipped
  BY DEF Next, Emulation, Keys, Lock, Unlock, LoanEnds, ResumeSync, BeginPass, EndInput,
         StepKeySent, BeginFrame, Rest, EndFrame, EndSync, PauseKey, StepKey, PowerOff,
         Waiting, WaitMessage, RunBooted, ReturnGL, StepSent, WaitAllMessages, Acquire, Join,
         Calling, Call, ClearRendererCache, EmuFrameStep, EmuExit, past
<1> SUFFICES ASSUME ~slipped PROVE Sane(core') /\ (core'.audio => gl' # "failed")
  BY <1>1 DEF PauseInv
<1>2. core \in Core /\ Sane(core) /\ (core.audio => gl # "failed")
  BY DEF PauseInv, TypeOK
<1>3. CASE ReportGLFailure(core)
  BY <1>2, <1>3, FailureSane
<1>4. CASE UNCHANGED <<gl, core>>
  BY <1>2, <1>4
<1>5. CASE BeginFrame
  BY <1>2, <1>5 DEF BeginFrame, screen, Sane, Core
<1>6. \/ ReportGLFailure(core) \/ UNCHANGED <<gl, core>> \/ BeginFrame
  BY DEF Next, Emulation, Keys, Lock, Unlock, LoanEnds, ResumeSync, BeginPass, EndInput,
         StepKeySent, Rest, EndFrame, EndSync, PauseKey, StepKey, PowerOff,
         Waiting, WaitMessage, RunBooted, ReturnGL, StepSent, WaitAllMessages, Acquire, Join,
         Calling, Call, ClearRendererCache, EmuFrameStep, EmuExit, screen
<1> QED
  BY <1>3, <1>4, <1>5, <1>6

(* Whatever order pauses, steps, stops, resets and failures come in, the   *)
(* console runs only while no pause is held, and sounds only while it runs.*)
THEOREM PausesAreNested == Spec => []PausesNest
<1>1. Init => PauseInv
  BY DEF Init, PauseInv, Sane
<1>2. TypeOK /\ PauseInv /\ [Next]_vars => PauseInv'
  <2> SUFFICES ASSUME TypeOK, PauseInv, [Next]_vars PROVE PauseInv'
    OBVIOUS
  <2>1. CASE UNCHANGED vars
    BY <2>1 DEF PauseInv, vars
  <2> QED
    BY <2>1, PauseHandling, PauseElsewhere
<1>3. PauseInv => PausesNest
  BY DEF PauseInv, Sane, PausesNest
<1> QED
  BY <1>1, <1>2, <1>3, MessageTypes, PTL DEF Spec

-----------------------------------------------------------------------------
(* Loans.  Messages nobody waits for leave the result alone; the interface *)
(* waits for one message at a time; a loan it has been told of, or is      *)
(* about to be told of, is in force.                                       *)
OwnKinds == {"pause", "unpause", "stop", "step", "cache", "exit"}

OwnSends == \A i \in 1 .. Len(queue) : ~queue[i].asked => queue[i].kind \in OwnKinds

OneAwaited ==
  /\ ui.at # "wait" => Answered
  /\ \A i \in 1 .. Len(queue) : queue[i].asked => queue[i].kind = ui.op
  /\ \A i, j \in 1 .. Len(queue) : queue[i].asked /\ queue[j].asked => i = j

LoanInForce ==
  /\ (ui.at = "wait" /\ ui.op = "borrow" /\ Answered /\ result = 1) => lent /\ glBorrowed
  /\ ui.at = "holding" => lent /\ glBorrowed

LoanInv == OwnSends /\ (~misled => OneAwaited /\ LoanInForce)

(* The messages of a queue after one was added.                            *)
LEMMA SentElements ==
  ASSUME TypeOK, NEW kind \in Kinds, NEW asked \in BOOLEAN, SendMessage(kind, asked)
  PROVE  /\ Len(queue') = Len(queue) + 1 /\ Len(queue) \in Nat
         /\ \A i \in 1 .. Len(queue) : queue'[i] = queue[i]
         /\ queue'[Len(queue) + 1] = [kind |-> kind, asked |-> asked]
  BY Sendable, Sent DEF TypeOK, SendMessage

(* A message nobody waits for makes no difference.                         *)
LEMMA LoanSend ==
  ASSUME TypeOK, LoanInv, NEW kind \in OwnKinds, SendMessage(kind, FALSE)
  PROVE  OwnSends' /\ (Answered' <=> Answered) /\ (OneAwaited /\ ui' = ui => OneAwaited')
<1>1. kind \in Kinds
  BY SentKinds DEF OwnKinds
<1>2. /\ Len(queue') = Len(queue) + 1 /\ Len(queue) \in Nat
      /\ \A i \in 1 .. Len(queue) : queue'[i] = queue[i]
      /\ queue'[Len(queue) + 1] = [kind |-> kind, asked |-> FALSE]
  BY <1>1, SentElements
<1>3. \A i \in 1 .. Len(queue') :
        \/ i \in 1 .. Len(queue) /\ queue'[i] = queue[i]
        \/ ~queue'[i].asked /\ queue'[i].kind = kind
  BY <1>2
<1>4. OwnSends'
  BY <1>3 DEF LoanInv, OwnSends
<1>5. Answered' <=> Answered
  BY <1>2, <1>3 DEF Answered
<1>6. ASSUME OneAwaited, ui' = ui PROVE OneAwaited'
  BY <1>3, <1>5, <1>6 DEF OneAwaited
<1> QED
  BY <1>4, <1>5, <1>6

(* Nothing a loan depends on changes.                                      *)
LEMMA LoanAside ==
  ASSUME LoanInv, UNCHANGED <<queue, ui, result, lent, glBorrowed, misled>>
  PROVE  LoanInv'
  BY DEF LoanInv, OwnSends, OneAwaited, LoanInForce, Answered

LEMMA LoanSendAside ==
  ASSUME TypeOK, LoanInv, NEW kind \in OwnKinds, SendMessage(kind, FALSE),
         UNCHANGED <<ui, result, lent, glBorrowed, misled>>
  PROVE  LoanInv'
<1>1. OwnSends' /\ (Answered' <=> Answered) /\ (OneAwaited => OneAwaited')
  BY LoanSend
<1>2. LoanInForce => LoanInForce'
  BY <1>1 DEF LoanInForce
<1> QED
  BY <1>1, <1>2 DEF LoanInv

(* The answer the interface waits for is that of its own message.          *)
LEMMA LoanHandling ==
  ASSUME TypeOK, LoanInv,
         HandleConsole \/ Refuse \/ HandleInitGL \/ HandleDeInitGL \/ HandleBorrow
  PROVE  LoanInv'
<1>1. /\ queue # <<>> /\ queue' = Tail(queue) /\ ui' = ui
  BY DEF HandleConsole, Refuse, HandleInitGL, HandleDeInitGL, HandleBorrow, Handling, Acknowledge
<1>2. /\ Current = queue[1] /\ Current \in Message
      /\ Len(queue') = Len(queue) - 1 /\ Len(queue) \in Nat \ {0}
      /\ \A i \in 1 .. Len(queue) - 1 : queue'[i] = queue[i + 1]
  BY <1>1, Taken DEF TypeOK, Current
<1>3. \A i \in 1 .. Len(queue') : i + 1 \in 1 .. Len(queue) /\ queue'[i] = queue[i + 1]
  BY <1>2
<1>4. OwnSends' /\ (~Current.asked => Current.kind \in OwnKinds)
  BY <1>2, <1>3 DEF LoanInv, OwnSends
<1>5. SUFFICES ASSUME ~misled' PROVE OneAwaited' /\ LoanInForce'
  BY <1>4 DEF LoanInv
<1>6. ~misled
  BY <1>5 DEF HandleConsole, Refuse, HandleInitGL, HandleDeInitGL, HandleBorrow
<1>7. OneAwaited /\ LoanInForce
  BY <1>6 DEF LoanInv
<1>8. Answered => Answered' /\ ~Current.asked
  BY <1>2, <1>3 DEF Answered
<1>9. OneAwaited'
  <2>1. ui'.at # "wait" => Answered'
    BY <1>1, <1>7, <1>8 DEF OneAwaited
  <2>2. \A i \in 1 .. Len(queue') : queue'[i].asked => queue'[i].kind = ui'.op
    BY <1>1, <1>3, <1>7 DEF OneAwaited
  <2>3. \A i, j \in 1 .. Len(queue') : queue'[i].asked /\ queue'[j].asked => i = j
    <3> SUFFICES ASSUME NEW i \in 1 .. Len(queue'), NEW j \in 1 .. Len(queue'),
                        queue'[i].asked, queue'[j].asked
                 PROVE  i = j
      OBVIOUS
    <3>1. i + 1 = j + 1
      BY <1>3, <1>7 DEF OneAwaited
    <3> QED
      BY <1>2, <3>1
  <2> QED
    BY <2>1, <2>2, <2>3 DEF OneAwaited
<1>10. CASE ~Current.asked
  <2>1. HandleConsole \/ Refuse
    BY <1>4, <1>10 DEF HandleInitGL, HandleDeInitGL, HandleBorrow, OwnKinds
  <2>2. UNCHANGED <<lent, glBorrowed>>
    BY <2>1 DEF HandleConsole, Refuse, thread, screen, LoseGL
  <2>3. result' = result \/ result' = 0
    <3>1. CASE HandleConsole
      <4>1. PICK o \in Outcome(Current.kind, core) : result' = o[2]
        BY <3>1 DEF HandleConsole
      <4>2. o[2] = result
        BY <1>4, <1>10 DEF Outcome, OwnKinds
      <4> QED
        BY <4>1, <4>2
    <3>2. CASE Refuse
      BY <3>2 DEF Refuse
    <3> QED
      BY <2>1, <3>1, <3>2
  <2>4. Answered' => Answered
    <3> SUFFICES ASSUME Answered', NEW i \in 1 .. Len(queue) PROVE ~queue[i].asked
      BY DEF Answered
    <3>1. CASE i = 1
      BY <1>2, <1>10, <3>1
    <3>2. CASE i # 1
      <4>1. i - 1 \in 1 .. Len(queue') /\ queue'[i - 1] = queue[i]
        BY <1>2, <3>2
      <4> QED
        BY <4>1 DEF Answered
    <3> QED
      BY <3>1, <3>2
  <2> QED
    BY <1>1, <1>7, <1>9, <2>2, <2>3, <2>4 DEF LoanInForce
<1>11. CASE Current.asked
  <2>1. ~Answered /\ ui.at = "wait" /\ Current.kind = ui.op
    BY <1>2, <1>7, <1>8, <1>11 DEF OneAwaited
  <2>2. CASE ui.op # "borrow"
    BY <1>1, <1>9, <2>1, <2>2 DEF LoanInForce
  <2>3. CASE ui.op = "borrow"
    <3>1. HandleBorrow
      BY <2>1, <2>3 DEF HandleConsole, Refuse, HandleInitGL, HandleDeInitGL, Controls
    <3>2. result' = 1 => lent' /\ glBorrowed'
      BY <3>1 DEF HandleBorrow
    <3> QED
      BY <1>1, <1>9, <2>1, <3>2 DEF LoanInForce
  <2> QED
    BY <2>2, <2>3
<1> QED
  BY <1>10, <1>11

LEMMA LoanLoop ==
  ASSUME TypeOK, LoanInv,
         \/ Lock \/ Unlock \/ LoanEnds
         \/ ResumeSync \/ BeginPass \/ EndInput \/ StepKeySent
         \/ BeginFrame \/ Rest \/ EndFrame \/ EndSync \/ Keys
  PROVE  LoanInv'
<1>1. CASE \/ Lock \/ Unlock \/ ResumeSync \/ BeginPass \/ EndInput
           \/ BeginFrame \/ Rest \/ EndFrame \/ EndSync
  <2>1. UNCHANGED <<queue, ui, result, lent, glBorrowed, misled>>
    BY <1>1 DEF Lock, Unlock, ResumeSync, BeginPass, EndInput, BeginFrame, Rest, EndFrame,
                EndSync, box, screen, past, LoseGL
  <2> QED
    BY <2>1, LoanAside
<1>2. CASE LoanEnds
  <2>1. UNCHANGED <<queue, ui, result, glBorrowed, misled>> /\ ~glBorrowed
    BY <1>2 DEF LoanEnds, box, screen, past
  <2> QED
    BY <2>1 DEF LoanInv, OwnSends, OneAwaited, LoanInForce, Answered
<1>3. CASE StepKeySent \/ PauseKey \/ StepKey \/ PowerOff
  <2>1. UNCHANGED <<ui, result, lent, glBorrowed, misled>>
    BY <1>3 DEF StepKeySent, PauseKey, StepKey, PowerOff, screen, past
  <2>2. (\E kind \in OwnKinds : SendMessage(kind, FALSE)) \/ queue' = queue
    BY <1>3 DEF StepKeySent, PauseKey, StepKey, PowerOff, SendOwn, OwnKinds, box
  <2> QED
    BY <2>1, <2>2, LoanAside, LoanSendAside
<1> QED
  BY <1>1, <1>2, <1>3 DEF Keys

LEMMA LoanInterface ==
  ASSUME TypeOK, LoanInv, Waiting \/ Calling
  PROVE  LoanInv'
<1>1. ASSUME NEW op \in Asked, SendMessage(op, TRUE), ui.at # "wait",
             ui' = [at |-> "wait", op |-> op], misled' = misled
      PROVE  LoanInv'
  <2>1. /\ Len(queue') = Len(queue) + 1 /\ Len(queue) \in Nat
        /\ \A i \in 1 .. Len(queue) : queue'[i] = queue[i]
        /\ queue'[Len(queue) + 1] = [kind |-> op, asked |-> TRUE]
    BY <1>1, SentElements, SentKinds
  <2>2. OwnSends'
    BY <2>1 DEF LoanInv, OwnSends
  <2>3. SUFFICES ASSUME ~misled PROVE OneAwaited' /\ LoanInForce'
    BY <1>1, <2>2 DEF LoanInv
  <2>4. \A i \in 1 .. Len(queue) : ~queue'[i].asked
    BY <1>1, <2>1, <2>3 DEF LoanInv, OneAwaited, Answered
  <2>5. ~Answered'
    BY <2>1 DEF Answered
  <2>6. \A i \in 1 .. Len(queue') : queue'[i].asked => i = Len(queue) + 1
    BY <2>1, <2>4
  <2>7. OneAwaited'
    BY <1>1, <2>1, <2>6 DEF OneAwaited
  <2>8. LoanInForce'
    BY <1>1, <2>5 DEF LoanInForce
  <2> QED
    BY <2>7, <2>8
<1>2. ASSUME \/ queue' = queue
             \/ \E kind \in OwnKinds : SendMessage(kind, FALSE),
             ui.at # "wait", ui'.at \notin {"wait", "holding"}, misled' = misled
      PROVE  LoanInv'
  <2>1. OwnSends' /\ (Answered' <=> Answered)
    BY <1>2, LoanSend DEF LoanInv, OwnSends, Answered
  <2>2. SUFFICES ASSUME ~misled PROVE OneAwaited' /\ LoanInForce'
    BY <1>2, <2>1 DEF LoanInv
  <2>3. Answered'
    BY <1>2, <2>1, <2>2 DEF LoanInv, OneAwaited
  <2> QED
    BY <1>2, <2>3 DEF OneAwaited, LoanInForce, Answered
<1>3. ASSUME NEW op \in Asked, Call(op) PROVE LoanInv'
  BY <1>1, <1>3 DEF Call, Begin, Go, past
<1>4. CASE RunBooted
  <2>1. SendMessage("run", TRUE) /\ ui.at = "booted" /\ misled' = misled
        /\ ui' = [at |-> "wait", op |-> "run"]
    BY <1>4 DEF RunBooted, Go, past
  <2> QED
    BY <1>1, <2>1 DEF Asked
<1>5. CASE ClearRendererCache
  <2>1. SendMessage("cache", FALSE) /\ UNCHANGED <<ui, result, lent, glBorrowed, misled>>
    BY <1>5 DEF ClearRendererCache, screen, thread, past
  <2> QED
    BY <2>1, LoanSendAside DEF OwnKinds
<1>6. CASE EmuFrameStep \/ StepSent \/ EmuExit
  <2>1. /\ ui.at # "wait" /\ ui'.at \notin {"wait", "holding"} /\ misled' = misled
        /\ \/ queue' = queue
           \/ \E kind \in OwnKinds : SendMessage(kind, FALSE)
    <3>1. CASE EmuFrameStep
      BY <3>1 DEF EmuFrameStep, Begin, Go, past, box, OwnKinds
    <3>2. CASE StepSent
      BY <3>2 DEF StepSent, Go, past, OwnKinds
    <3>3. CASE EmuExit
      BY <3>3 DEF EmuExit, Begin, Go, past, OwnKinds
    <3> QED
      BY <1>6, <3>1, <3>2, <3>3
  <2> QED
    BY <1>2, <2>1
<1>7. CASE WaitMessage
  <2>1. /\ ui.at = "wait" /\ misled' = (misled \/ ~Answered)
        /\ UNCHANGED <<queue, result, lent, glBorrowed>>
    BY <1>7 DEF WaitMessage, screen, thread
  <2>2. \/ ui'.at \notin {"wait", "holding"}
        \/ ui'.at = "holding" /\ ui.op = "borrow" /\ result = 1
    BY <1>7 DEF WaitMessage, NoOp
  <2>3. OwnSends'
    BY <2>1 DEF LoanInv, OwnSends
  <2>4. SUFFICES ASSUME ~misled' PROVE OneAwaited' /\ LoanInForce'
    BY <2>3 DEF LoanInv
  <2>5. ~misled /\ Answered /\ Answered'
    BY <2>1, <2>4 DEF Answered
  <2>6. OneAwaited'
    BY <2>1, <2>5 DEF OneAwaited, Answered
  <2>7. LoanInForce'
    BY <2>1, <2>2, <2>5 DEF LoanInv, LoanInForce
  <2> QED
    BY <2>6, <2>7
<1>8. CASE ReturnGL \/ WaitAllMessages \/ Acquire \/ Join
  <2>1. ui.at # "wait" /\ queue' = queue /\ misled' = misled
    BY <1>8 DEF ReturnGL, WaitAllMessages, Acquire, Join, box, past
  <2>2. ui' \in {NoOp, [ui EXCEPT !.at = "acquire"], [ui EXCEPT !.at = "joining"],
                [ui EXCEPT !.at = "gone"], [ui EXCEPT !.at = "waitall"]}
    BY <1>8 DEF ReturnGL, WaitAllMessages, Acquire, Join
  <2>3. ui'.at \notin {"wait", "holding"}
    BY <2>2 DEF TypeOK, NoOp
  <2> QED
    BY <1>2, <2>1, <2>3
<1> QED
  BY <1>3, <1>4, <1>5, <1>6, <1>7, <1>8 DEF Waiting, Calling

(* While the interface holds the context the thread is bound to wait for   *)
(* its return, as long as no permit has been taken by the wrong wait.      *)
THEOREM LoansAreHonoured == Spec => []LoanIsHonoured
<1>1. Init => LoanInv
  BY EmptySeq DEF Init, LoanInv, OwnSends, OneAwaited, LoanInForce, Answered, NoOp
<1>2. TypeOK /\ LoanInv /\ [Next]_vars => LoanInv'
  <2> SUFFICES ASSUME TypeOK, LoanInv, [Next]_vars PROVE LoanInv'
    OBVIOUS
  <2>1. CASE UNCHANGED vars
    BY <2>1, LoanAside DEF vars
  <2> QED
    BY <2>1, LoanHandling, LoanLoop, LoanInterface DEF Next, Emulation
<1>3. LoanInv => LoanIsHonoured
  BY DEF LoanInv, LoanInForce, LoanIsHonoured
<1> QED
  BY <1>1, <1>2, <1>3, MessageTypes, PTL DEF Spec
=============================================================================
