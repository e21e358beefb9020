---- MODULE SaveManagerProofs ----
(***************************************************************************)
(* Theorems about SaveManager, for every set of files and lengths and every *)
(* bound on the guest's writes, relocations, callers and failures.          *)
(***************************************************************************)
EXTENDS SaveManager, TLAPS

(* What ties the two buffers together between publications: nothing is      *)
(* requested only when nothing differs.                                     *)
Synchronised ==
  /\ flushRequested => buffer # Null
  /\ ~flushRequested => secondary = buffer
  /\ version = 0 <=> secondary = Null
  /\ acked <= version

(* At most one writer holds FileLock. *)
OneWriter == op[Worker] = Idle \/ op[User] = Idle

(* What a writer holds: a flush carries a publication newer than the last   *)
(* acknowledged one, the present one unless another was published since; a  *)
(* copy differs from the captured bytes only if something became pending;   *)
(* and a committed write is what its file holds.                            *)
WriterSound(w) ==
  op[w] # Idle =>
    /\ op[w].kind = "flush" =>
         /\ acked < op[w].version /\ op[w].version <= version
         /\ op[w].version = version => op[w].bytes = secondary
    /\ op[w].kind = "copy" /\ ~NeedsFlush => op[w].bytes = buffer
    /\ op[w].stage = "committed" =>
         op[w].path \in Paths /\ disk[op[w].path] = op[w].bytes

Durable ==
  /\ acked > 0 => ackPath \in Paths
  /\ AcknowledgedIsDurable

IInv ==
  /\ TypeOK
  /\ NothingMissed
  /\ Synchronised
  /\ OneWriter
  /\ \A w \in Writers : WriterSound(w)
  /\ Durable
  /\ answer = "saved" => ~NeedsFlush

----
(* Images *)

(* An image of a save memory is an image, and not the null buffer. *)
LEMMA ImageType ==
  ASSUME NEW len \in Lengths, NEW f \in [Cells(len) -> 0 .. MaxWrites]
  PROVE  f \in Images \ {Null}
<1>1. f \in Images
  BY DEF Images
<1>2. 0 \in DOMAIN f
  BY LengthAssumption DEF Cells
<1>3. DOMAIN Null = {}
  BY DEF Null
<1> QED
  BY <1>1, <1>2, <1>3

(* An image that is not the null buffer is one of a save memory. *)
LEMMA ImageLength ==
  ASSUME NEW f \in Images \ {Null}
  PROVE  \E len \in Lengths : f \in [Cells(len) -> 0 .. MaxWrites]
<1>1. PICK len \in Lengths \cup {0} : f \in [Cells(len) -> 0 .. MaxWrites]
  BY DEF Images
<1>2. ASSUME len = 0 PROVE FALSE
  <2>1. Cells(0) = {}
    BY DEF Cells
  <2>2. f = Null
    BY <1>1, <1>2, <2>1 DEF Null
  <2> QED
    BY <2>2
<1> QED
  BY <1>1, <1>2

(* The null buffer is an image. *)
LEMMA NullType == Null \in Images
<1>1. Cells(0) = {}
  BY DEF Cells
<1>2. Null \in [Cells(0) -> 0 .. MaxWrites]
  BY <1>1 DEF Null
<1> QED
  BY <1>2 DEF Images

(* Equal domains and equal bytes make equal images. *)
LEMMA SameImage ==
  ASSUME NEW f \in Images, NEW g \in Images, DOMAIN f = DOMAIN g,
         \A i \in DOMAIN f : f[i] = g[i]
  PROVE  f = g
<1>1. f = [i \in DOMAIN f |-> f[i]] /\ g = [i \in DOMAIN g |-> g[i]]
  BY DEF Images
<1> QED
  BY <1>1

----
(* Capture and publication *)

(* A capture makes the captured bytes those of guest memory, provided guest *)
(* memory changed only where the request says, and the dirty interval still *)
(* holds every byte in which the last publication differs.                  *)
LEMMA CaptureEffect ==
  ASSUME TypeOK, NothingMissed, Synchronised,
         NEW len \in Lengths, NEW o \in Cells(len), NEW n \in 0 .. len,
         sram' \in [Cells(len) -> 0 .. MaxWrites],
         \A i \in Cells(len) :
           DOMAIN sram = Cells(len) /\ i \notin Touched(len, o, n) => sram'[i] = sram[i],
         Capture(len, o, n)
  PROVE  /\ buffer' = sram' /\ buffer' \in Images \ {Null}
         /\ dirty' \in [from : Nat, to : Nat]
         /\ ~captureFailed' /\ flushRequested'
         /\ NothingMissed'
<1>1. sram' \in Images \ {Null}
  BY ImageType
<1>2. len \in Nat /\ o \in Nat /\ n \in Nat /\ o < len /\ Cells(len) = 0 .. (len - 1)
  BY LengthAssumption DEF Cells
<1>3. CASE DOMAIN buffer # Cells(len) \/ captureFailed
  <2>1. buffer' = sram' /\ dirty' = [from |-> 0, to |-> len]
    BY <1>3 DEF Capture
  <2>2. \A i \in DOMAIN buffer' : ~(i < 0 \/ i >= len)
    BY <1>2, <2>1
  <2> QED
    BY <1>1, <1>2, <2>1, <2>2 DEF Capture, NothingMissed
<1>4. CASE DOMAIN buffer = Cells(len) /\ ~captureFailed
  <2>1. buffer' = Patched(len, o, n) /\ dirty' = Widened(len, o, n)
        /\ secondary' = secondary
    BY <1>4 DEF Capture
  <2>2. buffer # Null
    <3>1. 0 \in Cells(len) /\ DOMAIN Null = {}
      BY <1>2 DEF Null
    <3> QED
      BY <1>4, <3>1
  <2>3. buffer = sram
    BY <1>4, <2>2 DEF NothingMissed
  <2>4. buffer' = sram'
    <3>1. sram' = [i \in Cells(len) |-> sram'[i]]
      OBVIOUS
    <3>2. \A i \in Cells(len) : i \notin Touched(len, o, n) => buffer[i] = sram'[i]
      BY <1>4, <2>3
    <3> QED
      BY <2>1, <3>1, <3>2 DEF Patched
  <2>5. dirty \in [from : Nat, to : Nat]
    BY DEF TypeOK
  <2>6. dirty' \in [from : Nat, to : Nat]
    BY <1>2, <2>1, <2>5 DEF Widened
  <2>7. ASSUME DOMAIN secondary' = DOMAIN buffer', NEW i \in DOMAIN buffer',
               i < dirty'.from \/ i >= dirty'.to
        PROVE  secondary'[i] = buffer'[i]
    <3>1. i \in Cells(len) /\ i \in Nat /\ i < len
      BY <1>2, <2>1, <2>7 DEF Patched
    <3>2. DOMAIN secondary = DOMAIN buffer
      BY <1>4, <2>1, <2>7 DEF Patched
    <3>3. ~(n = 0 \/ n > len - o)
      BY <1>2, <2>1, <2>7, <3>1 DEF Widened
    <3>4. i \notin Touched(len, o, n)
      <4>1. i < o \/ i >= o + n
        BY <1>2, <2>1, <2>5, <2>7, <3>1, <3>3 DEF Widened
      <4> QED
        BY <1>2, <3>1, <3>3, <4>1 DEF Touched
    <3>5. buffer'[i] = buffer[i]
      BY <2>1, <3>1, <3>4 DEF Patched
    <3>6. i < dirty.from \/ i >= dirty.to
      BY <1>2, <2>1, <2>5, <2>7, <3>1, <3>3 DEF Widened
    <3> QED
      BY <1>4, <2>1, <3>1, <3>2, <3>5, <3>6 DEF NothingMissed
  <2>8. NothingMissed'
    BY <2>4, <2>7 DEF NothingMissed
  <2> QED
    BY <1>1, <2>4, <2>6, <2>8 DEF Capture
<1> QED
  BY <1>3, <1>4

(* A publication is the captured bytes, although it copies only some. *)
LEMMA PublishEffect ==
  ASSUME TypeOK, NothingMissed
  PROVE  Published = buffer
<1>1. CASE DOMAIN secondary # DOMAIN buffer \/ dirty.to = 0
  BY <1>1 DEF Published
<1>2. CASE DOMAIN secondary = DOMAIN buffer /\ dirty.to # 0
  <2>1. buffer \in Images /\ dirty \in [from : Nat, to : Nat]
    BY DEF TypeOK
  <2>2. \A i \in DOMAIN buffer : i \in Int
    BY <2>1, LengthAssumption DEF Images, Cells
  <2>3. \A i \in DOMAIN buffer :
          ~(dirty.from <= i /\ i < dirty.to) => secondary[i] = buffer[i]
    BY <1>2, <2>1, <2>2 DEF NothingMissed
  <2>4. buffer = [i \in DOMAIN buffer |-> buffer[i]]
    BY <2>1 DEF Images
  <2> QED
    BY <1>2, <2>3, <2>4 DEF Published
<1> QED
  BY <1>1, <1>2

----
(* The inductive invariant *)

(* The invariant holds initially. *)
LEMMA InitIInv == Init => IInv
<1> SUFFICES ASSUME Init PROVE IInv
  OBVIOUS
<1>1. PICK len \in Lengths : sram = [i \in Cells(len) |-> 0]
  BY DEF Init
<1>2. sram \in Images \ {Null}
  <2>1. sram \in [Cells(len) -> 0 .. MaxWrites]
    BY <1>1, BoundAssumption
  <2> QED
    BY <2>1, ImageType
<1>3. TypeOK
  <2>1. phase \in {"idle", "running", "stopping", "closed"}
    BY DEF Init
  <2>2. disk \in [Paths -> Images] /\ stored \in [Paths -> Nat]
    BY NullType DEF Init
  <2>3. op \in [Writers -> Operations \cup {Idle}]
    BY DEF Init
  <2>4. dirty \in [from : Nat, to : Nat]
    BY DEF Init, Clean
  <2>5. /\ path \in Paths \cup {NoPath} /\ ackPath \in Paths \cup {NoPath}
        /\ buffer \in Images /\ secondary \in Images
    BY NullType, PathAssumption DEF Init
  <2>6. captureFailed \in BOOLEAN /\ flushRequested \in BOOLEAN
    BY DEF Init
  <2>7. /\ writes \in 0 .. MaxWrites /\ version \in Nat /\ acked \in Nat
        /\ timer \in {"none", "fresh", "due"} /\ answer \in {"none", "saved", "failed"}
        /\ moves \in Nat /\ calls \in Nat /\ faults \in Nat
    BY BoundAssumption DEF Init
  <2> QED
    BY <1>2, <2>1, <2>2, <2>3, <2>4, <2>5, <2>6, <2>7 DEF TypeOK
<1>4. NothingMissed
  BY DEF Init, NothingMissed, Null
<1> QED
  BY <1>3, <1>4 DEF Init, IInv, Synchronised, OneWriter, WriterSound, Durable,
     AcknowledgedIsDurable, Writers, Worker, User, Idle

(* RequestFlush, with or without the memory it needs. *)
LEMMA CaptureStep ==
  ASSUME IInv,
         NEW len \in Lengths, NEW o \in Cells(len), NEW n \in 0 .. len,
         sram' \in [Cells(len) -> 0 .. MaxWrites], writes' \in 0 .. MaxWrites,
         \A i \in Cells(len) :
           DOMAIN sram = Cells(len) /\ i \notin Touched(len, o, n) => sram'[i] = sram[i],
         (Capture(len, o, n) /\ UNCHANGED faults) \/ CaptureNoMemory(len),
         answer' \in {"none", "failed"},
         UNCHANGED <<acked, path, phase, disk, op, ackPath, stored, moves, calls>>
  PROVE  IInv'
<1> USE DEF IInv
<1>1. sram' \in Images \ {Null}
  BY ImageType
<1>2. CASE Capture(len, o, n) /\ UNCHANGED faults
  <2>1. /\ buffer' = sram' /\ buffer' \in Images \ {Null}
        /\ dirty' \in [from : Nat, to : Nat]
        /\ ~captureFailed' /\ flushRequested'
        /\ NothingMissed'
    BY <1>2, CaptureEffect
  <2>2. UNCHANGED <<secondary, version, timer>> /\ captureFailed' \in BOOLEAN
        /\ flushRequested' \in BOOLEAN
    BY <1>2 DEF Capture
  <2>3. TypeOK'
    BY <1>1, <1>2, <2>1, <2>2 DEF TypeOK
  <2>4. NeedsFlush'
    BY <2>1 DEF NeedsFlush
  <2>5. Synchronised'
    BY <2>1, <2>2 DEF Synchronised
  <2>6. \A w \in Writers : WriterSound(w)'
    BY <2>2, <2>4 DEF WriterSound
  <2> QED
    BY <2>1, <2>3, <2>4, <2>5, <2>6 DEF OneWriter, Durable, AcknowledgedIsDurable
<1>3. CASE CaptureNoMemory(len)
  <2>1. /\ UNCHANGED <<buffer, flushRequested, dirty, secondary, version, timer>>
        /\ captureFailed' = TRUE /\ faults' \in Nat
    BY <1>3, BoundAssumption DEF CaptureNoMemory, published, TypeOK
  <2>2. TypeOK'
    BY <1>1, <2>1 DEF TypeOK
  <2>3. NeedsFlush'
    BY <2>1 DEF NeedsFlush
  <2>4. NothingMissed'
    BY <2>1 DEF NothingMissed
  <2>5. \A w \in Writers : WriterSound(w)'
    BY <2>1, <2>3 DEF WriterSound
  <2> QED
    BY <2>1, <2>2, <2>3, <2>4, <2>5 DEF Synchronised, OneWriter, Durable, AcknowledgedIsDurable
<1> QED
  BY <1>2, <1>3

(* A guest write changes only the bytes its request names. *)
LEMMA GuestWriteStep ==
  ASSUME IInv, NEW len \in Lengths, NEW o \in Cells(len), NEW n \in 0 .. len,
         GuestWrite(len, o, n)
  PROVE  IInv'
<1>1. writes \in 0 .. MaxWrites /\ writes + 1 \in 0 .. MaxWrites
  BY BoundAssumption DEF IInv, TypeOK, GuestWrite
<1>2. sram' \in [Cells(len) -> 0 .. MaxWrites]
  <2>1. PICK l \in Lengths : sram \in [Cells(l) -> 0 .. MaxWrites]
    BY ImageLength DEF IInv, TypeOK
  <2>2. \A i \in Cells(len) : DOMAIN sram = Cells(len) => sram[i] \in 0 .. MaxWrites
    BY <2>1
  <2> QED
    BY <1>1, <2>2 DEF GuestWrite
<1>3. \A i \in Cells(len) :
        DOMAIN sram = Cells(len) /\ i \notin Touched(len, o, n) => sram'[i] = sram[i]
  BY DEF GuestWrite
<1> QED
  BY <1>1, <1>2, <1>3, CaptureStep DEF GuestWrite

(* A retried capture offers all of an unchanged guest memory. *)
LEMMA RetryCaptureStep ==
  ASSUME IInv, RetryCapture
  PROVE  IInv'
<1>1. PICK len \in Lengths :
        /\ DOMAIN sram = Cells(len)
        /\ (Capture(len, 0, len) /\ UNCHANGED faults) \/ CaptureNoMemory(len)
  BY DEF RetryCapture
<1>2. sram' = sram /\ sram \in [Cells(len) -> 0 .. MaxWrites]
  <2>1. PICK l \in Lengths : sram \in [Cells(l) -> 0 .. MaxWrites]
    BY ImageLength DEF IInv, TypeOK
  <2> QED
    BY <1>1, <2>1 DEF RetryCapture
<1>3. 0 \in Cells(len) /\ len \in 0 .. len
  BY LengthAssumption DEF Cells
<1>4. answer' \in {"none", "failed"}
  BY DEF RetryCapture, IInv, TypeOK, NeedsFlush, history
<1> QED
  BY <1>1, <1>2, <1>3, <1>4, CaptureStep DEF RetryCapture, IInv, TypeOK, history

(* A publication, whoever makes it, leaves a version nobody has written. *)
LEMMA PublishStep ==
  ASSUME IInv, flushRequested, ~captureFailed, Publish, UNCHANGED <<sram, captured, acked>>
  PROVE  /\ secondary' = buffer /\ buffer # Null
         /\ secondary' \in Images /\ version' \in Nat
         /\ dirty' \in [from : Nat, to : Nat] /\ flushRequested' = FALSE
         /\ timer' = "fresh"
         /\ version' = version + 1 /\ acked < version' /\ NeedsFlush'
         /\ NothingMissed' /\ Synchronised'
<1>1. secondary' = buffer /\ buffer # Null
  BY PublishEffect DEF IInv, Publish, Synchronised
<1>2. version \in Nat /\ acked \in Nat /\ acked <= version
  BY DEF IInv, TypeOK, Synchronised
<1>3. version' = version + 1 /\ acked < version' /\ acked' = acked
  BY <1>2 DEF Publish
<1>4. NothingMissed'
  BY <1>1 DEF NothingMissed, IInv, captured
<1>5. Synchronised'
  BY <1>1, <1>2, <1>3 DEF Synchronised, Publish, captured
<1>6. NeedsFlush'
  BY <1>2, <1>3 DEF NeedsFlush
<1> QED
  BY <1>1, <1>2, <1>3, <1>4, <1>5, <1>6 DEF Publish, Clean, IInv, TypeOK

----
(* Frames, relocation and the writers *)

(* Nothing that IInv depends on moves but what is listed as changed. *)
LEMMA CheckFlushStep ==
  ASSUME IInv, CheckFlush
  PROVE  IInv'
<1> USE DEF IInv
<1>1. /\ secondary' = buffer /\ buffer # Null
      /\ secondary' \in Images /\ version' \in Nat
      /\ dirty' \in [from : Nat, to : Nat] /\ flushRequested' = FALSE
      /\ timer' = "fresh"
      /\ version' = version + 1 /\ acked < version' /\ NeedsFlush'
      /\ NothingMissed' /\ Synchronised'
  BY PublishStep DEF CheckFlush
<1>2. UNCHANGED <<sram, writes, buffer, captureFailed, acked, path, phase, disk, op,
                  ackPath, stored, answer, moves, calls, faults>>
  BY DEF CheckFlush, captured, history, bounds
<1>3. TypeOK'
  BY <1>1, <1>2 DEF TypeOK
<1>4. \A w \in Writers : WriterSound(w)'
  <2>1. version \in Nat /\ \A w \in Writers : op[w] # Idle => op[w].version \in Nat
    BY DEF TypeOK, Operations
  <2> QED
    BY <1>1, <1>2, <2>1 DEF WriterSound
<1>5. answer' # "saved"
  BY <1>2 DEF CheckFlush, NeedsFlush
<1> QED
  BY <1>1, <1>2, <1>3, <1>4, <1>5 DEF OneWriter, Durable, AcknowledgedIsDurable

(* Steps that change only the clock, the path, the life or the bounds. *)
LEMMA OutsideStep ==
  ASSUME IInv, TypeOK', answer' = "saved" => answer = "saved" \/ ~NeedsFlush,
         UNCHANGED <<sram, buffer, captureFailed, flushRequested, dirty, secondary, version,
                     acked, disk, op, ackPath>>
  PROVE  IInv'
<1> USE DEF IInv
<1>1. NothingMissed' /\ Synchronised' /\ OneWriter'
  BY DEF NothingMissed, Synchronised, OneWriter
<1>2. NeedsFlush' = NeedsFlush
  BY DEF NeedsFlush
<1>3. \A w \in Writers : WriterSound(w)'
  BY <1>2 DEF WriterSound
<1>4. Durable'
  BY <1>2 DEF Durable, AcknowledgedIsDurable
<1> QED
  BY <1>1, <1>2, <1>3, <1>4

(* The passing of the quiet period. *)
LEMMA ElapseStep ==
  ASSUME IInv, Elapse
  PROVE  IInv'
<1>1. TypeOK'
  BY DEF IInv, TypeOK, Elapse, captured, history, bounds
<1> QED
  BY <1>1, OutsideStep DEF Elapse, captured, history

(* A relocation changes only where the next write lands. *)
LEMMA SetPathStep ==
  ASSUME IInv, NEW p \in Paths, SetPath(p)
  PROVE  IInv'
<1>1. TypeOK'
  BY DEF IInv, TypeOK, SetPath, captured, published
<1> QED
  BY <1>1, OutsideStep DEF SetPath, captured, published

(* The destructor leaves the pending state to its last flush. *)
LEMMA CloseStep ==
  ASSUME IInv, Close
  PROVE  IInv'
<1>1. TypeOK'
  BY DEF IInv, TypeOK, Close, captured, published, history, bounds
<1> QED
  BY <1>1, OutsideStep DEF Close, captured, published, history

(* The two records a writer can start with. *)
LEMMA OperationType ==
  ASSUME TypeOK, NEW kind \in {"flush", "copy"}, NEW p \in Paths \cup {NoPath},
         NEW bytes \in Images, NEW v \in Nat, NEW call \in BOOLEAN
  PROVE  [kind |-> kind, path |-> p, bytes |-> bytes, version |-> v, tries |-> 1,
          stage |-> "writing", call |-> call] \in Operations \ {Idle}
<1>1. 1 \in 1 .. Attempts
  BY AttemptsAssumption
<1>2. ASSUME NEW o \in Operations PROVE o # Idle
  <2>1. o.kind \in {"flush", "copy"}
    BY DEF Operations
  <2>2. Idle.kind = "idle"
    BY DEF Idle
  <2> QED
    BY <2>1, <2>2
<1> QED
  BY <1>1, <1>2 DEF Operations

(* FlushFile, whoever calls it, up to the start of its write. *)
LEMMA FlushStep ==
  ASSUME IInv, NEW w \in Writers, FileLockFree,
         NEW publish \in BOOLEAN, NEW debounce \in BOOLEAN, NEW call \in BOOLEAN,
         call => publish /\ ~debounce,
         FlushFile(w, publish, debounce, call) \/ FlushNoMemory(publish, debounce, call),
         phase' \in {"idle", "running", "stopping", "closed"},
         moves' \in Nat, calls' \in Nat,
         UNCHANGED <<sram, writes, buffer, captureFailed, acked, path, disk, ackPath, stored>>
  PROVE  IInv'
<1> USE DEF IInv
<1>0. \A v \in Writers : op[v] = Idle
  BY DEF FileLockFree
<1>1. CASE Refused(call)
  <2>1. answer' \in {answer, "failed"}
    BY <1>1 DEF Refused, Answer
  <2>2. UNCHANGED <<flushRequested, dirty, secondary, version, timer, op, faults>>
    BY <1>1 DEF Refused, published
  <2>3. TypeOK'
    BY <2>1, <2>2 DEF TypeOK
  <2> QED
    BY <2>1, <2>2, <2>3, OutsideStep
<1>2. ASSUME ~captureFailed, publish, flushRequested, Publish, op' = op,
             answer' \in {answer, "none", "failed"}, answer' = "saved" => ~call,
             faults' \in Nat
      PROVE  IInv'
  <2>1. /\ secondary' = buffer /\ buffer # Null
        /\ secondary' \in Images /\ version' \in Nat
        /\ dirty' \in [from : Nat, to : Nat] /\ flushRequested' = FALSE
        /\ timer' = "fresh"
        /\ version' = version + 1 /\ acked < version' /\ NeedsFlush'
        /\ NothingMissed' /\ Synchronised'
    BY <1>2, PublishStep DEF captured
  <2>2. TypeOK'
    BY <1>2, <2>1 DEF TypeOK
  <2>3. \A v \in Writers : WriterSound(v)'
    BY <1>0, <1>2 DEF WriterSound
  <2>4. answer' # "saved"
    BY <1>2 DEF NeedsFlush
  <2> QED
    BY <1>2, <2>1, <2>2, <2>3, <2>4 DEF OneWriter, Durable, AcknowledgedIsDurable
<1>3. CASE FlushNoMemory(publish, debounce, call)
  <2>1. /\ faults' \in Nat /\ op' = op /\ ~captureFailed
        /\ answer' \in {answer, "none", "failed"} /\ (answer' = "saved" => ~call)
    BY <1>3, BoundAssumption DEF FlushNoMemory, Answer, TypeOK
  <2>2. CASE publish /\ flushRequested /\ Publish
    BY <1>2, <2>1, <2>2
  <2>3. CASE timer' = "fresh" /\ UNCHANGED <<flushRequested, dirty, secondary, version>>
    <3>1. TypeOK'
      BY <2>1, <2>3 DEF TypeOK
    <3> QED
      BY <2>1, <2>3, <3>1, OutsideStep
  <2> QED
    BY <1>3, <2>2, <2>3 DEF FlushNoMemory
<1>4. CASE /\ ~captureFailed /\ UNCHANGED faults
           /\ IF publish /\ flushRequested THEN Publish ELSE UNCHANGED published
           /\ NothingToWrite(debounce) /\ Answer(call, TRUE) /\ UNCHANGED op
  <2>1. CASE publish /\ flushRequested
    <3>1. acked < version' /\ secondary' # Null
      BY <1>4, <2>1, PublishStep DEF captured
    <3>2. debounce
      BY <1>4, <3>1 DEF NothingToWrite, TypeOK
    <3> QED
      BY <1>2, <1>4, <2>1, <3>2 DEF Answer, TypeOK
  <2>2. CASE ~(publish /\ flushRequested)
    <3>1. UNCHANGED <<flushRequested, dirty, secondary, version, timer>>
      BY <1>4, <2>2 DEF published
    <3>2. CASE ~call
      <4>1. answer' = answer
        BY <1>4, <3>2 DEF Answer
      <4>2. TypeOK'
        BY <1>4, <3>1, <4>1 DEF TypeOK
      <4> QED
        BY <1>4, <3>1, <4>1, <4>2, OutsideStep
    <3>3. CASE call
      <4>1. answer' = "saved" /\ ~flushRequested /\ ~debounce /\ publish
        BY <1>4, <2>2, <3>3 DEF Answer
      <4>2. secondary = Null \/ version = acked
        BY <1>4, <3>1, <4>1 DEF NothingToWrite
      <4>3. version = acked
        BY <4>2 DEF Synchronised, TypeOK
      <4>4. ~NeedsFlush
        BY <1>4, <4>1, <4>3 DEF NeedsFlush
      <4>5. TypeOK'
        BY <1>4, <3>1, <4>1 DEF TypeOK
      <4> QED
        BY <1>4, <3>1, <4>4, <4>5, OutsideStep
    <3> QED
      BY <3>2, <3>3
  <2> QED
    BY <2>1, <2>2
<1>5. CASE /\ ~captureFailed /\ UNCHANGED faults
           /\ IF publish /\ flushRequested THEN Publish ELSE UNCHANGED published
           /\ ~NothingToWrite(debounce)
           /\ op' = [op EXCEPT ![w] =
                [kind |-> "flush", path |-> path, bytes |-> secondary',
                 version |-> version', tries |-> 1, stage |-> "writing", call |-> call]]
           /\ answer' = IF call THEN "none" ELSE answer
  <2>1. version' # acked /\ secondary' # Null
    BY <1>5 DEF NothingToWrite
  <2>2. /\ secondary' \in Images /\ version' \in Nat
        /\ dirty' \in [from : Nat, to : Nat] /\ flushRequested' \in BOOLEAN
        /\ timer' \in {"none", "fresh", "due"}
        /\ NothingMissed' /\ Synchronised' /\ acked < version'
    <3>1. CASE publish /\ flushRequested
      BY <1>5, <3>1, PublishStep DEF captured
    <3>2. CASE ~(publish /\ flushRequested)
      <4>1. UNCHANGED <<flushRequested, dirty, secondary, version, timer>>
        BY <1>5, <3>2 DEF published
      <4>2. NothingMissed' /\ Synchronised'
        BY <4>1 DEF NothingMissed, Synchronised
      <4>3. acked < version
        BY <2>1, <4>1 DEF TypeOK, Synchronised
      <4> QED
        BY <4>1, <4>2, <4>3 DEF TypeOK
    <3> QED
      BY <3>1, <3>2
  <2>3. NeedsFlush'
    BY <2>2 DEF NeedsFlush, TypeOK
  <2>4. /\ op'[w] = [kind |-> "flush", path |-> path, bytes |-> secondary',
                     version |-> version', tries |-> 1, stage |-> "writing", call |-> call]
        /\ op'[w] \in Operations
        /\ \A v \in Writers : v # w => op'[v] = Idle
        /\ op' \in [Writers -> Operations \cup {Idle}]
    <3>1. [kind |-> "flush", path |-> path, bytes |-> secondary',
           version |-> version', tries |-> 1, stage |-> "writing", call |-> call] \in Operations
      BY <2>2, OperationType DEF TypeOK
    <3> QED
      BY <1>0, <1>5, <3>1 DEF TypeOK
  <2>5. answer' # "saved"
    <3>1. CASE publish /\ flushRequested
      BY <1>5, <3>1 DEF NeedsFlush
    <3>2. CASE ~(publish /\ flushRequested)
      BY <1>5, <2>1, <3>2 DEF NeedsFlush, published
    <3> QED
      BY <3>1, <3>2
  <2>6. TypeOK'
    BY <1>5, <2>2, <2>4 DEF TypeOK
  <2>7. OneWriter'
    BY <2>4 DEF OneWriter, Writers, Worker, User
  <2>8. \A v \in Writers : WriterSound(v)'
    <3>1. WriterSound(w)'
      BY <2>2, <2>4 DEF WriterSound, TypeOK
    <3> QED
      BY <2>4, <3>1 DEF WriterSound
  <2> QED
    BY <2>2, <2>3, <2>5, <2>6, <2>7, <2>8 DEF Durable, AcknowledgedIsDurable
<1> QED
  BY <1>1, <1>3, <1>4, <1>5 DEF FlushFile

(* The three callers of FlushFile. *)
LEMMA FlushCallers ==
  ASSUME IInv, WorkerFlush \/ UserFlush(TRUE) \/ UserFlush(FALSE) \/ LastFlush
  PROVE  IInv'
<1>1. phase \in {"idle", "running", "stopping", "closed"} /\ moves \in Nat /\ calls \in Nat
  BY DEF IInv, TypeOK
<1>2. CASE WorkerFlush
  <2>1. FlushFile(Worker, FALSE, TRUE, FALSE) \/ FlushNoMemory(FALSE, TRUE, FALSE)
    BY <1>2 DEF WorkerFlush
  <2> QED
    BY <1>1, <1>2, <2>1, FlushStep DEF WorkerFlush, Writers, captured
<1>3. CASE UserFlush(TRUE)
  <2>1. FlushFile(User, TRUE, FALSE, TRUE) \/ FlushNoMemory(TRUE, FALSE, TRUE)
    BY <1>3 DEF UserFlush
  <2>2. calls' \in Nat /\ UNCHANGED <<phase, moves>>
    BY <1>3 DEF UserFlush, IInv, TypeOK
  <2> QED
    BY <1>1, <1>3, <2>1, <2>2, FlushStep DEF UserFlush, Writers, captured
<1>5. CASE UserFlush(FALSE)
  <2>1. FlushFile(User, FALSE, FALSE, FALSE) \/ FlushNoMemory(FALSE, FALSE, FALSE)
    BY <1>5 DEF UserFlush
  <2>2. calls' \in Nat /\ UNCHANGED <<phase, moves>>
    BY <1>5 DEF UserFlush, IInv, TypeOK
  <2> QED
    BY <1>1, <1>5, <2>1, <2>2, FlushStep DEF UserFlush, Writers, captured
<1>4. CASE LastFlush
  <2>1. FlushFile(User, TRUE, FALSE, TRUE) \/ FlushNoMemory(TRUE, FALSE, TRUE)
    BY <1>4 DEF LastFlush
  <2> QED
    BY <1>1, <1>4, <2>1, FlushStep DEF LastFlush, Writers, captured
<1> QED
  BY <1>2, <1>3, <1>4, <1>5

(* A recovery copy starts with the captured bytes. *)
LEMMA SaveCopyStep ==
  ASSUME IInv, NEW p \in Paths, SaveCopy(p)
  PROVE  IInv'
<1> USE DEF IInv
<1>1. UNCHANGED <<sram, writes, buffer, captureFailed, flushRequested, dirty, secondary,
                  version, timer, acked, path, phase, disk, ackPath, stored, answer,
                  moves, faults>>
  BY DEF SaveCopy, captured, published, history
<1>2. /\ op'[User] = [kind |-> "copy", path |-> p, bytes |-> buffer, version |-> version,
                      tries |-> 1, stage |-> "writing", call |-> FALSE]
      /\ op'[Worker] = Idle
      /\ op' \in [Writers -> Operations \cup {Idle}]
  <2>1. [kind |-> "copy", path |-> p, bytes |-> buffer, version |-> version,
         tries |-> 1, stage |-> "writing", call |-> FALSE] \in Operations
    BY OperationType DEF TypeOK
  <2> QED
    BY <2>1 DEF SaveCopy, FileLockFree, TypeOK, Writers, User, Worker
<1>3. TypeOK'
  <2>1. calls' \in Nat
    BY DEF SaveCopy, TypeOK
  <2> QED
    BY <1>1, <1>2, <2>1 DEF TypeOK
<1>4. OneWriter'
  BY <1>2 DEF OneWriter
<1>5. \A w \in Writers : WriterSound(w)'
  BY <1>1, <1>2 DEF WriterSound, Writers
<1>6. NeedsFlush' = NeedsFlush
  BY <1>1 DEF NeedsFlush
<1> QED
  BY <1>1, <1>3, <1>4, <1>5, <1>6 DEF NothingMissed, Synchronised, Durable, AcknowledgedIsDurable

----
(* The disk *)

(* A write that succeeds puts on disk what its writer holds; if that is the *)
(* file last acknowledged, either something is pending or the bytes are the *)
(* captured ones.                                                           *)
LEMMA CommitStep ==
  ASSUME IInv, NEW w \in Writers, Commit(w)
  PROVE  IInv'
<1> USE DEF IInv
<1>1. /\ UNCHANGED <<sram, writes, buffer, captureFailed, flushRequested, dirty, secondary,
                     version, timer, acked, path, phase, ackPath, answer, moves, calls, faults>>
      /\ NeedsFlush' = NeedsFlush
  BY DEF Commit, captured, published, bounds, NeedsFlush
<1>2. /\ op[w] \in Operations /\ op[w].path \in Paths /\ op[w].bytes \in Images
      /\ op[w].version \in Nat /\ op[w].kind \in {"flush", "copy"}
  BY DEF Commit, TypeOK, Operations
<1>3. \A v \in Writers : v # w => op[v] = Idle
  BY DEF Commit, OneWriter, Writers
<1>4. /\ op'[w] = [op[w] EXCEPT !.stage = "committed"] /\ op'[w] \in Operations
      /\ \A v \in Writers : v # w => op'[v] = Idle
      /\ op' \in [Writers -> Operations \cup {Idle}]
  <2>1. op'[w] = [op[w] EXCEPT !.stage = "committed"]
    BY DEF Commit, TypeOK
  <2>2. [op[w] EXCEPT !.stage = "committed"] \in Operations
    BY <1>2 DEF Operations
  <2> QED
    BY <1>3, <2>1, <2>2 DEF Commit, TypeOK
<1>5. disk' = [disk EXCEPT ![op[w].path] = op[w].bytes] /\ disk' \in [Paths -> Images]
  BY <1>2 DEF Commit, TypeOK
<1>6. stored' \in [Paths -> Nat]
  BY <1>2 DEF Commit, TypeOK
<1>7. TypeOK'
  BY <1>1, <1>4, <1>5, <1>6 DEF TypeOK
<1>8. OneWriter'
  BY <1>4 DEF OneWriter, Writers, Worker, User
<1>9. /\ op'[w].kind = op[w].kind /\ op'[w].path = op[w].path
      /\ op'[w].bytes = op[w].bytes /\ op'[w].version = op[w].version
  BY <1>2, <1>4 DEF Operations
<1>10. \A v \in Writers : WriterSound(v)'
  <2>1. WriterSound(w)'
    <3>1. disk'[op'[w].path] = op'[w].bytes
      BY <1>2, <1>5, <1>9 DEF TypeOK
    <3>2. op[w] # Idle
      BY DEF Commit
    <3> QED
      BY <1>1, <1>2, <1>9, <3>1, <3>2 DEF WriterSound
  <2> QED
    BY <1>4, <2>1 DEF WriterSound
<1>11. Durable'
  <2>1. ASSUME acked > 0, ~NeedsFlush PROVE disk'[ackPath] = sram
    <3>1. disk[ackPath] = sram /\ ackPath \in Paths
      BY <2>1 DEF Durable, AcknowledgedIsDurable
    <3>2. op[w].kind = "copy"
      BY <1>2, <2>1 DEF WriterSound, NeedsFlush, Commit, TypeOK
    <3>3. op[w].bytes = buffer
      BY <2>1, <3>2 DEF WriterSound, Commit
    <3>4. buffer = sram
      BY <2>1 DEF NothingMissed, NeedsFlush, Synchronised, TypeOK
    <3> QED
      BY <1>2, <1>5, <3>1, <3>3, <3>4 DEF TypeOK
  <2> QED
    BY <1>1, <2>1 DEF Durable, AcknowledgedIsDurable
<1> QED
  BY <1>1, <1>7, <1>8, <1>10, <1>11 DEF NothingMissed, Synchronised

(* A failed attempt leaves the file and the pending state as they were. *)
LEMMA DeniedStep ==
  ASSUME IInv, NEW w \in Writers, Denied(w)
  PROVE  IInv'
<1> USE DEF IInv
<1>1. /\ UNCHANGED <<sram, writes, buffer, captureFailed, flushRequested, dirty, secondary,
                     version, timer, acked, path, phase, disk, ackPath, stored, answer,
                     moves, calls>>
      /\ NeedsFlush' = NeedsFlush
  BY DEF Denied, captured, published, history, NeedsFlush
<1>2. op[w] \in Operations
  BY DEF Denied, TypeOK
<1>3. \A v \in Writers : v # w => op[v] = Idle
  BY DEF Denied, OneWriter, Writers
<1>4. /\ op'[w] \in Operations /\ op'[w].stage # "committed"
      /\ op'[w].kind = op[w].kind /\ op'[w].path = op[w].path
      /\ op'[w].bytes = op[w].bytes /\ op'[w].version = op[w].version
      /\ \A v \in Writers : v # w => op'[v] = Idle
      /\ op' \in [Writers -> Operations \cup {Idle}]
  <2>1. CASE op' = [op EXCEPT ![w].stage = "denied"]
    <3>1. op'[w] = [op[w] EXCEPT !.stage = "denied"]
      BY <2>1 DEF TypeOK
    <3>2. op'[w] \in Operations
      BY <1>2, <3>1 DEF Operations
    <3> QED
      BY <1>2, <1>3, <2>1, <3>1, <3>2 DEF TypeOK, Operations
  <2>2. CASE op[w].tries < Attempts /\ op' = [op EXCEPT ![w].tries = @ + 1]
    <3>1. op'[w] = [op[w] EXCEPT !.tries = @ + 1]
      BY <2>2 DEF TypeOK
    <3>2. op[w].tries + 1 \in 1 .. Attempts
      BY <1>2, <2>2, AttemptsAssumption DEF Operations
    <3>3. op'[w] \in Operations
      BY <1>2, <3>1, <3>2 DEF Operations
    <3> QED
      BY <1>2, <1>3, <2>2, <3>1, <3>3 DEF TypeOK, Operations, Denied
  <2> QED
    BY <2>1, <2>2 DEF Denied
<1>5. faults' \in Nat
  BY DEF Denied, TypeOK
<1>6. TypeOK'
  BY <1>1, <1>4, <1>5 DEF TypeOK
<1>7. OneWriter'
  BY <1>4 DEF OneWriter, Writers, Worker, User
<1>8. \A v \in Writers : WriterSound(v)'
  <2>1. op[w] # Idle
    BY DEF Denied
  <2>2. WriterSound(w)'
    BY <1>1, <1>4, <2>1 DEF WriterSound
  <2> QED
    BY <1>4, <2>2 DEF WriterSound
<1> QED
  BY <1>1, <1>6, <1>7, <1>8 DEF NothingMissed, Synchronised, Durable, AcknowledgedIsDurable

(* The acknowledgement. *)
LEMMA FinishFlushStep ==
  ASSUME IInv, NEW w \in Writers, FinishFlush(w)
  PROVE  IInv'
<1> USE DEF IInv
<1>1. UNCHANGED <<sram, writes, buffer, captureFailed, flushRequested, dirty, secondary,
                  version, path, phase, disk, stored, moves, calls, faults>>
  BY DEF FinishFlush, captured, bounds
<1>2. /\ op[w] \in Operations /\ op[w].version \in Nat /\ op[w].bytes = op[w].bytes
      /\ op[w].kind = "flush" /\ op[w].call \in BOOLEAN
  BY DEF FinishFlush, TypeOK, Operations
<1>3. op' = [op EXCEPT ![w] = Idle] /\ \A v \in Writers : v # w => op[v] = Idle
  BY DEF FinishFlush, OneWriter, Writers
<1>4. /\ \A v \in Writers : op'[v] = Idle
      /\ op' \in [Writers -> Operations \cup {Idle}]
  BY <1>3 DEF TypeOK
<1>5. acked < op[w].version /\ op[w].version <= version /\ op[w] # Idle
  BY <1>2 DEF WriterSound, FinishFlush
<1>6. OneWriter' /\ \A v \in Writers : WriterSound(v)'
  BY <1>4 DEF OneWriter, WriterSound, Writers, Worker, User
<1>7. NothingMissed'
  BY <1>1 DEF NothingMissed
<1>8. CASE StillPending(op[w]) /\ op[w].stage = "committed"
  <2>1. /\ acked' = version /\ ackPath' = path /\ path = op[w].path
        /\ timer' \in {timer, "none"} /\ version = op[w].version
        /\ op[w].path \in Paths /\ disk[op[w].path] = op[w].bytes
        /\ op[w].bytes = secondary
    BY <1>2, <1>5, <1>8 DEF FinishFlush, StillPending, WriterSound
  <2>2. ASSUME ~NeedsFlush' PROVE disk'[ackPath'] = sram'
    <3>1. secondary = buffer /\ ~captureFailed
      BY <1>1, <2>2 DEF NeedsFlush, Synchronised
    <3>2. buffer # Null
      BY <1>2, <1>5, <2>1, <3>1 DEF Synchronised, TypeOK
    <3> QED
      BY <1>1, <2>1, <3>1, <3>2 DEF NothingMissed
  <2>3. answer' = "saved" => ~NeedsFlush'
    <3>1. answer # "saved"
      BY <1>2, <1>5 DEF NeedsFlush, TypeOK
    <3>2. answer' = "saved" => ~captureFailed /\ ~flushRequested /\ version = acked'
      BY <3>1 DEF FinishFlush, Answer
    <3> QED
      BY <1>1, <3>2 DEF NeedsFlush
  <2>4. answer' \in {"none", "saved", "failed"}
    BY DEF FinishFlush, Answer, TypeOK
  <2>5. TypeOK'
    BY <1>1, <1>4, <2>1, <2>4 DEF TypeOK
  <2>6. Synchronised'
    BY <1>1, <2>1 DEF Synchronised, TypeOK
  <2> QED
    BY <1>6, <1>7, <2>1, <2>2, <2>3, <2>5, <2>6 DEF Durable, AcknowledgedIsDurable
<1>9. CASE ~(StillPending(op[w]) /\ op[w].stage = "committed")
  <2>1. UNCHANGED <<acked, ackPath>> /\ timer' \in {timer, "fresh"}
    BY <1>9 DEF FinishFlush
  <2>2. NeedsFlush /\ NeedsFlush'
    BY <1>1, <1>2, <1>5, <2>1 DEF NeedsFlush, TypeOK
  <2>3. answer' # "saved"
    <3>1. answer # "saved" /\ acked # version
      BY <1>2, <1>5, <2>2 DEF TypeOK
    <3> QED
      BY <2>1, <3>1 DEF FinishFlush, Answer
  <2>4. answer' \in {"none", "saved", "failed"}
    BY DEF FinishFlush, Answer, TypeOK
  <2>5. TypeOK'
    BY <1>1, <1>4, <2>1, <2>4 DEF TypeOK
  <2>6. Synchronised'
    BY <1>1, <2>1 DEF Synchronised
  <2> QED
    BY <1>6, <1>7, <2>1, <2>2, <2>3, <2>5, <2>6 DEF Durable, AcknowledgedIsDurable
<1> QED
  BY <1>8, <1>9

(* The end of a recovery copy acknowledges nothing. *)
LEMMA FinishCopyStep ==
  ASSUME IInv, NEW w \in Writers, FinishCopy(w)
  PROVE  IInv'
<1> USE DEF IInv
<1>1. /\ UNCHANGED <<sram, writes, buffer, captureFailed, flushRequested, dirty, secondary,
                     version, timer, acked, path, phase, disk, ackPath, stored, answer,
                     moves, calls, faults>>
      /\ NeedsFlush' = NeedsFlush
  BY DEF FinishCopy, captured, published, history, bounds, NeedsFlush
<1>2. /\ \A v \in Writers : op'[v] = Idle
      /\ op' \in [Writers -> Operations \cup {Idle}]
  BY DEF FinishCopy, OneWriter, TypeOK, Writers
<1>3. TypeOK'
  BY <1>1, <1>2 DEF TypeOK
<1>4. OneWriter' /\ \A v \in Writers : WriterSound(v)'
  BY <1>2 DEF OneWriter, WriterSound, Writers, Worker, User
<1> QED
  BY <1>1, <1>3, <1>4 DEF NothingMissed, Synchronised, Durable, AcknowledgedIsDurable

----
(* The theorems *)

(* Every step preserves the invariant. *)
LEMMA NextIInv == IInv /\ [Next]_vars => IInv'
<1> SUFFICES ASSUME IInv, [Next]_vars PROVE IInv'
  OBVIOUS
<1>1. ASSUME NEW len \in Lengths, NEW o \in Cells(len), NEW n \in 0 .. len,
             GuestWrite(len, o, n)
      PROVE  IInv'
  BY <1>1, GuestWriteStep
<1>2. CASE RetryCapture
  BY <1>2, RetryCaptureStep
<1>3. CASE CheckFlush
  BY <1>3, CheckFlushStep
<1>4. ASSUME NEW p \in Paths, SetPath(p) PROVE IInv'
  BY <1>4, SetPathStep
<1>5. CASE Elapse
  BY <1>5, ElapseStep
<1>6. CASE WorkerFlush \/ Flush \/ FlushSecondaryBuffer \/ LastFlush
  BY <1>6, FlushCallers DEF Flush, FlushSecondaryBuffer
<1>7. ASSUME NEW p \in Paths, SaveCopy(p) PROVE IInv'
  BY <1>7, SaveCopyStep
<1>8. CASE Close
  BY <1>8, CloseStep
<1>9. ASSUME NEW w \in Writers, Disk(w) PROVE IInv'
  BY <1>9, CommitStep, DeniedStep DEF Disk
<1>10. ASSUME NEW w \in Writers, Finish(w) PROVE IInv'
  BY <1>10, FinishFlushStep, FinishCopyStep DEF Finish
<1>11. CASE UNCHANGED vars
  <2>1. UNCHANGED <<sram, writes, buffer, captureFailed, flushRequested, dirty, secondary,
                    version, timer, acked, path, phase, disk, op, ackPath, stored, answer,
                    moves, calls, faults>>
    BY <1>11 DEF vars, captured, published, history, bounds
  <2>2. TypeOK'
    BY <2>1 DEF IInv, TypeOK
  <2> QED
    BY <2>1, <2>2, OutsideStep
<1> QED
  BY <1>1, <1>2, <1>3, <1>4, <1>5, <1>6, <1>7, <1>8, <1>9, <1>10, <1>11
     DEF Next, EmuThread, Caller

(* The invariant holds in every reachable state. *)
LEMMA Invariance == Spec => []IInv
  BY InitIInv, NextIInv, PTL DEF Spec

(* Every variable keeps its type. *)
THEOREM SaveTypes == Spec => []TypeOK
<1>1. IInv => TypeOK
  BY DEF IInv
<1> QED
  BY <1>1, Invariance, PTL

(* No byte the guest wrote is missing from an unfailed capture, and no      *)
(* difference between the two buffers lies outside the dirty interval,      *)
(* whatever sizes, offsets, wraps and failed allocations came before.       *)
THEOREM CaptureComplete == Spec => []NothingMissed
<1>1. IInv => NothingMissed
  BY DEF IInv
<1> QED
  BY <1>1, Invariance, PTL

(* When nothing is pending, the acknowledged file holds guest memory.       *)
THEOREM Acknowledged == Spec => []AcknowledgedIsDurable
<1>1. IInv => AcknowledgedIsDurable
  BY DEF IInv, Durable
<1> QED
  BY <1>1, Invariance, PTL

(* What Flush confirmed is in the file.                                     *)
THEOREM Confirmed == Spec => []ConfirmedIsDurable
<1>1. IInv => ConfirmedIsDurable
  <2> SUFFICES ASSUME IInv, answer = "saved", buffer # Null
               PROVE  ~NeedsFlush /\ disk[ackPath] = sram
    BY DEF ConfirmedIsDurable, IInv
  <2>1. ~NeedsFlush
    BY DEF IInv
  <2>2. secondary = buffer /\ version = acked /\ version # 0
    BY <2>1 DEF IInv, NeedsFlush, Synchronised
  <2>3. acked > 0
    BY <2>2 DEF IInv, TypeOK
  <2> QED
    BY <2>1, <2>3 DEF IInv, Durable, AcknowledgedIsDurable
<1> QED
  BY <1>1, Invariance, PTL

(* The clock of a publication that is not acknowledged yet never stops.     *)
THEOREM PendingScheduled == Spec => []PendingIsScheduled
<1>1. Init => PendingIsScheduled
  BY DEF Init, PendingIsScheduled
<1>2. IInv /\ PendingIsScheduled /\ [Next]_vars => PendingIsScheduled'
  <2> SUFFICES ASSUME IInv, PendingIsScheduled, [Next]_vars PROVE PendingIsScheduled'
    OBVIOUS
  <2> USE DEF PendingIsScheduled
  <2>1. ASSUME NEW len \in Lengths, NEW o, NEW n,
               Capture(len, o, n) \/ CaptureNoMemory(len), UNCHANGED acked
        PROVE  PendingIsScheduled'
    BY <2>1 DEF Capture, CaptureNoMemory, published
  <2>2. ASSUME Publish PROVE PendingIsScheduled'
    BY <2>2 DEF Publish
  <2>3. ASSUME NEW w, NEW publish, NEW debounce, NEW call, UNCHANGED acked,
               FlushFile(w, publish, debounce, call) \/ FlushNoMemory(publish, debounce, call)
        PROVE  PendingIsScheduled'
    BY <2>2, <2>3 DEF FlushFile, FlushNoMemory, Refused, published
  <2>4. CASE EmuThread
    BY <2>1, <2>2, <2>4 DEF EmuThread, GuestWrite, RetryCapture, CheckFlush, SetPath, published
  <2>5. CASE Elapse
    BY <2>5 DEF Elapse
  <2>6. CASE WorkerFlush
    BY <2>3, <2>6 DEF WorkerFlush
  <2>7. CASE Caller
    BY <2>3, <2>7 DEF Caller, Flush, FlushSecondaryBuffer, UserFlush, SaveCopy, Close,
       LastFlush, published
  <2>8. ASSUME NEW w \in Writers, Disk(w) \/ FinishCopy(w) PROVE PendingIsScheduled'
    BY <2>8 DEF Disk, Commit, Denied, FinishCopy, published
  <2>9. ASSUME NEW w \in Writers, FinishFlush(w) PROVE PendingIsScheduled'
    <3>1. CASE StillPending(op[w]) /\ op[w].stage = "committed"
      BY <2>9, <3>1 DEF FinishFlush, StillPending
    <3>2. CASE ~(StillPending(op[w]) /\ op[w].stage = "committed")
      BY <2>9, <3>2 DEF FinishFlush
    <3> QED
      BY <3>1, <3>2
  <2>10. CASE UNCHANGED vars
    BY <2>10 DEF vars, published
  <2> QED
    BY <2>4, <2>5, <2>6, <2>7, <2>8, <2>9, <2>10 DEF Next, Finish
<1> QED
  BY <1>1, <1>2, Invariance, PTL DEF Spec

(* No file holds a publication newer than the present one or than the one   *)
(* the holder of FileLock is about to write.                                *)
StoredOld ==
  \A p \in Paths :
    /\ stored[p] <= version
    /\ \A w \in Writers :
         op[w] # Idle /\ op[w].kind = "flush" => stored[p] <= op[w].version

(* Writers put publications into a file in the order they were made. *)
THEOREM WritesInOrder == Spec => FilesOnlyAdvance
<1>1. Init => StoredOld
  <2> SUFFICES ASSUME Init PROVE StoredOld
    OBVIOUS
  <2>1. version = 0
    BY DEF Init
  <2>2. \A p \in Paths : stored[p] = 0
    BY DEF Init
  <2>3. \A w \in Writers : op[w] = Idle
    BY DEF Init
  <2>4. 0 <= 0
    OBVIOUS
  <2> QED
    BY <2>1, <2>2, <2>3, <2>4, Zenon DEF StoredOld
<1>2. IInv /\ StoredOld /\ [Next]_vars =>
        StoredOld' /\ \A p \in Paths : stored'[p] >= stored[p]
  <2> SUFFICES ASSUME IInv, StoredOld, [Next]_vars
               PROVE  StoredOld' /\ \A p \in Paths : stored'[p] >= stored[p]
    OBVIOUS
  <2>1. /\ \A p \in Paths : stored[p] \in Nat
        /\ version \in Nat /\ op \in [Writers -> Operations \cup {Idle}]
        /\ \A w \in Writers : op[w] # Idle => op[w] \in Operations /\ op[w].version \in Nat
    BY DEF IInv, TypeOK, Operations
  <2> DEFINE Unwritten == /\ UNCHANGED stored /\ version' \in {version, version + 1}
                          /\ \A w \in Writers : op'[w] = Idle \/ op'[w] = op[w]
  <2>2. ASSUME Unwritten
        PROVE  StoredOld' /\ \A p \in Paths : stored'[p] >= stored[p]
    BY <2>1, <2>2 DEF StoredOld
  <2>3. ASSUME Publish \/ UNCHANGED published PROVE version' \in {version, version + 1}
    BY <2>3 DEF Publish, published
  <2>4. CASE EmuThread
    BY <2>2, <2>3, <2>4 DEF EmuThread, GuestWrite, RetryCapture, CheckFlush, SetPath,
       Capture, CaptureNoMemory, published, history
  <2>5. CASE Elapse \/ Close
    BY <2>2, <2>3, <2>5 DEF Elapse, Close, history, published
  <2>6. ASSUME NEW w \in Writers, NEW publish, NEW debounce, NEW call, UNCHANGED stored,
               FileLockFree,
               FlushFile(w, publish, debounce, call) \/ FlushNoMemory(publish, debounce, call)
        PROVE  StoredOld' /\ \A p \in Paths : stored'[p] >= stored[p]
    <3>1. version' \in {version, version + 1}
      BY <2>3, <2>6 DEF FlushFile, FlushNoMemory, Refused, published
    <3>2. CASE op' = op
      BY <2>2, <2>6, <3>1, <3>2
    <3>3. CASE op' # op
      <4>1. \A v \in Writers : op'[v] = Idle \/ op'[v].version = version'
        <5>1. op' = [op EXCEPT ![w] =
                [kind |-> "flush", path |-> path, bytes |-> secondary',
                 version |-> version', tries |-> 1, stage |-> "writing", call |-> call]]
          BY <2>6, <3>3 DEF FlushFile, FlushNoMemory, Refused
        <5>2. \A v \in Writers : op[v] = Idle
          BY <2>6 DEF FileLockFree
        <5> QED
          BY <2>1, <5>1, <5>2
      <4> QED
        BY <2>1, <2>6, <3>1, <4>1 DEF StoredOld
    <3> QED
      BY <3>2, <3>3
  <2>7. CASE WorkerFlush
    BY <2>6, <2>7 DEF WorkerFlush, Writers
  <2>8. CASE Flush \/ FlushSecondaryBuffer
    BY <2>6, <2>8 DEF Flush, FlushSecondaryBuffer, UserFlush, Writers
  <2>9. CASE LastFlush
    BY <2>6, <2>9 DEF LastFlush, Writers
  <2>10. ASSUME NEW p \in Paths, SaveCopy(p)
         PROVE  StoredOld' /\ \A q \in Paths : stored'[q] >= stored[q]
    <3>1. /\ UNCHANGED <<stored, version>>
          /\ \A w \in Writers : op'[w] = Idle \/ op'[w].kind = "copy"
      BY <2>1, <2>10 DEF SaveCopy, FileLockFree, history, published
    <3> QED
      BY <2>1, <3>1 DEF StoredOld
  <2>11. ASSUME NEW w \in Writers, Commit(w)
         PROVE  StoredOld' /\ \A p \in Paths : stored'[p] >= stored[p]
    <3>1. /\ op[w] # Idle /\ op[w] \in Operations /\ op[w].version \in Nat
          /\ \A v \in Writers : v # w => op[v] = Idle
          /\ op[w].kind = "flush" => op[w].version <= version
      BY <2>1, <2>11 DEF Commit, IInv, OneWriter, WriterSound, Writers
    <3>2. /\ op'[w] = [op[w] EXCEPT !.stage = "committed"] /\ version' = version
          /\ \A v \in Writers : v # w => op'[v] = Idle
      BY <2>1, <2>11, <3>1 DEF Commit, published
    <3>3. op'[w].kind = op[w].kind /\ op'[w].version = op[w].version
      BY <3>1, <3>2 DEF Operations
    <3>4. \A p \in Paths :
            \/ stored'[p] = stored[p]
            \/ op[w].kind = "flush" /\ stored'[p] = op[w].version
      BY <2>1, <2>11, <3>1 DEF Commit, Operations, IInv, TypeOK
    <3>5. op[w].kind = "copy" => \A p \in Paths : stored'[p] = stored[p]
      BY <2>11 DEF Commit
    <3> QED
      BY <2>1, <3>1, <3>2, <3>3, <3>4, <3>5 DEF StoredOld, Operations
  <2>12. ASSUME NEW w \in Writers, Denied(w)
         PROVE  StoredOld' /\ \A p \in Paths : stored'[p] >= stored[p]
    <3>1. /\ op[w] # Idle /\ op[w] \in Operations
          /\ UNCHANGED <<stored, version>>
          /\ \A v \in Writers : v # w => op'[v] = op[v]
      BY <2>1, <2>12 DEF Denied, history, published
    <3>2. op'[w].kind = op[w].kind /\ op'[w].version = op[w].version
      <4>1. CASE op' = [op EXCEPT ![w].stage = "denied"]
        BY <2>1, <3>1, <4>1 DEF Operations
      <4>2. CASE op' = [op EXCEPT ![w].tries = @ + 1]
        BY <2>1, <3>1, <4>2 DEF Operations
      <4> QED
        BY <2>12, <4>1, <4>2 DEF Denied
    <3> QED
      BY <2>1, <3>1, <3>2 DEF StoredOld
  <2>13. ASSUME NEW w \in Writers, Finish(w)
         PROVE  StoredOld' /\ \A p \in Paths : stored'[p] >= stored[p]
    BY <2>1, <2>2, <2>13 DEF Finish, FinishFlush, FinishCopy, history, published
  <2>14. CASE UNCHANGED vars
    BY <2>2, <2>3, <2>14 DEF vars, history, published
  <2> QED
    BY <2>4, <2>5, <2>7, <2>8, <2>9, <2>10, <2>11, <2>12, <2>13, <2>14
       DEF Next, Caller, Disk
<1>3. (\A p \in Paths : stored'[p] >= stored[p]) =>
        [\A p \in Paths : stored'[p] >= stored[p]]_vars
  OBVIOUS
<1> QED
  BY <1>1, <1>2, <1>3, Invariance, PTL DEF Spec, FilesOnlyAdvance
====
