---- MODULE SaveManager ----
(***************************************************************************)
(* The writer of one battery save (src/src/frontend/qt_sdl/SaveManager.cpp).*)
(* The emulation thread captures guest memory into Buffer, publishes Buffer *)
(* as a numbered SecondaryBuffer once per frame, and two kinds of writer -  *)
(* the manager's own thread, which waits for a quiet period, and a caller   *)
(* that wants the answer now - replace the file by a snapshot of it.  State *)
(* is read and changed under StateLock, one action per critical section; the*)
(* disk is written between two of them under FileLock alone.                *)
(*                                                                         *)
(* An image is a function from 0 .. length-1 to the number of the guest     *)
(* write each byte comes from; the empty function is the null buffer, whose *)
(* length is 0.  PublicationFailed only silences a log line: left out.      *)
(***************************************************************************)
EXTENDS Integers

CONSTANTS Paths,        \* file names
          NoPath,       \* the empty name
          InitialPaths, \* names a manager may be constructed with
          Lengths,      \* sizes of the guest's save memory
          Attempts,     \* RetryAttempts(): tries of one transiently denied write
          MaxWrites, MaxMoves, MaxCalls, MaxFaults  \* bounds of the instance

ASSUME PathAssumption == /\ NoPath \notin Paths
                         /\ InitialPaths \subseteq Paths \cup {NoPath}
ASSUME LengthAssumption == Lengths \subseteq Nat \ {0}
ASSUME AttemptsAssumption == Attempts \in Nat \ {0}
ASSUME BoundAssumption == /\ MaxWrites \in Nat /\ MaxMoves \in Nat
                          /\ MaxCalls \in Nat /\ MaxFaults \in Nat

VARIABLES
  sram, writes,               \* guest memory; guest writes so far
  buffer, captureFailed,      \* Buffer (and Length), CaptureFailed
  flushRequested, dirty,      \* FlushRequested; DirtyStart and DirtyEnd
  secondary, version, acked,  \* SecondaryBuffer, FlushVersion, PreviousFlushVersion
  timer,                      \* TimeAtLastFlushRequest: none, fresh (< 2 s), due
  path, phase,                \* Path; the manager's life, and Running
  disk,                       \* the contents of each file
  op,                         \* what each writer does while it holds FileLock
  ackPath, stored, answer,    \* history: Path at the last acknowledgement, version each
                              \* file holds, what Flush said of the present data
  moves, calls, faults        \* bounded occurrences

captured  == <<buffer, captureFailed>>
published == <<flushRequested, dirty, secondary, version, timer>>
history   == <<ackPath, stored, answer>>
bounds    == <<moves, calls, faults>>
vars == <<sram, writes, captured, published, acked, path, phase, disk, op,
          history, bounds>>

Null  == [i \in {} |-> 0]
Clean == [from |-> 0, to |-> 0]
Idle  == [kind |-> "idle"]

Worker  == "worker"
User    == "user"
Writers == {Worker, User}

Cells(len) == 0 .. (len - 1)
Images     == UNION {[Cells(len) -> 0 .. MaxWrites] : len \in Lengths \cup {0}}

Operations == [kind : {"flush", "copy"}, path : Paths \cup {NoPath},
               bytes : Images, version : Nat, tries : 1 .. Attempts,
               stage : {"writing", "committed", "denied"}, call : BOOLEAN]

NeedsFlush == captureFailed \/ flushRequested \/ version # acked

Init ==
  /\ \E len \in Lengths : sram = [i \in Cells(len) |-> 0]
  /\ writes = 0
  /\ buffer = Null /\ captureFailed = FALSE
  /\ flushRequested = FALSE /\ dirty = Clean
  /\ secondary = Null /\ version = 0 /\ acked = 0 /\ timer = "none"
  /\ path \in InitialPaths
  /\ phase = IF path = NoPath THEN "idle" ELSE "running"
  /\ disk = [p \in Paths |-> Null]
  /\ op = [w \in Writers |-> Idle]
  /\ ackPath = NoPath /\ stored = [p \in Paths |-> 0] /\ answer = "none"
  /\ moves = 0 /\ calls = 0 /\ faults = 0

Alive == phase \in {"idle", "running"}

----
(* Capture: the emulation thread *)

(* The cells a guest write of n bytes at o changes; past the end it wraps. *)
Touched(len, o, n) ==
  {i \in Cells(len) : (o <= i /\ i < o + n) \/ i + len < o + n}

(* The bytes of a request that fits both buffers. *)
Patched(len, o, n) ==
  [i \in Cells(len) |-> IF i \in Touched(len, o, n) THEN sram'[i] ELSE buffer[i]]

(* Broken: a write that wraps widens the interval past the end. *)
WidenedUnwrapped(len, o, n) ==
  IF n = 0 THEN [from |-> 0, to |-> len]
  ELSE IF dirty.to = 0 THEN [from |-> o, to |-> o + n]
  ELSE [from |-> IF o < dirty.from THEN o ELSE dirty.from,
        to   |-> IF o + n > dirty.to THEN o + n ELSE dirty.to]

Widened(len, o, n) ==
  IF n = 0 \/ n > len - o THEN [from |-> 0, to |-> len]
  ELSE IF dirty.to = 0 THEN [from |-> o, to |-> o + n]
  ELSE [from |-> IF o < dirty.from THEN o ELSE dirty.from,
        to   |-> IF o + n > dirty.to THEN o + n ELSE dirty.to]

(* Broken: the missed capture is made up for, and stays marked. *)
CaptureStillFailed(len, o, n) ==
  /\ buffer' = sram' /\ dirty' = [from |-> 0, to |-> len]
  /\ UNCHANGED captureFailed
  /\ flushRequested' = TRUE
  /\ UNCHANGED <<secondary, version, timer>>

(* RequestFlush once the memory it needs is there: a changed length, or a   *)
(* capture missed before, takes the whole of guest memory.                  *)
Capture(len, o, n) ==
  /\ IF DOMAIN buffer # Cells(len) \/ captureFailed
     THEN /\ buffer' = sram'
          /\ dirty' = [from |-> 0, to |-> len]
     ELSE /\ buffer' = Patched(len, o, n)
          /\ dirty' = Widened(len, o, n)
  /\ captureFailed' = FALSE
  /\ flushRequested' = TRUE
  /\ UNCHANGED <<secondary, version, timer>>

(* RequestFlush when the buffer for a changed length cannot be allocated. *)
CaptureNoMemory(len) ==
  /\ DOMAIN buffer # Cells(len)
  /\ faults < MaxFaults /\ faults' = faults + 1
  /\ captureFailed' = TRUE
  /\ UNCHANGED <<buffer, published>>

(* The guest writes n bytes at o of a save memory of len bytes (a memory of *)
(* another length is new altogether), and the cartridge requests a flush.   *)
GuestWrite(len, o, n) ==
  /\ Alive /\ writes < MaxWrites /\ writes' = writes + 1
  /\ sram' = [i \in Cells(len) |->
                IF DOMAIN sram # Cells(len) \/ i \in Touched(len, o, n)
                THEN writes + 1 ELSE sram[i]]
  /\ \/ Capture(len, o, n) /\ UNCHANGED faults
     \/ CaptureNoMemory(len)
  /\ answer' = "none"
  /\ UNCHANGED <<acked, path, phase, disk, op, ackPath, stored, moves, calls>>

(* retrySaveCapture: the producer offers the whole of guest memory again. *)
RetryCapture ==
  /\ Alive /\ captureFailed
  /\ UNCHANGED sram
  /\ \E len \in Lengths :
       /\ DOMAIN sram = Cells(len)
       /\ \/ Capture(len, 0, len) /\ UNCHANGED faults
          \/ CaptureNoMemory(len)
  /\ UNCHANGED <<writes, acked, path, phase, disk, op, history, moves, calls>>

----
(* Publication *)

Published ==
  IF DOMAIN secondary # DOMAIN buffer \/ dirty.to = 0 THEN buffer
  ELSE [i \in DOMAIN buffer |->
          IF dirty.from <= i /\ i < dirty.to THEN buffer[i] ELSE secondary[i]]

(* Broken: the debounce clock is left to the writers. *)
PublishUntimed ==
  /\ secondary' = Published
  /\ dirty' = Clean /\ flushRequested' = FALSE
  /\ version' = version + 1 /\ UNCHANGED timer

(* CheckFlushLocked; only RequestFlush sets FlushRequested, and it leaves a *)
(* buffer behind, so the test for a null Buffer never holds.                *)
Publish ==
  /\ secondary' = Published
  /\ dirty' = Clean /\ flushRequested' = FALSE
  /\ version' = version + 1 /\ timer' = "fresh"

(* CheckFlush, once per frame.  Without memory it leaves all as it was. *)
CheckFlush ==
  /\ Alive /\ ~captureFailed /\ flushRequested
  /\ Publish
  /\ UNCHANGED <<sram, writes, captured, acked, path, phase, disk, op, history, bounds>>

(* The quiet period passes. *)
Elapse ==
  /\ timer = "fresh" /\ timer' = "due"
  /\ UNCHANGED <<sram, writes, captured, flushRequested, dirty, secondary, version,
                 acked, path, phase, disk, op, history, bounds>>

SetPath(p) ==
  /\ Alive /\ p # path
  /\ moves < MaxMoves /\ moves' = moves + 1
  /\ path' = p /\ answer' = "none"
  /\ UNCHANGED <<sram, writes, captured, published, acked, phase, disk, op,
                 ackPath, stored, calls, faults>>

----
(* Writers *)

(* Broken: a caller does not wait for the worker's write. *)
FileLockFreeForUser == op[User] = Idle

FileLockFree == \A w \in Writers : op[w] = Idle

(* What a caller of Flush is told; the worker's and FlushSecondaryBuffer's  *)
(* results are dropped.                                                     *)
Answer(call, yes) ==
  answer' = IF ~call THEN answer ELSE IF yes THEN "saved" ELSE "failed"

Refused(call) ==
  /\ captureFailed
  /\ Answer(call, FALSE)
  /\ UNCHANGED <<published, op, faults>>

(* Broken: the versions are compared before the publication. *)
NothingPublished(debounce) ==
  (debounce /\ timer' # "due") \/ secondary = Null \/ version = acked

(* Not due yet, or nothing that was not already committed. *)
NothingToWrite(debounce) ==
  (debounce /\ timer' # "due") \/ secondary' = Null \/ version' = acked

(* FlushFile up to the release of StateLock. *)
FlushFile(w, publish, debounce, call) ==
  \/ Refused(call)
  \/ /\ ~captureFailed
     /\ IF publish /\ flushRequested THEN Publish ELSE UNCHANGED published
     /\ IF NothingToWrite(debounce)
        THEN Answer(call, TRUE) /\ UNCHANGED op
        ELSE /\ op' = [op EXCEPT ![w] =
                  [kind |-> "flush", path |-> path, bytes |-> secondary',
                   version |-> version', tries |-> 1, stage |-> "writing",
                   call |-> call]]
             /\ answer' = IF call THEN "none" ELSE answer
     /\ UNCHANGED faults

(* FlushFile out of memory: for the publication of a changed length, or for *)
(* the snapshot, after it has published.                                    *)
FlushNoMemory(publish, debounce, call) ==
  /\ faults < MaxFaults /\ faults' = faults + 1
  /\ ~captureFailed
  /\ \/ publish /\ flushRequested /\ Publish
     \/ /\ IF publish /\ flushRequested
           THEN DOMAIN secondary # DOMAIN buffer
           ELSE (debounce => timer = "due") /\ secondary # Null /\ version # acked
        /\ timer' = "fresh"
        /\ UNCHANGED <<flushRequested, dirty, secondary, version>>
  /\ Answer(call, FALSE)
  /\ UNCHANGED op

(* The cycle of the manager's own thread. *)
WorkerFlush ==
  /\ phase = "running" /\ FileLockFree
  /\ FlushFile(Worker, FALSE, TRUE, FALSE) \/ FlushNoMemory(FALSE, TRUE, FALSE)
  /\ UNCHANGED <<sram, writes, captured, acked, path, phase, disk, ackPath, stored,
                 moves, calls>>

UserFlush(publish) ==
  /\ Alive /\ FileLockFree
  /\ calls < MaxCalls /\ calls' = calls + 1
  /\ FlushFile(User, publish, FALSE, publish) \/ FlushNoMemory(publish, FALSE, publish)
  /\ UNCHANGED <<sram, writes, captured, acked, path, phase, disk, ackPath, stored, moves>>

(* Flush, and FlushSecondaryBuffer without a destination. *)
Flush == UserFlush(TRUE)
FlushSecondaryBuffer == UserFlush(FALSE)

(* SaveCopy: the newest bytes to any file but the save's own. *)
SaveCopy(p) ==
  /\ Alive /\ FileLockFree
  /\ calls < MaxCalls /\ calls' = calls + 1
  /\ ~captureFailed /\ buffer # Null /\ p # path
  /\ op' = [op EXCEPT ![User] =
       [kind |-> "copy", path |-> p, bytes |-> buffer, version |-> version,
        tries |-> 1, stage |-> "writing", call |-> FALSE]]
  /\ UNCHANGED <<sram, writes, captured, published, acked, path, phase, disk, history,
                 moves, faults>>

(* One attempt succeeds: the replacement of the file is atomic. *)
Commit(w) ==
  /\ op[w] # Idle /\ op[w].stage = "writing" /\ op[w].path # NoPath
  /\ disk' = [disk EXCEPT ![op[w].path] = op[w].bytes]
  /\ stored' = IF op[w].kind = "copy" THEN stored
               ELSE [stored EXCEPT ![op[w].path] = op[w].version]
  /\ op' = [op EXCEPT ![w].stage = "committed"]
  /\ UNCHANGED <<sram, writes, captured, published, acked, path, phase, ackPath, answer, bounds>>

(* One attempt fails, transiently with tries left or for good; the file is  *)
(* untouched either way.                                                    *)
Denied(w) ==
  /\ op[w] # Idle /\ op[w].stage = "writing"
  /\ IF op[w].path = NoPath THEN UNCHANGED faults
     ELSE faults < MaxFaults /\ faults' = faults + 1
  /\ \/ op' = [op EXCEPT ![w].stage = "denied"]
     \/ op[w].tries < Attempts /\ op' = [op EXCEPT ![w].tries = @ + 1]
  /\ UNCHANGED <<sram, writes, captured, published, acked, path, phase, disk, history,
                 moves, calls>>

(* Broken: a relocation during the write goes unnoticed. *)
SameVersion(o) == version = o.version

(* The bytes written are still the ones that are pending for this file. *)
StillPending(o) == path = o.path /\ version = o.version

(* FlushFile after the write, under StateLock again. *)
FinishFlush(w) ==
  /\ op[w] # Idle /\ op[w].kind = "flush" /\ op[w].stage # "writing"
  /\ LET o == op[w]
         committed == o.stage = "committed"
     IN
     /\ IF StillPending(o) /\ committed
        THEN /\ acked' = o.version /\ ackPath' = path
             /\ timer' = IF flushRequested \/ captureFailed THEN timer ELSE "none"
        ELSE /\ UNCHANGED <<acked, ackPath>>
             /\ timer' = IF StillPending(o) THEN "fresh" ELSE timer
     /\ Answer(o.call, committed /\ ~captureFailed /\ ~flushRequested /\ version = acked')
  /\ op' = [op EXCEPT ![w] = Idle]
  /\ UNCHANGED <<sram, writes, captured, flushRequested, dirty, secondary, version,
                 path, phase, disk, stored, bounds>>

FinishCopy(w) ==
  /\ op[w] # Idle /\ op[w].kind = "copy" /\ op[w].stage # "writing"
  /\ op' = [op EXCEPT ![w] = Idle]
  /\ UNCHANGED <<sram, writes, captured, published, acked, path, phase, disk, history, bounds>>

(* The destructor stops the worker, waits for it, and flushes once.  A      *)
(* manager that never had a worker (constructed without a path) is dropped. *)
Close ==
  /\ Alive /\ op[User] = Idle
  /\ phase' = IF phase = "running" THEN "stopping" ELSE "closed"
  /\ UNCHANGED <<sram, writes, captured, published, acked, path, disk, op, history, bounds>>

LastFlush ==
  /\ phase = "stopping" /\ FileLockFree
  /\ phase' = "closed"
  /\ FlushFile(User, TRUE, FALSE, TRUE) \/ FlushNoMemory(TRUE, FALSE, TRUE)
  /\ UNCHANGED <<sram, writes, captured, acked, path, disk, ackPath, stored, moves, calls>>

EmuThread ==
  \/ \E len \in Lengths : \E o \in Cells(len), n \in 0 .. len : GuestWrite(len, o, n)
  \/ RetryCapture
  \/ CheckFlush
  \/ \E p \in Paths : SetPath(p)

Caller ==
  \/ Flush
  \/ FlushSecondaryBuffer
  \/ \E p \in Paths : SaveCopy(p)
  \/ Close
  \/ LastFlush

Disk(w) == Commit(w) \/ Denied(w)
Finish(w) == FinishFlush(w) \/ FinishCopy(w)

Next ==
  \/ EmuThread
  \/ Elapse
  \/ WorkerFlush
  \/ Caller
  \/ \E w \in Writers : Disk(w) \/ Finish(w)

Spec == Init /\ [][Next]_vars

(* Every frame retries a missed capture and publishes; the worker wakes     *)
(* every 100 ms; a write and what follows it, the quiet period and a        *)
(* destructor once begun take their time but end.                           *)
Fairness ==
  /\ WF_vars(RetryCapture) /\ WF_vars(CheckFlush)
  /\ WF_vars(Elapse) /\ WF_vars(WorkerFlush) /\ WF_vars(LastFlush)
  /\ \A w \in Writers : WF_vars(Disk(w)) /\ WF_vars(Finish(w))

FairSpec == Spec /\ Fairness

----
(* Properties *)

(* Each variable keeps its shape; dirty intervals lie inside the buffer. *)
TypeOK ==
  /\ sram \in Images \ {Null} /\ writes \in 0 .. MaxWrites
  /\ buffer \in Images /\ secondary \in Images
  /\ captureFailed \in BOOLEAN /\ flushRequested \in BOOLEAN
  /\ dirty \in [from : Nat, to : Nat]
  /\ version \in Nat /\ acked \in Nat /\ timer \in {"none", "fresh", "due"}
  /\ path \in Paths \cup {NoPath} /\ ackPath \in Paths \cup {NoPath}
  /\ phase \in {"idle", "running", "stopping", "closed"}
  /\ disk \in [Paths -> Images] /\ stored \in [Paths -> Nat]
  /\ op \in [Writers -> Operations \cup {Idle}]
  /\ answer \in {"none", "saved", "failed"}
  /\ moves \in Nat /\ calls \in Nat /\ faults \in Nat

(* Nothing the guest wrote is missing from the captured bytes once the      *)
(* capture is not marked failed, whatever allocations failed before         *)
(* (RequestFlush), and the last publication differs from them only inside   *)
(* the dirty interval (CheckFlushLocked copies no more than that).          *)
NothingMissed ==
  /\ ~captureFailed /\ buffer # Null => buffer = sram
  /\ DOMAIN secondary = DOMAIN buffer =>
       \A i \in DOMAIN buffer :
         i < dirty.from \/ i >= dirty.to => secondary[i] = buffer[i]

(* When NeedsFlush says nothing is pending, the file of the last            *)
(* acknowledged write holds guest memory byte for byte: an acknowledgement  *)
(* never covers a write, a publication or a relocation that happened while  *)
(* the disk was busy.                                                       *)
AcknowledgedIsDurable == acked > 0 /\ ~NeedsFlush => disk[ackPath] = sram

(* What Flush answered with true stays true until the guest writes or the   *)
(* save moves: it never confirms bytes a failed capture or an unpublished   *)
(* request still holds back.                                                *)
ConfirmedIsDurable ==
  answer = "saved" => ~NeedsFlush /\ (buffer = Null \/ disk[ackPath] = sram)

(* A publication not yet acknowledged always has a running debounce clock,  *)
(* without which the worker would skip it for ever.                         *)
PendingIsScheduled == version # acked => timer # "none"

(* A slow writer never puts an older publication over a newer one. *)
FilesOnlyAdvance == [][\A p \in Paths : stored'[p] >= stored[p]]_vars

(* A write the guest made reaches its file, if failures stop and the        *)
(* manager lives on.  One made with no path has no worker.                  *)
EventuallySaved ==
  (NeedsFlush /\ phase = "running") ~> (~NeedsFlush \/ phase # "running")
====
