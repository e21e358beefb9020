---- MODULE Scheduler ----
(***************************************************************************)
(* The time base of the emulated console: the event queue of NDS.cpp and   *)
(* RunFrame, which advances the two CPUs in slices, dispatches the events  *)
(* a slice has reached, and puts the console to sleep.                     *)
(*                                                                         *)
(* Times are bus cycles; the ARM9's are rounded down to them, as RunFrame  *)
(* does before it hands them on.  What an instruction, a DMA or a device   *)
(* does is kept only as far as it touches the queue, the halt state, sleep *)
(* or power; whether a halted CPU is interrupted is left open.  Reschedule *)
(* is kept where a CPU is executing: elsewhere both targets are recomputed *)
(* before they are read.  Writes to VCOUNT and the display FIFO's event    *)
(* are left out.                                                           *)
(***************************************************************************)
EXTENDS Integers

CONSTANTS EventMax, LCD, SPU, RTC,  \* number of slots; three named slots
          Devices,        \* slots that CPU accesses schedule and cancel
          PoweredAsleep,  \* the devices whose events run in sleep mode
          Period,         \* of the SPU and RTC events
          HBlankCycles, ScanlineCycles, Lines,  \* the two halves of a line
          MaxIterationCycles, IterationCycleMargin,  \* kMax..., k...Margin
          MaxInstruction, \* cycles of the longest instruction or DMA unit
          Delays,         \* of device events
          SleepFrame,     \* cycles of a frame in sleep mode (560190)
          Never,          \* UINT64_MAX: no event is scheduled
          Horizon         \* bound: no slice or sleep pass begins from here on

Slots == 0 .. EventMax - 1

ASSUME SlotAssumption ==
  /\ EventMax \in Nat
  /\ {LCD, SPU, RTC} \subseteq Slots /\ Devices \subseteq Slots \ {LCD, SPU, RTC}
  /\ LCD # SPU /\ LCD # RTC /\ SPU # RTC
  /\ PoweredAsleep \subseteq Devices
ASSUME CycleAssumption ==
  /\ MaxIterationCycles \in Nat \ {0} /\ IterationCycleMargin \in Nat
  /\ MaxInstruction \in Nat \ {0} /\ SleepFrame \in Nat \ {0}
  /\ Delays \subseteq Nat \ {0} /\ Lines \in Nat \ {0} /\ Horizon \in Nat
ASSUME NeverAssumption == Never \notin Int

\* A periodic event is never overtaken by its next deadline.
ASSUME PeriodAssumption ==
  /\ Period \in [{SPU, RTC} -> Nat] /\ HBlankCycles \in Nat /\ ScanlineCycles \in Nat
  /\ \A n \in {Period[SPU], Period[RTC], HBlankCycles, ScanlineCycles} :
       n >= MaxInstruction

\* How far past the beginning of a slice the ARM9 can be when it ends.
SliceLimit == MaxIterationCycles + IterationCycleMargin + MaxInstruction

VARIABLES
  queue,            \* SchedListMask, the slots' Timestamp, EarliestEventTimestamp
  sys, arm9, arm7,  \* SysTimestamp, ARM9Timestamp, ARM7Timestamp
  target9, target7, \* ARM9Target, ARM7Target
  halted9, halted7, \* Halted = 1
  sleeping, wakeup, \* CPUStop_Sleep, CPUStop_Wakeup
  running, frameDone, \* Running; TotalScanlines # 0
  frameTarget,      \* end of a frame spent asleep
  line, stage,      \* parameter and function of the LCD event
  at, todo, pos,    \* control point; RunSystem's snapshot of the mask, its slot
  raced, late       \* history: a frame lost its LCD event; the events that the ARM7
                    \* has scheduled in this slice

times   == <<sys, arm9, arm7>>
targets == <<target9, target7>>
halts   == <<halted9, halted7>>
mode    == <<sleeping, wakeup, raced, running>>
lcd     == <<line, stage>>
frame   == <<frameDone, frameTarget>>
walk    == <<todo, pos>>
vars == <<queue, times, targets, halts, mode, lcd, frame, at, walk, late>>

-----------------------------------------------------------------------------
\* The event queue.

\* Bug: at the deadline, RunSystem still returns early.
UpTo(t, deadline) == deadline = Never \/ t <= deadline

Before(t, deadline) == deadline = Never \/ t < deadline

Sooner(t, deadline) == IF Before(t, deadline) THEN t ELSE deadline

\* The deadline RefreshEarliestEvent computes.
Earliest(mask, ts) ==
  LET deadlines == {ts[i] : i \in mask}
  IN  IF mask = {} THEN Never
      ELSE CHOOSE t \in deadlines : \A u \in deadlines : t <= u

Refreshed(q) == [q EXCEPT !.earliest = Earliest(q.mask, q.ts)]

Scheduled(q, i, t) ==
  IF i \in q.mask THEN q
  ELSE [mask |-> q.mask \cup {i}, ts |-> [q.ts EXCEPT ![i] = t],
        earliest |-> Sooner(t, q.earliest)]

\* Bug: CancelEvent leaves the cached deadline alone.
CancelledUncached(q, i) == [q EXCEPT !.mask = @ \ {i}]

Cancelled(q, i) ==
  LET rest == [q EXCEPT !.mask = @ \ {i}]
  IN  IF i \in q.mask /\ q.ts[i] = q.earliest THEN Refreshed(rest) ELSE rest

\* RunSystem takes an event out of the mask before it calls it.
Taken(q, i) == [q EXCEPT !.mask = @ \ {i}]

\* A periodic event counts from its own deadline, not from the time it ran.
Again(q, i, cycles) == Scheduled(q, i, q.ts[i] + cycles)

NextTarget ==
  LET max == sys + MaxIterationCycles
  IN  IF queue.earliest # Never /\ queue.earliest < max + IterationCycleMargin
      THEN queue.earliest ELSE max

\* What RunSystemSleep looks for, the SPU's deadline included.
NextTargetSleep ==
  Earliest(queue.mask \cap (PoweredAsleep \cup {SPU, RTC}), queue.ts)

-----------------------------------------------------------------------------
\* What an instruction does to the queue: nothing, or a register write that
\* cancels, starts or restarts the event of one device.

Untouched(q)   == [queue |-> q, limit |-> Never]
Cancel(q, i)   == [queue |-> Cancelled(q, i), limit |-> Never]
Start(q, i, t) == [queue |-> Scheduled(q, i, t),
                   limit |-> IF i \in q.mask THEN Never ELSE t]

Accesses(q, now) ==
  {Untouched(q)} \cup {Cancel(q, i) : i \in Devices}
  \cup {Start(q, i, now + d) : i \in Devices, d \in Delays}
  \cup {Start(Cancelled(q, i), i, now + d) : i \in Devices, d \in Delays}

\* SetIRQ(1, irq): an interrupt the ARM7 has enabled ends sleep mode.  A frame
\* whose slices are still running does not expect that.
Quiet == UNCHANGED <<sleeping, wakeup, raced>>
Wakes == /\ sleeping /\ sleeping' = FALSE /\ wakeup' = TRUE
         /\ raced' = (raced \/ at \in {"arm7", "events"})
MayInterrupt == Quiet \/ Wakes

Init ==
  /\ queue = [mask |-> {SPU, RTC},
              ts |-> [i \in Slots |-> IF i \in {SPU, RTC} THEN Period[i] ELSE 0],
              earliest |-> Sooner(Period[SPU], Period[RTC])]
  /\ sys = 0 /\ arm9 = 0 /\ arm7 = 0 /\ target9 = 0 /\ target7 = 0
  /\ halted9 = FALSE /\ halted7 = FALSE /\ sleeping = FALSE /\ wakeup = FALSE
  /\ running = TRUE /\ frameDone = TRUE /\ frameTarget = 0
  /\ line = 0 /\ stage = "finish"
  /\ at = "frontend" /\ todo = {} /\ pos = 0 /\ late = {} /\ raced = FALSE

-----------------------------------------------------------------------------
\* RunFrame, up to its first slice, and the frontend between two frames.

RunFrame ==
  /\ at = "frontend" /\ running
  /\ frameDone' = FALSE /\ at' = "frame"
  /\ UNCHANGED <<queue, times, targets, halts, mode, frameTarget, lcd, walk, late>>

\* SetKeyMask and SetLidClosed, and removal of a device.
InputIRQ ==
  /\ at = "frontend" /\ running /\ Wakes
  /\ UNCHANGED <<queue, times, targets, halts, running, frame, lcd, at, walk, late>>

Eject(i) ==
  /\ at = "frontend" /\ running /\ i \in queue.mask
  /\ queue' = Cancelled(queue, i)
  /\ UNCHANGED <<times, targets, halts, mode, frame, lcd, at, walk, late>>

\* Bug: the wakeup flag outlives the frame it resumed.
StartFrameStillWaking ==
  /\ at = "frame" /\ ~sleeping
  /\ IF wakeup THEN UNCHANGED <<queue, lcd>>
     ELSE /\ queue' = Again(queue, LCD, HBlankCycles)
          /\ IF LCD \in queue.mask THEN UNCHANGED lcd
             ELSE line' = 0 /\ stage' = "hblank"
  /\ at' = "slice"
  /\ UNCHANGED <<times, targets, halts, mode, frame, walk, late>>

\* GPU.StartFrame, unless the frame was interrupted by sleep mode.
StartFrame ==
  /\ at = "frame" /\ ~sleeping
  /\ IF wakeup THEN UNCHANGED <<queue, lcd>>
     ELSE /\ queue' = Again(queue, LCD, HBlankCycles)
          /\ IF LCD \in queue.mask THEN UNCHANGED lcd
             ELSE line' = 0 /\ stage' = "hblank"
  /\ wakeup' = FALSE /\ at' = "slice"
  /\ UNCHANGED <<times, targets, halts, sleeping, running, frame, walk, raced, late>>

\* The ARM7 follows to where the ARM9 stops: RunFrame's local target is arm9
\* until the next slice.
ARM9Stops(t) == arm9' = t /\ target7' = t /\ at' = "arm7"

\* The head of the loop over slices.
BeginSlice ==
  /\ at = "slice" /\ sys < Horizon
  /\ target9' = NextTarget /\ at' = "arm9"
  /\ UNCHANGED <<queue, times, target7, halts, mode, frame, lcd, walk, late>>

\* While the geometry FIFO is full the ARM9 waits for it, up to the target.
GXStallSlice(c) ==
  /\ at = "slice" /\ sys < Horizon
  /\ target9' = NextTarget /\ ARM9Stops(Sooner(arm9 + c, NextTarget))
  /\ UNCHANGED <<queue, sys, arm7, halts, mode, frame, lcd, walk, late>>

-----------------------------------------------------------------------------
\* ARMv5::Execute, or what runs in its place.

Instruction9(c) ==
  /\ at = "arm9" /\ ~halted9 /\ arm9 < target9
  /\ \E a \in Accesses(queue, arm9) :
       queue' = a.queue /\ target9' = Sooner(target9, a.limit)
  /\ arm9' = arm9 + c
  /\ UNCHANGED <<sys, arm7, target7, halts, mode, frame, lcd, at, walk, late>>

\* The halt instruction skips what is left of the slice.
Halt9 ==
  /\ at = "arm9" /\ ~halted9 /\ arm9 < target9
  /\ ARM9Stops(target9) /\ halted9' = TRUE
  /\ UNCHANGED <<queue, sys, arm7, target9, halted7, mode, frame, lcd, walk, late>>

\* A halted ARM9 is at its target, wherever that is.
Halted9 ==
  /\ at = "arm9" /\ halted9
  /\ ARM9Stops(target9)
  /\ UNCHANGED <<queue, sys, arm7, target9, halts, mode, frame, lcd, walk, late>>

Interrupted9 ==
  /\ at = "arm9" /\ halted9 /\ halted9' = FALSE
  /\ UNCHANGED <<queue, times, targets, halted7, mode, frame, lcd, at, walk, late>>

\* DMA, which may stop anywhere up to one unit past the target, or an
\* instruction that starts one.
Transfer9(c) ==
  /\ at = "arm9" /\ arm9 < target9 /\ arm9 + c < target9 + MaxInstruction
  /\ ARM9Stops(arm9 + c)
  /\ UNCHANGED <<queue, sys, arm7, target9, halts, mode, frame, lcd, walk, late>>

Done9 ==
  /\ at = "arm9" /\ ~halted9 /\ arm9 >= target9
  /\ ARM9Stops(arm9)
  /\ UNCHANGED <<queue, sys, arm7, target9, halts, mode, frame, lcd, walk, late>>
-----------------------------------------------------------------------------
\* ARMv4::Execute, again and again until the ARM7 has reached the ARM9.

Instruction7(c) ==
  /\ at = "arm7" /\ ~halted7 /\ arm7 < target7
  /\ \E a \in Accesses(queue, arm7) :
       /\ queue' = a.queue /\ target7' = Sooner(target7, a.limit)
       /\ late' = late \cup {i \in a.queue.mask :
                               i \notin queue.mask \/ a.queue.ts[i] # queue.ts[i]}
  /\ arm7' = arm7 + c
  /\ UNCHANGED <<sys, arm9, target9, halts, mode, lcd, frame, at, walk>>

\* HALTCNT = 0x80.
Halt7 ==
  /\ at = "arm7" /\ ~halted7 /\ arm7 < target7
  /\ arm7' = target7 /\ halted7' = TRUE
  /\ UNCHANGED <<queue, sys, arm9, targets, halted9, mode, lcd, frame, at, walk, late>>

\* HALTCNT = 0xC0: the ARM7 leaves its loop once, uncharged, and goes on.
EnterSleepMode ==
  /\ at = "arm7" /\ ~halted7 /\ arm7 < target7 /\ ~sleeping
  /\ sleeping' = TRUE /\ target7' = arm9
  /\ UNCHANGED <<queue, times, target9, halts, wakeup, raced, running, lcd, frame,
                 at, walk, late>>

\* The power management device's power-off bit.
Stop ==
  /\ at = "arm7" /\ ~halted7 /\ arm7 < target7 /\ running
  /\ running' = FALSE
  /\ UNCHANGED <<queue, times, targets, halts, sleeping, wakeup, raced, lcd, frame,
                 at, walk, late>>

Halted7 ==
  /\ at = "arm7" /\ halted7 /\ arm7 < target7
  /\ arm7' = target7
  /\ UNCHANGED <<queue, sys, arm9, targets, halts, mode, lcd, frame, at, walk, late>>

Interrupted7 ==
  /\ at = "arm7" /\ halted7 /\ arm7 < target7 /\ halted7' = FALSE
  /\ UNCHANGED <<queue, times, targets, halted9, mode, lcd, frame, at, walk, late>>

\* DMA, or an instruction that starts one: the loop begins anew.
Transfer7(c) ==
  /\ at = "arm7" /\ arm7 < target7 /\ arm7 + c < target7 + MaxInstruction
  /\ arm7' = arm7 + c /\ target7' = arm9
  /\ UNCHANGED <<queue, sys, arm9, target9, halts, mode, lcd, frame, at, walk, late>>

\* An instruction shortened the run by scheduling an event.
ExecuteAgain7 ==
  /\ at = "arm7" /\ arm7 >= target7 /\ arm7 < arm9
  /\ target7' = arm9
  /\ UNCHANGED <<queue, times, target9, halts, mode, lcd, frame, at, walk, late>>

\* RunTimers(1), after each run of the ARM7.
TimerIRQ7 ==
  /\ at = "arm7" /\ Wakes
  /\ UNCHANGED <<queue, times, targets, halts, running, lcd, frame, at, walk, late>>

-----------------------------------------------------------------------------
\* RunSystem: a snapshot of the mask, then one call per slot in slot order.

EndOfSlice(asleep, done) ==
  IF ~running \/ done THEN "frontend" ELSE IF asleep THEN "frame" ELSE "slice"

RunSystem ==
  /\ at = "arm7" /\ arm7 >= arm9
  /\ sys' = arm9
  /\ IF Before(arm9, queue.earliest)
     THEN at' = EndOfSlice(sleeping, frameDone) /\ late' = {} /\ UNCHANGED walk
     ELSE at' = "events" /\ todo' = queue.mask /\ pos' = 0 /\ UNCHANGED late
  /\ UNCHANGED <<queue, arm9, arm7, targets, halts, mode, lcd, frame>>

\* Bug: an event cancelled by an earlier callback is called all the same.
DueInSnapshot == {i \in todo : i >= pos /\ queue.ts[i] <= sys}

Due == {i \in todo \cap queue.mask : i >= pos /\ queue.ts[i] <= sys}

Call(i) ==
  /\ at = "events" /\ i \in Due /\ \A j \in Due : i <= j
  /\ pos' = i + 1
  /\ UNCHANGED <<times, targets, halts, running, frameTarget, at, todo, late>>

StartHBlank ==
  /\ Call(LCD) /\ stage = "hblank" /\ MayInterrupt
  /\ queue' = Again(Taken(queue, LCD), LCD, ScanlineCycles)
  /\ stage' = IF line = Lines - 1 THEN "finish" ELSE "scanline"
  /\ line' = line + 1
  /\ UNCHANGED frameDone

StartScanline ==
  /\ Call(LCD) /\ stage = "scanline" /\ MayInterrupt
  /\ queue' = Again(Taken(queue, LCD), LCD, HBlankCycles)
  /\ stage' = "hblank"
  /\ UNCHANGED <<line, frameDone>>

\* The next frame schedules the next LCD event.
FinishFrame ==
  /\ Call(LCD) /\ stage = "finish"
  /\ queue' = Taken(queue, LCD)
  /\ frameDone' = TRUE
  /\ raced' = (raced \/ sleeping)
  /\ UNCHANGED <<sleeping, wakeup, lcd>>

\* SPU.Mix and RTC.ClockTimer.
Periodic(i) ==
  /\ Call(i) /\ MayInterrupt
  /\ queue' = Again(Taken(queue, i), i, Period[i])
  /\ UNCHANGED <<lcd, frameDone>>

\* A device ends its work, goes on with it, or acts on another device.
Device(i) ==
  /\ Call(i) /\ MayInterrupt
  /\ \E a \in Accesses(Taken(queue, i), arm7) : queue' = a.queue
  /\ UNCHANGED <<lcd, frameDone>>

EndEvents ==
  /\ at = "events" /\ Due = {}
  /\ queue' = Refreshed(queue)
  /\ at' = EndOfSlice(sleeping, frameDone)
  /\ todo' = {} /\ pos' = 0 /\ late' = {}
  /\ UNCHANGED <<times, targets, halts, mode, lcd, frame>>
-----------------------------------------------------------------------------
\* Sleep mode: time jumps from one deadline to the next.

BeginSleep ==
  /\ at = "frame" /\ sleeping
  /\ frameTarget' = sys + SleepFrame /\ at' = "asleep"
  /\ UNCHANGED <<queue, times, targets, halts, mode, lcd, frameDone, walk, late>>

SleepTarget == Sooner(frameTarget, NextTargetSleep)

Reached == {i \in queue.mask : queue.ts[i] <= SleepTarget}

\* Both loops over the mask in RunSystemSleep: an event that runs asleep is
\* called, any other is put off by the length of the pass.
CalledAsleep == Reached \cap (PoweredAsleep \cup {RTC})

AfterSleepPass ==
  LET mask == queue.mask \ (CalledAsleep \ {RTC})
      ts   == [i \in Slots |->
                 queue.ts[i] + CASE i \in Reached \ CalledAsleep -> SleepTarget - sys
                                 [] i \in Reached \cap {RTC}     -> Period[RTC]
                                 [] OTHER                        -> 0]
  IN  [mask |-> mask, ts |-> ts, earliest |-> Earliest(mask, ts)]

SleepPass ==
  /\ at = "asleep" /\ sys < Horizon
  /\ queue' = AfterSleepPass
  /\ sys' = SleepTarget /\ arm9' = SleepTarget /\ arm7' = SleepTarget
  /\ IF RTC \in Reached THEN MayInterrupt ELSE Quiet
  /\ IF SleepTarget >= frameTarget
     THEN frameDone' = TRUE /\ at' = "frontend"  \* BlankFrame
     ELSE UNCHANGED frameDone /\ at' = IF sleeping' THEN "asleep" ELSE "frame"
  /\ UNCHANGED <<targets, halts, running, lcd, frameTarget, walk, late>>

-----------------------------------------------------------------------------
Between == RunFrame \/ InputIRQ \/ \E i \in Devices : Eject(i)

ARM9Step ==
  \/ Halt9 \/ Halted9 \/ Interrupted9 \/ Done9
  \/ \E c \in 1 .. MaxInstruction : Instruction9(c)
  \/ \E c \in 0 .. SliceLimit : Transfer9(c) \/ GXStallSlice(c)

ARM7Step ==
  \/ Halt7 \/ EnterSleepMode \/ Stop \/ Halted7 \/ Interrupted7
  \/ ExecuteAgain7 \/ TimerIRQ7
  \/ \E c \in 1 .. MaxInstruction : Instruction7(c)
  \/ \E c \in 1 .. SliceLimit : Transfer7(c)

Dispatch ==
  \/ StartHBlank \/ StartScanline \/ FinishFrame
  \/ \E i \in {SPU, RTC} : Periodic(i)
  \/ \E i \in Devices : Device(i)

Next == \/ Between \/ StartFrame \/ BeginSlice \/ ARM9Step \/ ARM7Step
        \/ RunSystem \/ Dispatch \/ EndEvents \/ BeginSleep \/ SleepPass

Spec == Init /\ [][Next]_vars

-----------------------------------------------------------------------------
\* Properties.

Instants == {"frontend", "frame", "slice", "asleep"}

\* Every variable has its type.
TypeOK ==
  /\ queue \in [mask : SUBSET Slots, ts : [Slots -> Nat], earliest : Nat \cup {Never}]
  /\ sys \in Nat /\ arm9 \in Nat /\ arm7 \in Nat /\ target9 \in Nat /\ target7 \in Nat
  /\ halted9 \in BOOLEAN /\ halted7 \in BOOLEAN
  /\ sleeping \in BOOLEAN /\ wakeup \in BOOLEAN /\ raced \in BOOLEAN
  /\ running \in BOOLEAN /\ frameDone \in BOOLEAN /\ frameTarget \in Nat
  /\ line \in 0 .. Lines /\ stage \in {"hblank", "scanline", "finish"}
  /\ at \in Instants \cup {"arm9", "arm7", "events"}
  /\ todo \subseteq Slots /\ pos \in 0 .. EventMax
  /\ late \subseteq Devices

IsEarliest(e, q) ==
  IF q.mask = {} THEN e = Never
  ELSE (\E i \in q.mask : q.ts[i] = e) /\ \A i \in q.mask : e <= q.ts[i]

\* NextTarget and the early return of RunSystem read the cached deadline: at
\* any moment either of them may, it is that of the earliest event, and while
\* events are called it is never later (NDS.h:519).
EarliestIsExact ==
  IF at = "events"
  THEN \A i \in queue.mask : queue.earliest # Never /\ queue.earliest <= queue.ts[i]
  ELSE IsEarliest(queue.earliest, queue)

\* Whatever the CPUs and the callbacks schedule, cancel or put off, no event
\* is due between two slices or passes: none was missed, and NextTarget lies ahead.
NothingOverdue == at \in Instants => \A i \in queue.mask : queue.ts[i] > sys

\* No event is called early, and none later than the instruction that crossed
\* its deadline took; only an event that the ARM7, behind the ARM9, has just
\* scheduled may be late by what is left of the slice.
Called == IF at = "asleep" THEN CalledAsleep
          ELSE IF at = "events" /\ at' = "events" THEN {pos' - 1} ELSE {}

CalledOnTime ==
  [][\A i \in Called :
       /\ i \in queue.mask /\ queue.ts[i] <= sys'
       /\ sys' < queue.ts[i] + IF i \in late THEN SliceLimit ELSE MaxInstruction]_vars

\* SysTimestamp and the ARM9's clock, from which RunTimers takes unsigned
\* intervals, never run back, although a halted or stalled ARM9 and sleep mode
\* assign a computed target to them.
TimeAdvances == [][sys' >= sys /\ arm9' >= arm9]_vars

\* The loop over slices ends only through FinishFrame: an LCD event is pending
\* in it, unless sleep mode was left, or a frame finished, in the very slice in
\* which the ARM7 had asked for it.
FrameCanEnd ==
  at \in {"slice", "arm9", "arm7"} /\ ~frameDone /\ ~raced => LCD \in queue.mask
====
