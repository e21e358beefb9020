---- MODULE SchedulerProofs ----
(***************************************************************************)
(* Proofs about Scheduler, for any number of slots and devices, any period *)
(* and delay, and any length of slices, instructions and sleep.  The two   *)
(* facts everything rests on: the cached deadline is exact, and every      *)
(* event lies ahead of SysTimestamp unless RunSystem is about to call it.  *)
(***************************************************************************)
EXTENDS Scheduler, WellFoundedInduction, TLAPS

Queues == [mask : SUBSET Slots, ts : [Slots -> Nat], earliest : Nat \cup {Never}]

Exact(q) == IsEarliest(q.earliest, q)

\* What is left of it while callbacks take events out of the mask.
NotLater(q) == \A i \in q.mask : q.earliest # Never /\ q.earliest <= q.ts[i]

\* How late an event may be found: by an instruction, or, if the ARM7 has just
\* scheduled it, by a slice.
Lateness(i) == IF i \in late THEN SliceLimit ELSE MaxInstruction

Ahead == \A i \in queue.mask : queue.ts[i] > sys

\* RunSystem has still to come to the events that it has reached.
AheadOrToCall ==
  \A i \in queue.mask :
    queue.ts[i] > sys \/ (i \in todo /\ i >= pos /\ sys < queue.ts[i] + Lateness(i))

\* Where the clocks are between slices, in the two halves of a slice, and
\* while its events are called.
BetweenSlices == arm9 = sys /\ arm7 >= sys /\ Ahead /\ late = {}

ARM9Runs ==
  /\ sys < target9 /\ target9 <= sys + MaxIterationCycles + IterationCycleMargin
  /\ sys <= arm9 /\ arm9 < target9 + MaxInstruction /\ (halted9 => arm9 = sys)
  /\ arm7 >= sys /\ late = {}
  /\ \A i \in queue.mask : target9 <= queue.ts[i]

ARM7Runs ==
  /\ sys <= arm9 /\ arm9 < sys + SliceLimit /\ arm7 >= sys
  /\ Ahead
  /\ \A i \in queue.mask : i \notin late => arm9 < queue.ts[i] + MaxInstruction

EventsRun == sys = arm9 /\ arm9 <= arm7 /\ AheadOrToCall

Clocks ==
  /\ at \in Instants => BetweenSlices
  /\ at = "arm9" => ARM9Runs
  /\ at = "arm7" => ARM7Runs
  /\ at = "events" => EventsRun
  /\ at = "asleep" => sys < frameTarget

\* The LCD event that ends the frame is pending, sleep mode or not, and the
\* wakeup flag is not set while slices run, unless sleep mode was left, or a
\* frame finished, in the slice in which the ARM7 had asked for it.
InFrame == {"slice", "arm9", "arm7", "events"}

FrameGoesOn ==
  /\ at \in {"frame", "asleep", "slice", "arm9", "arm7"} => ~frameDone
  /\ at \in {"frame", "asleep", "slice", "arm9"} => running
  /\ ~raced =>
       /\ sleeping \/ wakeup => LCD \in queue.mask
       /\ wakeup => at \notin InFrame
       /\ at \in InFrame /\ ~frameDone => LCD \in queue.mask

\* A frame that will schedule its first LCD event does so where the last frame
\* ended, an instruction behind the last LCD event at most.
FrameBegins ==
  /\ at = "asleep" => sleeping
  /\ LCD \notin queue.mask /\ running /\ ~sleeping /\ ~wakeup
       /\ (at \in {"frontend", "frame"} \/ (at = "events" /\ frameDone))
     => sys < queue.ts[LCD] + MaxInstruction

\* The inductive invariant.
IInv ==
  /\ TypeOK
  /\ stage # "finish" => line < Lines
  /\ EarliestIsExact
  /\ Clocks
  /\ FrameGoesOn
  /\ FrameBegins

-----------------------------------------------------------------------------
\* The queue.

\* A set of deadlines that is not empty has an earliest one.
LEMMA MinExists ==
  ASSUME NEW T, T \subseteq Nat, T # {}
  PROVE  \E t \in T : \A u \in T : t <= u
<1>1. PICK t \in T : \A u \in T : <<u, t>> \notin OpToRel(<, Nat)
  BY WFMin, NatLessThanWellFounded, Zenon
<1>2. \A u \in T : u \in Nat /\ t \in Nat /\ ~(u < t)
  BY <1>1, Zenon DEF OpToRel
<1>3. \A u \in T : t <= u
  BY <1>2
<1> QED  BY <1>3

\* RefreshEarliestEvent computes it.
LEMMA EarliestIs ==
  ASSUME NEW mask \in SUBSET Slots, NEW ts \in [Slots -> Nat]
  PROVE  /\ Earliest(mask, ts) \in Nat \cup {Never}
         /\ mask = {} => Earliest(mask, ts) = Never
         /\ mask # {} => /\ Earliest(mask, ts) \in Nat
                         /\ \E i \in mask : ts[i] = Earliest(mask, ts)
                         /\ \A i \in mask : Earliest(mask, ts) <= ts[i]
<1>1. CASE mask = {}
  BY <1>1 DEF Earliest
<1>2. CASE mask # {}
  <2> DEFINE deadlines == {ts[i] : i \in mask}
             isMin(t) == \A u \in deadlines : t <= u
  <2>1. \E t \in deadlines : isMin(t)
    <3>1. deadlines \subseteq Nat /\ deadlines # {}
      BY <1>2
    <3> QED  BY <3>1, MinExists
  <2>2. Earliest(mask, ts) = CHOOSE t \in deadlines : isMin(t)
    BY <1>2 DEF Earliest
  <2>3. Earliest(mask, ts) \in deadlines /\ isMin(Earliest(mask, ts))
    <3> HIDE DEF isMin, deadlines
    <3> QED  BY <2>1, <2>2
  <2> QED  BY <1>2, <2>3
<1> QED  BY <1>1, <1>2

\* A queue whose deadline has been recomputed is exact.
LEMMA RefreshedIs ==
  ASSUME NEW q \in Queues
  PROVE  /\ Refreshed(q) \in Queues /\ Exact(Refreshed(q))
         /\ Refreshed(q).mask = q.mask /\ Refreshed(q).ts = q.ts
<1>1. Refreshed(q) = [q EXCEPT !.earliest = Earliest(q.mask, q.ts)]
  BY DEF Refreshed
<1>2. /\ Refreshed(q).mask = q.mask /\ Refreshed(q).ts = q.ts
      /\ Refreshed(q).earliest = Earliest(q.mask, q.ts)
  BY <1>1 DEF Queues
<1>3. q.mask \in SUBSET Slots /\ q.ts \in [Slots -> Nat]
  BY DEF Queues
<1>4. Refreshed(q) \in Queues
  BY <1>1, <1>3, EarliestIs DEF Queues
<1>5. Exact(Refreshed(q))
  <2> DEFINE e == Earliest(q.mask, q.ts)
  <2>1. /\ q.mask = {} => e = Never
        /\ q.mask # {} => /\ \E i \in q.mask : q.ts[i] = e
                          /\ \A i \in q.mask : e <= q.ts[i]
    BY <1>3, EarliestIs
  <2> HIDE DEF e
  <2>2. IsEarliest(e, Refreshed(q))
    BY <1>2, <2>1 DEF IsEarliest
  <2> QED  BY <1>2, <2>2 DEF Exact, e
<1> QED  BY <1>2, <1>4, <1>5

\* An exact deadline is not later than any.
LEMMA ExactIsNotLater ==
  ASSUME NEW q \in Queues, Exact(q)
  PROVE  NotLater(q)
  BY NeverAssumption DEF Exact, IsEarliest, NotLater, Queues

\* ScheduleEvent.
LEMMA ScheduledIs ==
  ASSUME NEW q \in Queues, NEW i \in Slots, NEW t \in Nat
  PROVE  /\ Scheduled(q, i, t) \in Queues
         /\ Exact(q) => Exact(Scheduled(q, i, t))
         /\ NotLater(q) => NotLater(Scheduled(q, i, t))
         /\ Scheduled(q, i, t).mask = q.mask \cup {i}
         /\ \A j \in Slots : j # i \/ j \in q.mask => Scheduled(q, i, t).ts[j] = q.ts[j]
         /\ i \notin q.mask => Scheduled(q, i, t).ts[i] = t
<1>1. CASE i \in q.mask
  <2>1. Scheduled(q, i, t) = q /\ q.mask = q.mask \cup {i}
    BY <1>1 DEF Scheduled
  <2> QED  BY <1>1, <2>1
<1>2. CASE i \notin q.mask
  <2> DEFINE new == Scheduled(q, i, t)
  <2>1. new = [mask |-> q.mask \cup {i}, ts |-> [q.ts EXCEPT ![i] = t],
               earliest |-> Sooner(t, q.earliest)]
    BY <1>2 DEF Scheduled
  <2>2. Sooner(t, q.earliest) \in Nat
    BY DEF Sooner, Before, Queues
  <2>3. /\ new.mask = q.mask \cup {i} /\ new.ts[i] = t /\ new.earliest = Sooner(t, q.earliest)
        /\ \A j \in Slots : j # i \/ j \in q.mask => new.ts[j] = q.ts[j]
        /\ q.mask \subseteq Slots
    BY <1>2, <2>1 DEF Queues
  <2>4. new \in Queues
    BY <2>1, <2>2 DEF Queues
  <2>5. q.mask \subseteq Slots /\ q.ts \in [Slots -> Nat] /\ q.earliest \in Nat \cup {Never}
    BY DEF Queues
  <2>6. ASSUME Exact(q) PROVE Exact(new)
    <3> HIDE DEF new
    <3>1. CASE q.mask = {}
      <4>1. new.earliest = t
        BY <2>3, <2>6, <3>1 DEF Exact, IsEarliest, Sooner, Before
      <4> QED  BY <2>3, <3>1, <4>1 DEF Exact, IsEarliest
    <3>2. CASE q.mask # {}
      <4>1. PICK k \in q.mask : q.ts[k] = q.earliest
        BY <2>6, <3>2 DEF Exact, IsEarliest
      <4>2. q.earliest \in Nat /\ q.earliest # Never /\ \A j \in q.mask : q.earliest <= q.ts[j]
        BY <2>5, <2>6, <3>2, <4>1, NeverAssumption DEF Exact, IsEarliest
      <4>3. new.earliest = IF t < q.earliest THEN t ELSE q.earliest
        BY <2>3, <4>2 DEF Sooner, Before
      <4>4. new.earliest \in {new.ts[i], new.ts[k]} /\ k \in new.mask
        BY <2>3, <4>1, <4>3
      <4>5. \A j \in new.mask : new.earliest <= new.ts[j]
        BY <2>3, <2>5, <4>2, <4>3
      <4> QED  BY <2>3, <4>4, <4>5 DEF Exact, IsEarliest
    <3> QED  BY <3>1, <3>2
  <2>7. ASSUME NotLater(q) PROVE NotLater(new)
    <3> HIDE DEF new
    <3>1. new.earliest # Never /\ new.earliest <= t
      BY <2>2, <2>3, <2>5, NeverAssumption DEF Sooner, Before
    <3>2. ASSUME NEW j \in q.mask PROVE new.earliest <= q.ts[j]
      <4>1. q.earliest \in Nat /\ q.earliest # Never /\ q.earliest <= q.ts[j]
        BY <2>5, <2>7, <3>2 DEF NotLater
      <4>2. new.earliest = IF t < q.earliest THEN t ELSE q.earliest
        BY <2>3, <4>1 DEF Sooner, Before
      <4> QED  BY <2>5, <4>1, <4>2
    <3> QED  BY <2>3, <3>1, <3>2 DEF NotLater
  <2> QED  BY <2>3, <2>4, <2>6, <2>7
<1> QED  BY <1>1, <1>2

\* A periodic event, scheduled from its own deadline.
HasAgain(q, i, n, r) ==
  /\ r \in Queues /\ (Exact(q) => Exact(r)) /\ (NotLater(q) => NotLater(r))
  /\ r.mask = q.mask \cup {i}
  /\ \A j \in Slots : j # i \/ j \in q.mask => r.ts[j] = q.ts[j]
  /\ i \notin q.mask => r.ts[i] = q.ts[i] + n

\* It does nothing to one that is pending.
LEMMA AgainIs ==
  ASSUME NEW q \in Queues, NEW i \in Slots, NEW n \in Nat
  PROVE  HasAgain(q, i, n, Again(q, i, n))
<1> DEFINE t == q.ts[i] + n
           s == Scheduled(q, i, t)
<1>1. Again(q, i, n) = s
  BY DEF Again
<1>2. t \in Nat
  BY DEF Queues
<1> HIDE DEF t
<1>3. /\ s \in Queues /\ (Exact(q) => Exact(s)) /\ (NotLater(q) => NotLater(s))
      /\ s.mask = q.mask \cup {i}
  BY <1>2, ScheduledIs
<1>4. /\ \A j \in Slots : j # i \/ j \in q.mask => s.ts[j] = q.ts[j]
      /\ i \notin q.mask => s.ts[i] = t
  BY <1>2, ScheduledIs
<1> HIDE DEF s
<1> QED  BY <1>1, <1>3, <1>4 DEF t, HasAgain

\* An event taken out, whatever becomes of the cached deadline.
LEMMA TakenIs ==
  ASSUME NEW q \in Queues, NEW i
  PROVE  /\ Taken(q, i) \in Queues
         /\ NotLater(q) => NotLater(Taken(q, i))
         /\ Taken(q, i).mask = q.mask \ {i}
         /\ Taken(q, i).ts = q.ts /\ Taken(q, i).earliest = q.earliest
<1>1. Taken(q, i) = [q EXCEPT !.mask = @ \ {i}]
  BY DEF Taken
<1>2. /\ Taken(q, i).mask = q.mask \ {i}
      /\ Taken(q, i).ts = q.ts /\ Taken(q, i).earliest = q.earliest
  BY <1>1 DEF Queues
<1>3. Taken(q, i) \in Queues
  BY <1>1 DEF Queues
<1> QED  BY <1>2, <1>3 DEF NotLater

\* CancelEvent.
LEMMA CancelledIs ==
  ASSUME NEW q \in Queues, NEW i
  PROVE  /\ Cancelled(q, i) \in Queues
         /\ Exact(q) => Exact(Cancelled(q, i))
         /\ NotLater(q) => NotLater(Cancelled(q, i))
         /\ Cancelled(q, i).mask = q.mask \ {i} /\ Cancelled(q, i).ts = q.ts
<1> DEFINE rest == Taken(q, i)
<1>1. /\ rest \in Queues /\ rest.mask = q.mask \ {i} /\ rest.ts = q.ts
      /\ rest.earliest = q.earliest /\ (NotLater(q) => NotLater(rest))
  BY TakenIs
<1>2. Cancelled(q, i) = IF i \in q.mask /\ q.ts[i] = q.earliest THEN Refreshed(rest) ELSE rest
  BY DEF Cancelled, Taken
<1> HIDE DEF rest
<1>3. CASE i \in q.mask /\ q.ts[i] = q.earliest
  <2>1. Cancelled(q, i) = Refreshed(rest)
    BY <1>2, <1>3
  <2> QED  BY <1>1, <2>1, RefreshedIs, ExactIsNotLater
<1>4. CASE i \notin q.mask
  <2>1. Cancelled(q, i) = rest /\ rest.mask = q.mask
    BY <1>1, <1>2, <1>4
  <2>2. Exact(q) => Exact(rest)
    BY <1>1, <2>1 DEF Exact, IsEarliest
  <2> QED  BY <1>1, <2>1, <2>2
<1>5. CASE i \in q.mask /\ q.ts[i] # q.earliest
  <2>1. Cancelled(q, i) = rest
    BY <1>2, <1>5
  <2>2. ASSUME Exact(q) PROVE Exact(rest)
    <3>1. PICK k \in q.mask : q.ts[k] = q.earliest
      BY <1>5, <2>2 DEF Exact, IsEarliest
    <3>2. k \in rest.mask
      BY <1>1, <1>5, <3>1
    <3> QED  BY <1>1, <1>5, <2>2, <3>1, <3>2 DEF Exact, IsEarliest
  <2> QED  BY <1>1, <2>1, <2>2
<1> QED  BY <1>3, <1>4, <1>5

\* What an access does: every event it leaves pending was so before, at the
\* same time, or belongs to a device and lies ahead of the CPU, whose run then
\* ends no later than at that event.
HasAccess(q, now, a) ==
  /\ a.queue \in Queues
  /\ Exact(q) => Exact(a.queue)
  /\ NotLater(q) => NotLater(a.queue)
  /\ a.limit \in Nat \cup {Never} /\ (a.limit # Never => a.limit > now)
  /\ \A j \in Slots \ Devices :
       (j \in a.queue.mask <=> j \in q.mask) /\ a.queue.ts[j] = q.ts[j]
  /\ \A j \in a.queue.mask :
       \/ j \in q.mask /\ a.queue.ts[j] = q.ts[j]
       \/ /\ j \in Devices /\ a.queue.ts[j] > now
          /\ a.limit # Never /\ a.limit <= a.queue.ts[j]

\* Every access does no more than that.
LEMMA AccessIs ==
  ASSUME NEW q \in Queues, NEW now \in Nat, NEW a \in Accesses(q, now)
  PROVE  HasAccess(q, now, a)
<1> DEFINE Good(b) == HasAccess(q, now, b)
<1>1. Good(Untouched(q))
  BY DEF Untouched, HasAccess
<1>2. ASSUME NEW i \in Devices PROVE Good(Cancel(q, i))
  <2>1. Cancel(q, i).queue = Cancelled(q, i) /\ Cancel(q, i).limit = Never
    BY DEF Cancel
  <2> QED  BY <2>1, CancelledIs DEF HasAccess, Queues
<1>3. ASSUME NEW i \in Devices, NEW d \in Delays,
             NEW r \in Queues, Exact(q) => Exact(r), NotLater(q) => NotLater(r),
             r.mask \subseteq q.mask, q.mask \ Devices \subseteq r.mask, r.ts = q.ts,
             q.mask \subseteq Slots
      PROVE  Good(Start(r, i, now + d))
  <2>1. i \in Slots /\ now + d \in Nat /\ now + d > now
    BY SlotAssumption, CycleAssumption
  <2>2. now + d # Never
    BY <2>1, NeverAssumption
  <2>3. /\ Start(r, i, now + d).queue = Scheduled(r, i, now + d)
        /\ Start(r, i, now + d).limit = IF i \in r.mask THEN Never ELSE now + d
    BY DEF Start
  <2> DEFINE b == Start(r, i, now + d)
             s == Scheduled(r, i, now + d)
  <2>0. PICK t \in Nat : t = now + d
    BY <2>1
  <2>4. /\ s \in Queues /\ (Exact(r) => Exact(s)) /\ (NotLater(r) => NotLater(s))
        /\ s.mask = r.mask \cup {i}
        /\ \A j \in Slots : j # i \/ j \in r.mask => s.ts[j] = r.ts[j]
        /\ i \notin r.mask => s.ts[i] = now + d
    <3>1. /\ Scheduled(r, i, t) \in Queues
          /\ Exact(r) => Exact(Scheduled(r, i, t))
          /\ NotLater(r) => NotLater(Scheduled(r, i, t))
          /\ Scheduled(r, i, t).mask = r.mask \cup {i}
          /\ \A j \in Slots : j # i \/ j \in r.mask => Scheduled(r, i, t).ts[j] = r.ts[j]
          /\ i \notin r.mask => Scheduled(r, i, t).ts[i] = t
      BY <2>1, ScheduledIs
    <3> QED  BY <2>0, <3>1
  <2> HIDE DEF s, b
  <2>5. b.queue = s /\ b.limit = IF i \in r.mask THEN Never ELSE now + d
    BY <2>3 DEF s, b
  <2>6. b.limit \in Nat \cup {Never} /\ (b.limit # Never => b.limit > now)
    BY <2>1, <2>5
  <2>7. ASSUME NEW j \in s.mask
        PROVE  \/ j \in q.mask /\ s.ts[j] = q.ts[j]
               \/ /\ j \in Devices /\ s.ts[j] > now
                  /\ b.limit # Never /\ b.limit <= s.ts[j]
    <3>1. CASE j \in r.mask
      BY <1>3, <2>4, <3>1
    <3>2. CASE j \notin r.mask
      <4>1. j = i /\ s.ts[j] = now + d /\ b.limit = now + d
        BY <2>4, <2>5, <3>2
      <4> QED  BY <2>1, <2>2, <4>1
    <3> QED  BY <3>1, <3>2
  <2>8. Good(b)
    BY <1>3, <2>4, <2>5, <2>6, <2>7 DEF HasAccess
  <2> QED  BY <2>8 DEF b
<1>4. ASSUME NEW i \in Devices, NEW d \in Delays
      PROVE  Good(Start(q, i, now + d)) /\ Good(Start(Cancelled(q, i), i, now + d))
  <2>1. /\ Cancelled(q, i) \in Queues /\ (Exact(q) => Exact(Cancelled(q, i)))
        /\ (NotLater(q) => NotLater(Cancelled(q, i)))
        /\ Cancelled(q, i).mask = q.mask \ {i} /\ Cancelled(q, i).ts = q.ts
    BY CancelledIs
  <2> HIDE DEF Good
  <2>2. Good(Start(q, i, now + d))
    <3>1. q.mask \subseteq Slots
      BY DEF Queues
    <3> QED  BY <1>3, <3>1, Zenon
  <2>3. /\ Cancelled(q, i).mask \subseteq q.mask /\ q.mask \ Devices \subseteq Cancelled(q, i).mask
        /\ q.mask \subseteq Slots
    BY <2>1 DEF Queues
  <2>4. Good(Start(Cancelled(q, i), i, now + d))
    BY <1>3, <2>1, <2>3, Zenon
  <2> QED  BY <2>2, <2>4
<1>5. Good(a)
  <2>1. \/ a = Untouched(q)
        \/ \E i \in Devices : a = Cancel(q, i)
        \/ \E i \in Devices, d \in Delays : a = Start(q, i, now + d)
        \/ \E i \in Devices, d \in Delays : a = Start(Cancelled(q, i), i, now + d)
    BY DEF Accesses
  <2> HIDE DEF Good
  <2> QED  BY <1>1, <1>2, <1>4, <2>1, Zenon
<1> QED  BY <1>5

-----------------------------------------------------------------------------
\* The inductive invariant.

\* What the assumptions on the constants give.
LEMMA Numbers ==
  /\ LCD \in Slots /\ SPU \in Slots /\ RTC \in Slots
  /\ Devices \subseteq Slots /\ LCD \notin Devices /\ SPU \notin Devices /\ RTC \notin Devices
  /\ LCD # SPU /\ LCD # RTC /\ SPU # RTC
  /\ MaxInstruction \in Nat /\ MaxInstruction >= 1
  /\ MaxIterationCycles \in Nat /\ MaxIterationCycles >= 1 /\ IterationCycleMargin \in Nat
  /\ SliceLimit \in Nat /\ SliceLimit > MaxInstruction
  /\ Period[SPU] \in Nat /\ Period[SPU] >= MaxInstruction
  /\ Period[RTC] \in Nat /\ Period[RTC] >= MaxInstruction
  /\ HBlankCycles \in Nat /\ HBlankCycles >= MaxInstruction
  /\ ScanlineCycles \in Nat /\ ScanlineCycles >= MaxInstruction
  /\ SleepFrame \in Nat /\ SleepFrame >= 1 /\ Lines \in Nat /\ Lines >= 1
<1>1. LCD \in Slots /\ SPU \in Slots /\ RTC \in Slots
      /\ Devices \subseteq Slots /\ LCD \notin Devices /\ SPU \notin Devices /\ RTC \notin Devices
      /\ LCD # SPU /\ LCD # RTC /\ SPU # RTC
  BY SlotAssumption
<1>2. /\ MaxInstruction \in Nat /\ MaxInstruction >= 1
      /\ MaxIterationCycles \in Nat /\ MaxIterationCycles >= 1 /\ IterationCycleMargin \in Nat
      /\ SliceLimit \in Nat /\ SliceLimit > MaxInstruction
      /\ SleepFrame \in Nat /\ SleepFrame >= 1 /\ Lines \in Nat /\ Lines >= 1
  BY CycleAssumption DEF SliceLimit
<1>3. /\ Period[SPU] \in Nat /\ Period[RTC] \in Nat
      /\ HBlankCycles \in Nat /\ ScanlineCycles \in Nat
  BY PeriodAssumption
<1>4. /\ Period[SPU] >= MaxInstruction /\ Period[RTC] >= MaxInstruction
      /\ HBlankCycles >= MaxInstruction /\ ScanlineCycles >= MaxInstruction
  BY PeriodAssumption, Zenon
<1> QED  BY <1>1, <1>2, <1>3, <1>4

\* It holds of the console after Reset.
LEMMA Initially == ASSUME Init PROVE IInv
<1> USE Numbers
<1>1. /\ queue.mask = {SPU, RTC} /\ queue.earliest = Sooner(Period[SPU], Period[RTC])
      /\ queue.ts = [i \in Slots |-> IF i \in {SPU, RTC} THEN Period[i] ELSE 0]
  BY DEF Init
<1>2. queue.ts \in [Slots -> Nat] /\ queue.ts[SPU] = Period[SPU] /\ queue.ts[RTC] = Period[RTC]
  BY <1>1
<1>3. Sooner(Period[SPU], Period[RTC])
        = IF Period[SPU] < Period[RTC] THEN Period[SPU] ELSE Period[RTC]
  BY NeverAssumption DEF Sooner, Before
<1>4. queue \in Queues
  <2>1. queue = [mask |-> queue.mask, ts |-> queue.ts, earliest |-> queue.earliest]
    BY DEF Init
  <2> QED  BY <1>1, <1>2, <1>3, <2>1 DEF Queues
<1>5. TypeOK
  <2>1. queue \in [mask : SUBSET Slots, ts : [Slots -> Nat], earliest : Nat \cup {Never}]
    BY <1>4 DEF Queues
  <2>2. line \in 0 .. Lines /\ pos \in 0 .. EventMax /\ todo \subseteq Slots /\ late \subseteq Devices
    BY SlotAssumption DEF Init
  <2> QED  BY <2>1, <2>2 DEF Init, TypeOK, Instants
<1>6. EarliestIsExact
  BY <1>1, <1>2, <1>3, NeverAssumption DEF Init, EarliestIsExact, IsEarliest
<1>7. Clocks
  BY <1>1, <1>2 DEF Init, Clocks, BetweenSlices, Ahead
<1>8. FrameGoesOn
  BY DEF Init, FrameGoesOn, InFrame
<1>9. FrameBegins
  BY <1>2 DEF Init, FrameBegins
<1> QED  BY <1>5, <1>6, <1>7, <1>8, <1>9 DEF IInv, Init

\* An interrupt that may come keeps what the frame relies on.
LEMMA Interrupting ==
  ASSUME IInv, MayInterrupt
  PROVE  /\ sleeping' \in BOOLEAN /\ wakeup' \in BOOLEAN /\ raced' \in BOOLEAN
         /\ ~raced' => ~raced
         /\ ~raced' /\ (sleeping' \/ wakeup') => LCD \in queue.mask
         /\ ~raced' /\ at \in {"arm7", "events"} => ~wakeup'
<1>1. CASE Quiet
  BY <1>1 DEF Quiet, IInv, TypeOK, FrameGoesOn, InFrame
<1>2. CASE Wakes
  BY <1>2 DEF Wakes, IInv, TypeOK, FrameGoesOn, InFrame
<1> QED  BY <1>1, <1>2 DEF MayInterrupt

\* NextTarget lies ahead, and no event is due before it.
LEMMA NextTargetIs ==
  ASSUME IInv, at = "slice"
  PROVE  /\ NextTarget \in Nat /\ sys < NextTarget
         /\ NextTarget <= sys + MaxIterationCycles + IterationCycleMargin
         /\ \A i \in queue.mask : NextTarget <= queue.ts[i]
<1>1. queue \in Queues /\ sys \in Nat /\ Exact(queue) /\ Ahead
  BY DEF IInv, TypeOK, Queues, EarliestIsExact, Exact, Clocks, BetweenSlices, Instants
<1>2. queue.mask \subseteq Slots /\ queue.ts \in [Slots -> Nat] /\ queue.earliest \in Nat \cup {Never}
  BY <1>1 DEF Queues
<1>3. CASE queue.earliest = Never
  <2>1. queue.mask = {}
    BY <1>1, <1>2, <1>3, NeverAssumption DEF Exact, IsEarliest
  <2>2. NextTarget = sys + MaxIterationCycles
    BY <1>3 DEF NextTarget
  <2> QED  BY <1>1, <2>1, <2>2, Numbers
<1>4. CASE queue.earliest # Never
  <2>1. queue.earliest \in Nat /\ queue.mask # {}
    BY <1>1, <1>2, <1>4 DEF Exact, IsEarliest
  <2>2. queue.earliest > sys /\ \A i \in queue.mask : queue.earliest <= queue.ts[i]
    BY <1>1, <2>1 DEF Exact, IsEarliest, Ahead
  <2>3. NextTarget = IF queue.earliest < sys + MaxIterationCycles + IterationCycleMargin
                     THEN queue.earliest ELSE sys + MaxIterationCycles
    BY <1>4 DEF NextTarget
  <2>4. NextTarget <= queue.earliest
    BY <1>1, <2>1, <2>3, Numbers
  <2> QED  BY <1>1, <1>2, <2>1, <2>2, <2>3, <2>4, Numbers
<1> QED  BY <1>3, <1>4

\* Up to the first slice of a frame, and between frames.
LEMMA FrontendSteps == ASSUME IInv, Between \/ StartFrame \/ BeginSleep PROVE IInv'
<1> USE Numbers
<1>1. CASE RunFrame
  BY <1>1
  DEF RunFrame, IInv, TypeOK, EarliestIsExact, Clocks, BetweenSlices, Ahead, FrameGoesOn, FrameBegins,
      InFrame, Instants, times, targets, halts, mode, lcd, walk
<1>2. CASE InputIRQ
  <2>1. at = "frontend" /\ UNCHANGED <<queue, times, targets, halts, running, frame, lcd, at, walk, late>>
        /\ MayInterrupt
    BY <1>2 DEF InputIRQ, MayInterrupt
  <2>2. FrameGoesOn'
    BY <2>1, Interrupting DEF IInv, FrameGoesOn, InFrame, frame
  <2>3. TypeOK'
    BY <2>1, Interrupting DEF IInv, TypeOK, times, targets, halts, frame, lcd, walk
  <2>4. FrameBegins'
    BY <1>2, <2>1 DEF InputIRQ, Wakes, FrameBegins
  <2> QED
    BY <2>1, <2>2, <2>3, <2>4
    DEF IInv, EarliestIsExact, Clocks, BetweenSlices, Ahead, Instants, times, frame, lcd
<1>3. CASE \E i \in Devices : Eject(i)
  <2>1. PICK i \in Devices : Eject(i)
    BY <1>3
  <2>2. /\ at = "frontend" /\ queue' = Cancelled(queue, i)
        /\ UNCHANGED <<times, targets, halts, mode, frame, lcd, at, walk, late>>
    BY <2>1 DEF Eject
  <2>3. queue \in Queues /\ Exact(queue)
    BY <2>2 DEF IInv, TypeOK, Queues, EarliestIsExact, Exact
  <2>4. /\ queue' \in Queues /\ Exact(queue')
        /\ queue'.mask = queue.mask \ {i} /\ queue'.ts = queue.ts
    BY <2>2, <2>3, CancelledIs
  <2>5. TypeOK'
    BY <2>2, <2>4 DEF IInv, TypeOK, Queues, times, targets, halts, mode, frame, lcd, walk
  <2>6. Clocks' /\ FrameGoesOn' /\ FrameBegins'
    BY <2>2, <2>4
    DEF IInv, Clocks, BetweenSlices, Ahead, FrameGoesOn, FrameBegins, InFrame, Instants, times, mode, frame
  <2> QED  BY <2>2, <2>4, <2>5, <2>6 DEF IInv, EarliestIsExact, Exact, lcd
<1>4. CASE StartFrame
  <2>1. /\ at = "frame" /\ ~sleeping /\ at' = "slice" /\ wakeup' = FALSE
        /\ UNCHANGED <<times, targets, halts, sleeping, running, frame, walk, raced, late>>
    BY <1>4 DEF StartFrame
  <2>2. queue \in Queues /\ Exact(queue) /\ sys \in Nat /\ BetweenSlices
    BY <2>1 DEF IInv, TypeOK, Queues, EarliestIsExact, Exact, Clocks, Instants
  <2>3. /\ queue' \in Queues /\ Exact(queue') /\ Ahead'
        /\ raced \/ LCD \in queue'.mask
        /\ line' \in 0 .. Lines /\ stage' \in {"hblank", "scanline", "finish"}
        /\ stage' # "finish" => line' < Lines
    <3>1. CASE wakeup
      BY <1>4, <2>1, <2>2, <3>1
      DEF StartFrame, IInv, TypeOK, BetweenSlices, Ahead, FrameGoesOn, Exact, IsEarliest, times, lcd
    <3>2. CASE ~wakeup
      <4>1. queue' = Again(queue, LCD, HBlankCycles)
        BY <1>4, <3>2 DEF StartFrame
      <4>2. queue.mask \subseteq Slots /\ queue.ts[LCD] \in Nat
        BY <2>2 DEF Queues
      <4>3. /\ queue' \in Queues /\ Exact(queue') /\ queue'.mask = queue.mask \cup {LCD}
            /\ \A j \in queue.mask : queue'.ts[j] = queue.ts[j]
            /\ LCD \notin queue.mask => queue'.ts[LCD] = queue.ts[LCD] + HBlankCycles
        <5>1. HasAgain(queue, LCD, HBlankCycles, queue')
          BY <2>2, <4>1, AgainIs
        <5> QED  BY <2>2, <4>2, <5>1 DEF HasAgain
      <4>4. LCD \notin queue.mask => sys < queue.ts[LCD] + MaxInstruction
        BY <2>1, <3>2 DEF IInv, FrameBegins, FrameGoesOn
      <4>6. Ahead'
        BY <2>1, <2>2, <4>2, <4>3, <4>4 DEF Ahead, Queues, BetweenSlices, times
      <4>5. /\ line' \in 0 .. Lines /\ stage' \in {"hblank", "scanline", "finish"}
            /\ stage' # "finish" => line' < Lines
        BY <1>4, <3>2 DEF StartFrame, IInv, TypeOK, lcd
      <4> QED  BY <4>3, <4>5, <4>6
    <3> QED  BY <3>1, <3>2
  <2>4. TypeOK'
    BY <2>1, <2>3 DEF IInv, TypeOK, Queues, Instants, times, targets, halts, frame, walk
  <2>5. Clocks' /\ FrameGoesOn' /\ FrameBegins'
    BY <2>1, <2>2, <2>3 DEF IInv, Clocks, BetweenSlices, FrameGoesOn, FrameBegins, InFrame, Instants, times, frame
  <2> QED  BY <2>1, <2>3, <2>4, <2>5 DEF IInv, EarliestIsExact, Exact
<1>5. CASE BeginSleep
  <2>1. TypeOK'
    BY <1>5 DEF BeginSleep, IInv, TypeOK, Instants, times, targets, halts, mode, lcd, walk
  <2>2. Clocks' /\ FrameGoesOn' /\ FrameBegins'
    BY <1>5
    DEF BeginSleep, IInv, TypeOK, Clocks, BetweenSlices, Ahead, FrameGoesOn, FrameBegins, InFrame, Instants,
        times, mode
  <2> QED
    BY <1>5, <2>1, <2>2 DEF BeginSleep, IInv, EarliestIsExact, lcd
<1> QED  BY <1>1, <1>2, <1>3, <1>4, <1>5 DEF Between

\* Arithmetic, kept apart from the state.
LEMMA Within ==
  ASSUME NEW t \in Nat, NEW u \in Nat, NEW v \in Nat, NEW n \in Nat, t < u + n, u <= v
  PROVE  t < v + n
  OBVIOUS

\* The ARM9's part of a slice leaves it within an instruction of its target.
LEMMA SliceHandedOver ==
  ASSUME IInv, NEW t, ARM9Stops(t), t \in Nat, arm9 <= t,
         t < target9' + MaxInstruction, target9' \in Nat,
         target9' <= sys + MaxIterationCycles + IterationCycleMargin,
         \A i \in queue.mask : target9' <= queue.ts[i],
         at \in {"slice", "arm9"}, ~raced => ~wakeup,
         UNCHANGED <<queue, sys, arm7, halted7, mode, frame, lcd, walk, late>>,
         halted9' \in BOOLEAN
  PROVE  IInv'
<1> USE Numbers
<1>1. arm9' = t /\ target7' = t /\ at' = "arm7"
  BY DEF ARM9Stops
<1>2. TypeOK'
  BY <1>1 DEF IInv, TypeOK, Instants, mode, frame, lcd, walk
<1>3. /\ sys \in Nat /\ sys <= arm9 /\ arm7 >= sys /\ late = {} /\ Ahead
      /\ queue \in Queues
  <2>1. CASE at = "slice"
    BY <2>1 DEF IInv, TypeOK, Queues, Clocks, BetweenSlices, Instants
  <2>2. CASE at = "arm9"
    BY <2>2 DEF IInv, TypeOK, Queues, Clocks, ARM9Runs, Ahead
  <2> QED  BY <2>1, <2>2
<1>4. ARM7Runs'
  <2>1. arm9' < sys + SliceLimit
    <3>1. t < sys + (MaxIterationCycles + IterationCycleMargin + MaxInstruction)
      BY <1>3
    <3> QED  BY <1>1, <3>1 DEF SliceLimit
  <2>2. ASSUME NEW i \in queue.mask
        PROVE  t < queue.ts[i] + MaxInstruction
    <3>1. target9' <= queue.ts[i] /\ queue.ts[i] \in Nat
      BY <1>3 DEF Queues
    <3> QED  BY <3>1, Within, Zenon
  <2> QED  BY <1>1, <1>3, <2>1, <2>2 DEF ARM7Runs, Ahead, IInv, TypeOK
<1>5. Clocks'
  BY <1>1, <1>4 DEF Clocks, Instants
<1>6. FrameGoesOn' /\ FrameBegins'
  BY <1>1 DEF IInv, FrameGoesOn, FrameBegins, InFrame, mode, frame
<1> QED  BY <1>1, <1>2, <1>5, <1>6 DEF IInv, EarliestIsExact, lcd

\* BeginSlice and the ARM9.
LEMMA ARM9Steps == ASSUME IInv, BeginSlice \/ ARM9Step PROVE IInv'
<1> USE Numbers
<1>1. CASE BeginSlice
  <2>1. /\ at = "slice" /\ target9' = NextTarget /\ at' = "arm9"
        /\ UNCHANGED <<queue, times, target7, halts, mode, frame, lcd, walk, late>>
    BY <1>1 DEF BeginSlice
  <2>2. /\ target9' \in Nat /\ sys < target9'
        /\ target9' <= sys + MaxIterationCycles + IterationCycleMargin
        /\ \A i \in queue.mask : target9' <= queue.ts[i]
    BY <2>1, NextTargetIs
  <2>3. TypeOK'
    BY <2>1, <2>2 DEF IInv, TypeOK, Instants, times, halts, mode, frame, lcd, walk
  <2>4. Clocks'
    BY <2>1, <2>2 DEF IInv, TypeOK, Clocks, BetweenSlices, ARM9Runs, Instants, times, halts
  <2>5. FrameGoesOn' /\ FrameBegins'
    BY <2>1 DEF IInv, FrameGoesOn, FrameBegins, InFrame, mode, frame
  <2> QED  BY <2>1, <2>3, <2>4, <2>5 DEF IInv, EarliestIsExact, lcd
<1>2. CASE \E c \in 0 .. SliceLimit : GXStallSlice(c)
  <2>1. PICK c \in 0 .. SliceLimit : GXStallSlice(c)
    BY <1>2
  <2> DEFINE t == Sooner(arm9 + c, NextTarget)
  <2>2. /\ at = "slice" /\ target9' = NextTarget /\ ARM9Stops(t)
        /\ UNCHANGED <<queue, sys, arm7, halts, mode, frame, lcd, walk, late>>
    BY <2>1 DEF GXStallSlice
  <2>3. /\ target9' \in Nat /\ sys < target9'
        /\ target9' <= sys + MaxIterationCycles + IterationCycleMargin
        /\ \A i \in queue.mask : target9' <= queue.ts[i]
    BY <2>2, NextTargetIs
  <2>4. arm9 = sys /\ sys \in Nat /\ arm9 \in Nat /\ c \in Nat
    BY <2>2 DEF IInv, TypeOK, Clocks, BetweenSlices, Instants
  <2>5. t = IF arm9 + c < target9' THEN arm9 + c ELSE target9'
    BY <2>2, <2>3, NeverAssumption DEF Sooner, Before
  <2>6. t \in Nat /\ arm9 <= t /\ t < target9' + MaxInstruction
    BY <2>3, <2>4, <2>5
  <2>7. (~raced => ~wakeup) /\ halted9' \in BOOLEAN /\ halted7' = halted7
    BY <2>2 DEF IInv, TypeOK, FrameGoesOn, InFrame, halts
  <2> QED  BY <2>2, <2>3, <2>6, <2>7, SliceHandedOver
<1>3. ASSUME at = "arm9"
      PROVE  /\ sys \in Nat /\ arm9 \in Nat /\ target9 \in Nat /\ ARM9Runs /\ queue \in Queues
             /\ Exact(queue) /\ (~raced => ~wakeup) /\ halted9 \in BOOLEAN
  BY <1>3
  DEF IInv, TypeOK, Queues, EarliestIsExact, Exact, Clocks, FrameGoesOn, InFrame
<1>4. ASSUME NEW t, ARM9Stops(t), at = "arm9", t \in Nat, arm9 <= t,
             t < target9 + MaxInstruction, halted9' \in BOOLEAN,
             UNCHANGED <<queue, sys, arm7, target9, halted7, mode, frame, lcd, walk, late>>
      PROVE  IInv'
  <2>1. /\ target9' \in Nat /\ t < target9' + MaxInstruction
        /\ target9' <= sys + MaxIterationCycles + IterationCycleMargin
        /\ \A i \in queue.mask : target9' <= queue.ts[i]
    BY <1>3, <1>4 DEF ARM9Runs
  <2> QED  BY <1>3, <1>4, <2>1, SliceHandedOver
<1>5. CASE Halt9
  BY <1>3, <1>4, <1>5 DEF Halt9
<1>6. CASE Halted9
  <2>1. arm9 <= target9
    BY <1>3, <1>6 DEF Halted9, ARM9Runs
  <2> QED  BY <1>3, <1>4, <1>6, <2>1 DEF Halted9, halts
<1>7. CASE Done9
  BY <1>3, <1>4, <1>7 DEF Done9, halts, ARM9Runs
<1>8. CASE \E c \in 0 .. SliceLimit : Transfer9(c)
  <2>1. PICK c \in 0 .. SliceLimit : Transfer9(c)
    BY <1>8
  <2>2. /\ at = "arm9" /\ ARM9Stops(arm9 + c) /\ arm9 + c < target9 + MaxInstruction
        /\ UNCHANGED <<queue, sys, arm7, target9, halts, mode, frame, lcd, walk, late>>
    BY <2>1 DEF Transfer9
  <2>3. arm9 + c \in Nat /\ arm9 <= arm9 + c
    BY <1>3, <2>2
  <2> QED  BY <1>3, <1>4, <2>2, <2>3 DEF halts
<1>9. CASE Interrupted9
  <2>1. TypeOK'
    BY <1>9 DEF Interrupted9, IInv, TypeOK, times, targets, mode, frame, lcd, walk
  <2>2. Clocks' /\ FrameGoesOn' /\ FrameBegins'
    BY <1>9
    DEF Interrupted9, IInv, Clocks, ARM9Runs, FrameGoesOn, FrameBegins, InFrame, Instants,
        times, targets, mode, frame
  <2> QED  BY <1>9, <2>1, <2>2 DEF Interrupted9, IInv, EarliestIsExact, lcd
<1>10. CASE \E c \in 1 .. MaxInstruction : Instruction9(c)
  <2>1. PICK c \in 1 .. MaxInstruction : Instruction9(c)
    BY <1>10
  <2>2. PICK a \in Accesses(queue, arm9) :
          queue' = a.queue /\ target9' = Sooner(target9, a.limit)
    BY <2>1 DEF Instruction9
  <2>3. /\ at = "arm9" /\ ~halted9 /\ arm9 < target9 /\ arm9' = arm9 + c
        /\ UNCHANGED <<sys, arm7, target7, halts, mode, frame, lcd, at, walk, late>>
    BY <2>1 DEF Instruction9
  <2>4. HasAccess(queue, arm9, a)
    BY <1>3, <2>3, AccessIs
  <2>5. /\ queue' \in Queues /\ Exact(queue')
        /\ LCD \in queue.mask <=> LCD \in queue'.mask
    BY <1>3, <2>2, <2>3, <2>4 DEF HasAccess
  <2>6. /\ target9' \in Nat /\ target9' <= target9 /\ arm9 < target9'
        /\ a.limit # Never => target9' <= a.limit
    <3>1. a.limit \in Nat \cup {Never} /\ (a.limit # Never => a.limit > arm9)
      BY <2>4 DEF HasAccess
    <3> QED  BY <1>3, <2>2, <2>3, <3>1, NeverAssumption DEF Sooner, Before
  <2>7. \A i \in queue'.mask : target9' <= queue'.ts[i]
    <3>1. ASSUME NEW i \in queue'.mask PROVE target9' <= queue'.ts[i]
      <4>1. \/ i \in queue.mask /\ queue'.ts[i] = queue.ts[i]
            \/ a.limit # Never /\ a.limit <= queue'.ts[i]
        BY <2>2, <2>4, <3>1 DEF HasAccess
      <4>2. queue'.ts[i] \in Nat /\ a.limit \in Nat \cup {Never}
        BY <2>4, <2>5, <3>1 DEF Queues, HasAccess
      <4>3. CASE i \in queue.mask /\ queue'.ts[i] = queue.ts[i]
        BY <1>3, <2>3, <2>6, <4>2, <4>3 DEF ARM9Runs
      <4>4. CASE a.limit # Never /\ a.limit <= queue'.ts[i]
        BY <2>6, <4>2, <4>4
      <4> QED  BY <4>1, <4>3, <4>4
    <3> QED  BY <3>1
  <2>8. TypeOK'
    BY <1>3, <2>3, <2>5, <2>6
    DEF IInv, TypeOK, Queues, halts, mode, frame, lcd, walk
  <2>9. Clocks'
    <3>1. ARM9Runs'
      BY <1>3, <2>3, <2>6, <2>7 DEF ARM9Runs, halts
    <3> QED  BY <2>3, <3>1 DEF Clocks, Instants
  <2>10. FrameGoesOn' /\ FrameBegins'
    BY <2>3, <2>5 DEF IInv, FrameGoesOn, FrameBegins, InFrame, mode, frame
  <2> QED  BY <2>3, <2>5, <2>8, <2>9, <2>10 DEF IInv, EarliestIsExact, Exact, lcd
<1> QED  BY <1>1, <1>2, <1>5, <1>6, <1>7, <1>8, <1>9, <1>10 DEF ARM9Step

\* The ARM7, which the interrupts of its timers may have left sleep mode for.
LEMMA ARM7Steps == ASSUME IInv, ARM7Step PROVE IInv'
<1> USE Numbers
<1>1. ASSUME at = "arm7"
      PROVE  /\ sys \in Nat /\ arm9 \in Nat /\ arm7 \in Nat /\ target7 \in Nat /\ arm7 >= sys
             /\ ARM7Runs /\ queue \in Queues /\ Exact(queue) /\ late \subseteq Devices
             /\ ~frameDone /\ (~raced => ~wakeup /\ LCD \in queue.mask)
  BY <1>1 DEF IInv, TypeOK, Queues, EarliestIsExact, Exact, Clocks, ARM7Runs, FrameGoesOn, InFrame
<1>2. ASSUME at = "arm7", at' = "arm7", arm7' \in Nat, arm7' >= arm7, target7' \in Nat,
             halted7' \in BOOLEAN,
             UNCHANGED <<queue, sys, arm9, target9, halted9, mode, frame, lcd, walk, late>>
      PROVE  IInv'
  <2>1. TypeOK'
    BY <1>1, <1>2 DEF IInv, TypeOK, mode, frame, lcd, walk
  <2>2. Clocks' /\ FrameGoesOn' /\ FrameBegins'
    BY <1>1, <1>2
    DEF Clocks, Instants, ARM7Runs, Ahead, FrameGoesOn, FrameBegins, InFrame, mode, frame
  <2> QED  BY <1>1, <1>2, <2>1, <2>2 DEF IInv, EarliestIsExact, Exact, lcd
<1>3. CASE Halt7
  BY <1>1, <1>2, <1>3 DEF Halt7, targets
<1>4. CASE Halted7
  BY <1>1, <1>2, <1>4 DEF Halted7, targets, halts, IInv, TypeOK
<1>5. CASE Interrupted7
  <2>1. /\ at = "arm7" /\ at' = "arm7" /\ arm7' = arm7 /\ target7' = target7 /\ halted7' = FALSE
        /\ UNCHANGED <<queue, sys, arm9, target9, halted9, mode, frame, lcd, walk, late>>
    BY <1>5 DEF Interrupted7, times, targets
  <2>2. arm7 \in Nat /\ arm7 >= arm7 /\ target7 \in Nat
    BY <1>1, <2>1
  <2> QED  BY <1>2, <2>1, <2>2
<1>6. CASE ExecuteAgain7
  BY <1>1, <1>2, <1>6 DEF ExecuteAgain7, times, halts, IInv, TypeOK
<1>7. CASE \E c \in 1 .. SliceLimit : Transfer7(c)
  BY <1>1, <1>2, <1>7 DEF Transfer7, halts, IInv, TypeOK
<1>8. CASE EnterSleepMode
  <2>1. TypeOK'
    BY <1>1, <1>8 DEF EnterSleepMode, IInv, TypeOK, times, halts, lcd, frame, walk
  <2>2. Clocks' /\ FrameGoesOn' /\ FrameBegins'
    BY <1>1, <1>8
    DEF EnterSleepMode, Clocks, Instants, ARM7Runs, Ahead, FrameGoesOn, FrameBegins, InFrame,
        times, frame
  <2> QED  BY <1>1, <1>8, <2>1, <2>2 DEF EnterSleepMode, IInv, EarliestIsExact, Exact, lcd
<1>9. CASE Stop
  <2>1. TypeOK'
    BY <1>1, <1>9 DEF Stop, IInv, TypeOK, times, targets, halts, lcd, frame, walk
  <2>2. Clocks' /\ FrameGoesOn' /\ FrameBegins'
    BY <1>1, <1>9
    DEF Stop, Clocks, Instants, ARM7Runs, Ahead, FrameGoesOn, FrameBegins, InFrame,
        times, frame
  <2> QED  BY <1>1, <1>9, <2>1, <2>2 DEF Stop, IInv, EarliestIsExact, Exact, lcd
<1>10. CASE TimerIRQ7
  <2>1. /\ at = "arm7" /\ MayInterrupt /\ raced'
        /\ UNCHANGED <<queue, times, targets, halts, running, lcd, frame, at, walk, late>>
    BY <1>10 DEF TimerIRQ7, MayInterrupt, Wakes
  <2>2. TypeOK'
    BY <2>1, Interrupting DEF IInv, TypeOK, times, targets, halts, lcd, frame, walk
  <2>3. Clocks' /\ FrameGoesOn' /\ FrameBegins'
    BY <1>1, <2>1
    DEF Clocks, Instants, ARM7Runs, Ahead, FrameGoesOn, FrameBegins, InFrame, times, frame
  <2> QED  BY <1>1, <2>1, <2>2, <2>3 DEF IInv, EarliestIsExact, Exact, lcd
<1>11. CASE \E c \in 1 .. MaxInstruction : Instruction7(c)
  <2>1. PICK c \in 1 .. MaxInstruction : Instruction7(c)
    BY <1>11
  <2>2. PICK a \in Accesses(queue, arm7) :
          /\ queue' = a.queue /\ target7' = Sooner(target7, a.limit)
          /\ late' = late \cup {i \in a.queue.mask :
                                  i \notin queue.mask \/ a.queue.ts[i] # queue.ts[i]}
    BY <2>1 DEF Instruction7
  <2>3. /\ at = "arm7" /\ arm7' = arm7 + c
        /\ UNCHANGED <<sys, arm9, target9, halts, mode, lcd, frame, at, walk>>
    BY <2>1 DEF Instruction7
  <2>4. HasAccess(queue, arm7, a)
    BY <1>1, <2>3, AccessIs
  <2>5. /\ queue' \in Queues /\ Exact(queue')
        /\ LCD \in queue.mask => LCD \in queue'.mask
    BY <1>1, <2>2, <2>3, <2>4 DEF HasAccess
  <2>6. target7' \in Nat
    <3>1. a.limit \in Nat \cup {Never}
      BY <2>4 DEF HasAccess
    <3> QED  BY <1>1, <2>2, <2>3, <3>1, NeverAssumption DEF Sooner, Before
  <2>7. \A i \in queue'.mask :
          \/ i \in queue.mask /\ queue'.ts[i] = queue.ts[i]
          \/ i \in Devices /\ queue'.ts[i] > arm7
    BY <2>2, <2>4, Zenon DEF HasAccess
  <2>8. late \subseteq late' /\ late' \subseteq Devices
    BY <1>1, <2>2, <2>3, <2>7
  <2>9. \A i \in queue'.mask :
          i \notin late' => i \in queue.mask /\ queue'.ts[i] = queue.ts[i]
    BY <2>2
  <2>10. TypeOK'
    BY <1>1, <2>3, <2>5, <2>6, <2>8
    DEF IInv, TypeOK, Queues, halts, mode, lcd, frame, walk
  <2>11. ARM7Runs'
    <3>1. sys <= arm9 /\ arm9 < sys + SliceLimit /\ arm7' >= sys
      BY <1>1, <2>3 DEF ARM7Runs
    <3>2. ASSUME NEW i \in queue'.mask PROVE queue'.ts[i] > sys
      <4>1. queue'.ts[i] \in Nat
        BY <2>5 DEF Queues
      <4>2. CASE i \in queue.mask /\ queue'.ts[i] = queue.ts[i]
        BY <1>1, <2>3, <4>2 DEF ARM7Runs, Ahead
      <4>3. CASE queue'.ts[i] > arm7
        BY <1>1, <2>3, <4>1, <4>3
      <4> QED  BY <2>7, <4>2, <4>3
    <3>3. \A i \in queue'.mask : i \notin late' => arm9 < queue'.ts[i] + MaxInstruction
      BY <1>1, <2>3, <2>8, <2>9 DEF ARM7Runs
    <3> QED  BY <2>3, <3>1, <3>2, <3>3 DEF ARM7Runs, Ahead
  <2>12. Clocks' /\ FrameGoesOn' /\ FrameBegins'
    BY <1>1, <2>3, <2>5, <2>11 DEF Clocks, Instants, FrameGoesOn, FrameBegins, InFrame, mode, frame
  <2> QED  BY <2>3, <2>5, <2>10, <2>12 DEF IInv, EarliestIsExact, Exact, lcd
<1> QED
  BY <1>3, <1>4, <1>5, <1>6, <1>7, <1>8, <1>9, <1>10, <1>11 DEF ARM7Step

\* RunSystem begins where the ARM9 has come to.
LEMMA RunSystemStep == ASSUME IInv, RunSystem PROVE IInv'
<1> USE Numbers
<1>1. /\ at = "arm7" /\ arm7 >= arm9 /\ sys' = arm9
      /\ UNCHANGED <<queue, arm9, arm7, targets, halts, mode, lcd, frame>>
  BY DEF RunSystem
<1>2. /\ sys \in Nat /\ arm9 \in Nat /\ arm7 \in Nat /\ ARM7Runs /\ queue \in Queues
      /\ Exact(queue) /\ late \subseteq Devices /\ ~frameDone
      /\ queue.mask \subseteq Slots /\ queue.ts \in [Slots -> Nat]
      /\ (~raced => ~wakeup /\ LCD \in queue.mask)
  BY <1>1 DEF IInv, TypeOK, Queues, EarliestIsExact, Exact, Clocks, FrameGoesOn, InFrame
<1>3. CASE Before(arm9, queue.earliest)
  <2>1. at' = EndOfSlice(sleeping, frameDone) /\ late' = {} /\ UNCHANGED walk
    BY <1>3 DEF RunSystem
  <2>2. /\ at' \in {"frontend", "frame", "slice"} /\ (at' = "frontend" => ~running)
        /\ at' = "frame" => sleeping
        /\ at' \in {"frame", "slice"} => running
    BY <1>2, <2>1 DEF EndOfSlice
  <2>3. Ahead'
    <3>1. ASSUME NEW i \in queue.mask PROVE queue.ts[i] > arm9
      <4>1. queue.earliest # Never /\ queue.earliest \in Nat /\ queue.earliest <= queue.ts[i]
        BY <1>2, <3>1, ExactIsNotLater DEF NotLater, Queues
      <4>2. arm9 < queue.earliest
        BY <1>3, <4>1 DEF Before
      <4>3. queue.ts[i] \in Nat
        BY <1>2
      <4> QED  BY <1>2, <4>1, <4>2, <4>3
    <3> QED  BY <1>1, <3>1 DEF Ahead
  <2>4. TypeOK'
    BY <1>1, <1>2, <2>1, <2>2 DEF IInv, TypeOK, Instants, targets, halts, mode, lcd, frame, walk
  <2>5. Clocks' /\ FrameGoesOn' /\ FrameBegins'
    BY <1>1, <1>2, <2>1, <2>2, <2>3
    DEF Clocks, BetweenSlices, Instants, FrameGoesOn, FrameBegins, InFrame, mode, frame
  <2> QED  BY <1>1, <1>2, <2>2, <2>4, <2>5 DEF IInv, EarliestIsExact, Exact, lcd
<1>4. CASE ~Before(arm9, queue.earliest)
  <2>1. at' = "events" /\ todo' = queue.mask /\ pos' = 0 /\ late' = late
    BY <1>4 DEF RunSystem
  <2>2. TypeOK'
    BY <1>1, <1>2, <2>1, SlotAssumption DEF IInv, TypeOK, targets, halts, mode, lcd, frame
  <2>3. AheadOrToCall'
    <3>1. ASSUME NEW i \in queue.mask
          PROVE  i \in todo' /\ i >= pos' /\ arm9 < queue.ts[i] + Lateness(i)
      <4>1. i \in todo' /\ i >= pos'
        BY <1>2, <2>1 DEF Slots
      <4>2. queue.ts[i] \in Nat /\ queue.ts[i] > sys
        BY <1>2 DEF ARM7Runs, Ahead
      <4>3. CASE i \in late
        <5>1. arm9 < sys + SliceLimit
          BY <1>2 DEF ARM7Runs
        <5>2. sys <= queue.ts[i]
          BY <1>2, <4>2
        <5>3. arm9 < queue.ts[i] + SliceLimit
          BY <1>2, <4>2, <5>1, <5>2, Within, Zenon
        <5>4. Lateness(i) = SliceLimit
          BY <4>3, Zenon DEF Lateness
        <5> QED  BY <4>1, <5>3, <5>4, Zenon
      <4>4. CASE i \notin late
        <5>1. arm9 < queue.ts[i] + MaxInstruction
          BY <1>2, <4>4, Zenon DEF ARM7Runs
        <5>2. Lateness(i) = MaxInstruction
          BY <4>4, Zenon DEF Lateness
        <5> QED  BY <4>1, <5>1, <5>2, Zenon
      <4> QED  BY <4>1, <4>3, <4>4
    <3> QED  BY <1>1, <2>1, <3>1 DEF AheadOrToCall, Lateness
  <2>4. Clocks' /\ FrameGoesOn' /\ FrameBegins'
    BY <1>1, <1>2, <2>1, <2>3
    DEF Clocks, EventsRun, Instants, FrameGoesOn, FrameBegins, InFrame, mode, frame
  <2>5. EarliestIsExact'
    BY <1>1, <1>2, <2>1, ExactIsNotLater DEF EarliestIsExact, NotLater
  <2> QED  BY <1>1, <2>2, <2>4, <2>5 DEF IInv, lcd
<1> QED  BY <1>3, <1>4


\* What RunSystem knows of the event it calls, and of those it leaves.
LEMMA CalledIs ==
  ASSUME IInv, NEW i, Call(i)
  PROVE  /\ i \in Slots /\ i \in queue.mask /\ queue.ts[i] \in Nat /\ queue.ts[i] <= sys
         /\ sys < queue.ts[i] + Lateness(i)
         /\ \A j \in queue.mask \ {i} :
              \/ queue.ts[j] > sys
              \/ j \in todo /\ j >= i + 1 /\ sys < queue.ts[j] + Lateness(j)
<1>1. /\ at = "events" /\ i \in Due /\ \A j \in Due : i <= j
  BY DEF Call
<1>2. /\ sys \in Nat /\ queue \in Queues /\ AheadOrToCall /\ pos \in Nat
  BY <1>1 DEF IInv, TypeOK, Queues, Clocks, EventsRun
<1>3. queue.mask \subseteq Slots /\ queue.ts \in [Slots -> Nat] /\ Slots \subseteq Nat
  BY <1>2, SlotAssumption DEF Queues, Slots
<1>4. i \in todo /\ i \in queue.mask /\ i >= pos /\ queue.ts[i] <= sys
  BY <1>1 DEF Due
<1>5. i \in Slots /\ queue.ts[i] \in Nat
  BY <1>3, <1>4
<1>6. sys < queue.ts[i] + Lateness(i)
  <2>1. ~(queue.ts[i] > sys)
    BY <1>2, <1>4, <1>5
  <2> QED  BY <1>2, <1>4, <2>1, Zenon DEF AheadOrToCall
<1>7. ASSUME NEW j \in queue.mask \ {i}
      PROVE  \/ queue.ts[j] > sys
             \/ j \in todo /\ j >= i + 1 /\ sys < queue.ts[j] + Lateness(j)
  <2>1. queue.ts[j] > sys \/ (j \in todo /\ j >= pos /\ sys < queue.ts[j] + Lateness(j))
    BY <1>2, Zenon DEF AheadOrToCall
  <2>2. CASE queue.ts[j] <= sys /\ j \in todo /\ j >= pos /\ sys < queue.ts[j] + Lateness(j)
    <3>1. j \in Due
      BY <2>2 DEF Due
    <3>2. i <= j /\ j \in Nat /\ i \in Nat /\ j # i
      BY <1>1, <1>3, <1>5, <3>1
    <3>3. j >= i + 1
      BY <3>2
    <3> QED  BY <2>2, <3>3, Zenon
  <2>3. queue.ts[j] \in Nat
    BY <1>3
  <2>4. queue.ts[j] > sys \/ queue.ts[j] <= sys
    BY <1>2, <2>3
  <2> QED  BY <2>1, <2>2, <2>4, Zenon
<1> QED  BY <1>4, <1>5, <1>6, <1>7, Zenon

\* A callback that leaves every event it touches ahead.
LEMMA AfterCall ==
  ASSUME IInv, NEW i, Call(i), queue' \in Queues, NotLater(queue'),
         \A j \in queue'.mask :
           queue'.ts[j] > sys \/ (j \in queue.mask \ {i} /\ queue'.ts[j] = queue.ts[j])
  PROVE  Clocks' /\ EarliestIsExact' /\ at' = "events" /\ pos' \in 0 .. EventMax
<1>1. /\ at = "events" /\ pos' = i + 1
      /\ UNCHANGED <<times, targets, halts, running, frameTarget, at, todo, late>>
  BY DEF Call
<1>2. /\ sys \in Nat /\ sys = arm9 /\ arm9 <= arm7
  BY <1>1 DEF IInv, TypeOK, Clocks, EventsRun
<1>3. pos' \in 0 .. EventMax
  <2>1. i \in Slots
    BY CalledIs
  <2> QED  BY <1>1, <2>1, SlotAssumption DEF Slots
<1>4. AheadOrToCall'
  <2>1. ASSUME NEW j \in queue'.mask
        PROVE  queue'.ts[j] > sys \/ (j \in todo /\ j >= pos' /\ sys < queue'.ts[j] + Lateness(j))
    <3>1. CASE queue'.ts[j] > sys
      BY <3>1, Zenon
    <3>2. CASE j \in queue.mask \ {i} /\ queue'.ts[j] = queue.ts[j]
      <4>1. \/ queue.ts[j] > sys
            \/ j \in todo /\ j >= i + 1 /\ sys < queue.ts[j] + Lateness(j)
        BY <3>2, CalledIs, Zenon
      <4> QED  BY <1>1, <3>2, <4>1, Zenon
    <3> QED  BY <2>1, <3>1, <3>2, Zenon
  <2>2. sys' = sys /\ todo' = todo /\ late' = late
    BY <1>1 DEF times
  <2>3. \A j : Lateness(j)' = Lateness(j)
    BY <2>2 DEF Lateness
  <2> QED  BY <2>1, <2>2, <2>3 DEF AheadOrToCall
<1>5. Clocks'
  BY <1>1, <1>2, <1>4 DEF Clocks, EventsRun, Instants, times
<1> QED  BY <1>1, <1>3, <1>5 DEF EarliestIsExact, NotLater

\* A callback that does not finish the frame.
LEMMA CallbackKeeps ==
  ASSUME IInv, NEW i, Call(i), MayInterrupt, queue' \in Queues, NotLater(queue'),
         \A j \in queue'.mask :
           queue'.ts[j] > sys \/ (j \in queue.mask \ {i} /\ queue'.ts[j] = queue.ts[j]),
         LCD \in queue.mask => LCD \in queue'.mask,
         LCD \notin queue'.mask => queue'.ts[LCD] = queue.ts[LCD],
         frameDone' = frameDone, line' \in 0 .. Lines,
         stage' \in {"hblank", "scanline", "finish"}, stage' # "finish" => line' < Lines
  PROVE  IInv'
<1>1. /\ at = "events" /\ UNCHANGED <<times, targets, halts, running, frameTarget, at, todo, late>>
  BY DEF Call
<1>2. Clocks' /\ EarliestIsExact' /\ pos' \in 0 .. EventMax
  BY AfterCall
<1>3. /\ sleeping' \in BOOLEAN /\ wakeup' \in BOOLEAN /\ raced' \in BOOLEAN
      /\ ~raced' => ~raced
      /\ ~raced' /\ (sleeping' \/ wakeup') => LCD \in queue.mask
      /\ ~raced' => ~wakeup'
  BY <1>1, Interrupting
<1>4. TypeOK'
  BY <1>1, <1>2, <1>3 DEF IInv, TypeOK, Queues, times, targets, halts
<1>5. FrameGoesOn'
  BY <1>1, <1>3 DEF IInv, FrameGoesOn, InFrame
<1>6. FrameBegins'
  <2>1. ~sleeping' /\ ~wakeup' => ~sleeping /\ ~wakeup
    BY DEF MayInterrupt, Quiet, Wakes
  <2> QED  BY <1>1, <2>1 DEF IInv, FrameBegins, times
<1> QED  BY <1>2, <1>4, <1>5, <1>6 DEF IInv

\* A callback that schedules its own event anew, a period later.
LEMMA OwnAgain ==
  ASSUME IInv, NEW i \in {LCD, SPU, RTC}, Call(i), NEW n \in Nat, n >= MaxInstruction,
         queue' = Again(Taken(queue, i), i, n)
  PROVE  /\ queue' \in Queues /\ NotLater(queue')
         /\ \A j \in queue'.mask :
              queue'.ts[j] > sys \/ (j \in queue.mask \ {i} /\ queue'.ts[j] = queue.ts[j])
         /\ queue.mask \subseteq queue'.mask
         /\ \A j \in Slots \ {i} : queue'.ts[j] = queue.ts[j]
<1> USE Numbers
<1>1. queue \in Queues /\ NotLater(queue) /\ sys \in Nat /\ late \subseteq Devices
  BY DEF Call, IInv, TypeOK, Queues, EarliestIsExact, NotLater
<1> DEFINE q == Taken(queue, i)
<1>2. /\ q \in Queues /\ NotLater(q) /\ q.mask = queue.mask \ {i} /\ q.ts = queue.ts
  BY <1>1, TakenIs
<1>3. HasAgain(q, i, n, queue')
  BY <1>2, AgainIs
<1> HIDE DEF q
<1>4. /\ queue' \in Queues /\ NotLater(queue') /\ queue'.mask = queue.mask \cup {i}
      /\ \A j \in Slots : j # i => queue'.ts[j] = queue.ts[j]
      /\ queue'.ts[i] = queue.ts[i] + n
  BY <1>2, <1>3 DEF HasAgain
<1>5. i \notin late
  BY <1>1
<1>6. queue.ts[i] \in Nat /\ sys < queue.ts[i] + MaxInstruction
  BY <1>5, CalledIs DEF Lateness
<1>7. queue'.ts[i] > sys
  BY <1>1, <1>4, <1>6
<1>8. queue.mask \subseteq Slots
  BY <1>1 DEF Queues
<1> QED  BY <1>4, <1>7, <1>8

\* The callbacks of the LCD, the mixer, the RTC and the devices.
LEMMA DispatchSteps == ASSUME IInv, Dispatch PROVE IInv'
<1> USE Numbers
<1>1. CASE StartHBlank
  <2>1. /\ Call(LCD) /\ stage = "hblank" /\ MayInterrupt /\ frameDone' = frameDone
        /\ queue' = Again(Taken(queue, LCD), LCD, ScanlineCycles)
        /\ stage' = (IF line = Lines - 1 THEN "finish" ELSE "scanline") /\ line' = line + 1
    BY <1>1 DEF StartHBlank
  <2>2. line \in 0 .. Lines /\ line < Lines
    BY <2>1 DEF IInv, TypeOK
  <2>3. /\ line' \in 0 .. Lines /\ stage' \in {"hblank", "scanline", "finish"}
        /\ stage' # "finish" => line' < Lines
    BY <2>1, <2>2
  <2>4. LCD \in queue.mask
    BY <2>1, CalledIs
  <2> QED  BY <2>1, <2>3, <2>4, OwnAgain, CallbackKeeps
<1>2. CASE StartScanline
  <2>1. /\ Call(LCD) /\ stage = "scanline" /\ MayInterrupt /\ frameDone' = frameDone
        /\ queue' = Again(Taken(queue, LCD), LCD, HBlankCycles)
        /\ stage' = "hblank" /\ line' = line
    BY <1>2 DEF StartScanline
  <2>2. line' \in 0 .. Lines /\ line' < Lines
    BY <2>1 DEF IInv, TypeOK
  <2>3. LCD \in queue.mask
    BY <2>1, CalledIs
  <2> QED  BY <2>1, <2>2, <2>3, OwnAgain, CallbackKeeps
<1>3. CASE \E i \in {SPU, RTC} : Periodic(i)
  <2>1. PICK i \in {SPU, RTC} : Periodic(i)
    BY <1>3
  <2>2. /\ Call(i) /\ MayInterrupt /\ frameDone' = frameDone /\ line' = line /\ stage' = stage
        /\ queue' = Again(Taken(queue, i), i, Period[i])
    BY <2>1 DEF Periodic, lcd
  <2>3. /\ line' \in 0 .. Lines /\ stage' \in {"hblank", "scanline", "finish"}
        /\ stage' # "finish" => line' < Lines
    BY <2>2 DEF IInv, TypeOK
  <2>4. Period[i] \in Nat /\ Period[i] >= MaxInstruction /\ i # LCD
    BY <2>1
  <2>5. /\ queue' \in Queues /\ NotLater(queue')
        /\ \A j \in queue'.mask :
             queue'.ts[j] > sys \/ (j \in queue.mask \ {i} /\ queue'.ts[j] = queue.ts[j])
        /\ queue.mask \subseteq queue'.mask
        /\ \A j \in Slots \ {i} : queue'.ts[j] = queue.ts[j]
    BY <2>2, <2>4, OwnAgain
  <2> QED  BY <2>2, <2>3, <2>4, <2>5, CallbackKeeps
<1>4. CASE \E i \in Devices : Device(i)
  <2>1. PICK i \in Devices : Device(i)
    BY <1>4
  <2>2. PICK a \in Accesses(Taken(queue, i), arm7) : queue' = a.queue
    BY <2>1 DEF Device
  <2>3. Call(i) /\ MayInterrupt /\ frameDone' = frameDone /\ line' = line /\ stage' = stage
    BY <2>1 DEF Device, lcd
  <2>4. /\ queue \in Queues /\ NotLater(queue) /\ sys \in Nat /\ arm7 \in Nat /\ arm7 >= sys
        /\ line' \in 0 .. Lines /\ stage' \in {"hblank", "scanline", "finish"}
        /\ stage' # "finish" => line' < Lines
    BY <2>3 DEF Call, IInv, TypeOK, Queues, EarliestIsExact, NotLater, Clocks, EventsRun
  <2> DEFINE q == Taken(queue, i)
  <2>5. /\ q \in Queues /\ NotLater(q) /\ q.mask = queue.mask \ {i} /\ q.ts = queue.ts
    BY <2>4, TakenIs
  <2>6. HasAccess(q, arm7, a)
    BY <2>2, <2>4, <2>5, AccessIs
  <2> HIDE DEF q
  <2>7. /\ queue' \in Queues /\ NotLater(queue')
        /\ (LCD \in queue'.mask <=> LCD \in q.mask) /\ queue'.ts[LCD] = q.ts[LCD]
    BY <2>2, <2>5, <2>6 DEF HasAccess
  <2>8. LCD \in queue.mask => LCD \in queue'.mask
    BY <2>5, <2>7
  <2>9. ASSUME NEW j \in queue'.mask
        PROVE  queue'.ts[j] > sys \/ (j \in queue.mask \ {i} /\ queue'.ts[j] = queue.ts[j])
    <3>1. (j \in q.mask /\ queue'.ts[j] = q.ts[j]) \/ queue'.ts[j] > arm7
      BY <2>2, <2>6, Zenon DEF HasAccess
    <3>2. queue'.ts[j] \in Nat
      BY <2>7 DEF Queues
    <3> QED  BY <2>4, <2>5, <3>1, <3>2
  <2> QED  BY <2>3, <2>4, <2>5, <2>7, <2>8, <2>9, CallbackKeeps
<1>5. CASE FinishFrame
  <2>1. /\ Call(LCD) /\ queue' = Taken(queue, LCD) /\ frameDone' = TRUE
        /\ raced' = (raced \/ sleeping) /\ UNCHANGED <<sleeping, wakeup, lcd>>
    BY <1>5 DEF FinishFrame
  <2>2. /\ at = "events" /\ UNCHANGED <<times, targets, halts, running, frameTarget, at, todo, late>>
    BY <2>1 DEF Call
  <2>3. queue \in Queues /\ NotLater(queue) /\ late \subseteq Devices /\ sys \in Nat
    BY <2>2 DEF IInv, TypeOK, Queues, EarliestIsExact, NotLater
  <2>4. /\ queue' \in Queues /\ NotLater(queue') /\ queue'.mask = queue.mask \ {LCD}
        /\ queue'.ts = queue.ts
    BY <2>1, <2>3, TakenIs
  <2>5. Clocks' /\ EarliestIsExact' /\ pos' \in 0 .. EventMax
    BY <2>1, <2>4, AfterCall
  <2>6. LCD \notin late
    BY <2>3
  <2>7. sys < queue.ts[LCD] + MaxInstruction
    BY <2>1, <2>6, CalledIs DEF Lateness
  <2>8. TypeOK'
    BY <2>1, <2>2, <2>4, <2>5 DEF IInv, TypeOK, Queues, times, targets, halts, lcd
  <2>9. FrameGoesOn' /\ FrameBegins'
    BY <2>1, <2>2, <2>4, <2>7 DEF IInv, TypeOK, FrameGoesOn, FrameBegins, InFrame, times
  <2> QED  BY <2>1, <2>5, <2>8, <2>9 DEF IInv, lcd
<1> QED  BY <1>1, <1>2, <1>3, <1>4, <1>5 DEF Dispatch

\* The walk over the snapshot ends.
LEMMA EndEventsStep == ASSUME IInv, EndEvents PROVE IInv'
<1> USE Numbers
<1>1. /\ at = "events" /\ Due = {} /\ queue' = Refreshed(queue)
      /\ at' = EndOfSlice(sleeping, frameDone) /\ todo' = {} /\ pos' = 0 /\ late' = {}
      /\ UNCHANGED <<times, targets, halts, mode, lcd, frame>>
  BY DEF EndEvents
<1>2. /\ sys \in Nat /\ queue \in Queues /\ EventsRun /\ (~raced => ~wakeup)
  BY <1>1 DEF IInv, TypeOK, Queues, Clocks, FrameGoesOn, InFrame
<1>3. /\ queue' \in Queues /\ Exact(queue') /\ queue'.mask = queue.mask /\ queue'.ts = queue.ts
  BY <1>1, <1>2, RefreshedIs
<1>4. Ahead'
  <2>1. ASSUME NEW j \in queue.mask PROVE queue.ts[j] > sys
    <3>1. queue.ts[j] \in Nat
      BY <1>2 DEF Queues
    <3>2. queue.ts[j] > sys \/ (j \in todo /\ j >= pos)
      BY <1>2, Zenon DEF EventsRun, AheadOrToCall
    <3>3. ~(j \in todo /\ j >= pos /\ queue.ts[j] <= sys)
      BY <1>1 DEF Due
    <3> QED  BY <1>2, <3>1, <3>2, <3>3
  <2> QED  BY <1>1, <1>3, <2>1 DEF Ahead, times
<1>5. /\ at' \in {"frontend", "frame", "slice"} /\ (at' = "frontend" => ~running \/ frameDone)
      /\ at' = "frame" => sleeping
      /\ at' \in {"frame", "slice"} => running /\ ~frameDone
  BY <1>1 DEF EndOfSlice
<1>6. TypeOK'
  BY <1>1, <1>3, <1>5, SlotAssumption
  DEF IInv, TypeOK, Queues, Instants, times, targets, halts, mode, lcd, frame
<1>7. Clocks'
  BY <1>1, <1>2, <1>4, <1>5 DEF Clocks, EventsRun, BetweenSlices, Instants, times
<1>8. FrameGoesOn' /\ FrameBegins'
  BY <1>1, <1>2, <1>3, <1>5 DEF IInv, FrameGoesOn, FrameBegins, InFrame, times, mode, frame
<1> QED  BY <1>1, <1>3, <1>5, <1>6, <1>7, <1>8 DEF IInv, EarliestIsExact, Exact, lcd

\* A pass of sleep mode goes no further than the first deadline it looks at.
LEMMA SleepTargetIs ==
  ASSUME IInv, at = "asleep"
  PROVE  /\ SleepTarget \in Nat /\ SleepTarget > sys /\ SleepTarget <= frameTarget
         /\ \A i \in queue.mask \cap (PoweredAsleep \cup {SPU, RTC}) : SleepTarget <= queue.ts[i]
<1>1. /\ sys \in Nat /\ frameTarget \in Nat /\ sys < frameTarget /\ Ahead /\ queue \in Queues
  BY DEF IInv, TypeOK, Queues, Clocks, BetweenSlices, Instants
<1>2. queue.mask \in SUBSET Slots /\ queue.ts \in [Slots -> Nat]
  BY <1>1 DEF Queues
<1> DEFINE looked == queue.mask \cap (PoweredAsleep \cup {SPU, RTC})
<1>3. looked \in SUBSET Slots /\ looked \subseteq queue.mask
  BY <1>2
<1> HIDE DEF looked
<1>4. NextTargetSleep = Earliest(looked, queue.ts)
  BY DEF NextTargetSleep, looked
<1>5. CASE looked = {}
  <2>1. NextTargetSleep = Never
    BY <1>2, <1>3, <1>4, <1>5, EarliestIs
  <2>2. SleepTarget = frameTarget
    BY <2>1, <1>1, NeverAssumption DEF SleepTarget, Sooner, Before
  <2> QED  BY <1>1, <1>5, <2>2 DEF looked
<1>6. CASE looked # {}
  <2>1. /\ NextTargetSleep \in Nat
        /\ \E i \in looked : queue.ts[i] = NextTargetSleep
        /\ \A i \in looked : NextTargetSleep <= queue.ts[i]
    BY <1>2, <1>3, <1>4, <1>6, EarliestIs
  <2>2. NextTargetSleep > sys
    BY <1>1, <1>3, <2>1 DEF Ahead
  <2>3. SleepTarget = IF frameTarget < NextTargetSleep THEN frameTarget ELSE NextTargetSleep
    BY <2>1, NeverAssumption DEF SleepTarget, Sooner, Before
  <2>4. SleepTarget \in Nat /\ SleepTarget > sys /\ SleepTarget <= frameTarget
        /\ SleepTarget <= NextTargetSleep
    BY <1>1, <2>1, <2>2, <2>3
  <2>5. ASSUME NEW i \in looked PROVE SleepTarget <= queue.ts[i]
    <3>1. queue.ts[i] \in Nat /\ NextTargetSleep <= queue.ts[i]
      BY <1>2, <1>3, <2>1
    <3> QED  BY <2>1, <2>4, <3>1
  <2> QED  BY <2>4, <2>5 DEF looked
<1> QED  BY <1>5, <1>6

\* A pass of sleep mode.
LEMMA SleepSteps == ASSUME IInv, SleepPass PROVE IInv'
<1> USE Numbers
<1>1. /\ at = "asleep" /\ queue' = AfterSleepPass
      /\ sys' = SleepTarget /\ arm9' = SleepTarget /\ arm7' = SleepTarget
      /\ UNCHANGED <<targets, halts, running, lcd, frameTarget, walk, late>>
      /\ MayInterrupt
  BY DEF SleepPass, MayInterrupt
<1>2. /\ sys \in Nat /\ Ahead /\ queue \in Queues /\ late = {} /\ ~frameDone /\ running /\ sleeping
      /\ frameDone \in BOOLEAN
  BY <1>1 DEF IInv, TypeOK, Queues, Clocks, BetweenSlices, FrameGoesOn, FrameBegins, Instants
<1>3. queue.mask \subseteq Slots /\ queue.ts \in [Slots -> Nat]
  BY <1>2 DEF Queues
<1>4. /\ SleepTarget \in Nat /\ SleepTarget > sys /\ SleepTarget <= frameTarget
      /\ RTC \in queue.mask => SleepTarget <= queue.ts[RTC]
  BY <1>1, SleepTargetIs
<1> DEFINE mask == queue.mask \ (CalledAsleep \ {RTC})
           add(i) == CASE i \in Reached \ CalledAsleep -> SleepTarget - sys
                       [] i \in Reached \cap {RTC}     -> Period[RTC]
                       [] OTHER                        -> 0
           ts == [i \in Slots |-> queue.ts[i] + add(i)]
<1>5. queue' = [mask |-> mask, ts |-> ts, earliest |-> Earliest(mask, ts)]
  BY <1>1 DEF AfterSleepPass
<1>6. mask \in SUBSET Slots /\ mask \subseteq queue.mask
  BY <1>3
<1>7. ASSUME NEW i \in Slots PROVE add(i) \in Nat
  BY <1>2, <1>4 DEF CalledAsleep
<1>8. ts \in [Slots -> Nat] /\ \A i \in Slots : ts[i] = queue.ts[i] + add(i)
  <2> HIDE DEF add
  <2> QED  BY <1>3, <1>7
<1>9. \A i \in mask : ts[i] > SleepTarget
  <2>1. ASSUME NEW i \in mask PROVE queue.ts[i] + add(i) > SleepTarget
    <3>1. queue.ts[i] \in Nat /\ queue.ts[i] > sys /\ i \in queue.mask /\ i \in Slots
      BY <1>2, <1>3, <1>6 DEF Ahead
    <3>2. CASE i \notin Reached
      <4>1. queue.ts[i] > SleepTarget /\ add(i) = 0
        BY <1>4, <3>1, <3>2 DEF Reached
      <4> QED  BY <1>4, <3>1, <4>1
    <3>3. CASE i \in Reached /\ i = RTC
      <4>1. add(i) = Period[RTC] /\ SleepTarget <= queue.ts[i]
        BY <1>4, <3>1, <3>3 DEF CalledAsleep
      <4> QED  BY <1>4, <3>1, <4>1
    <3>4. CASE i \in Reached /\ i # RTC
      <4>1. add(i) = SleepTarget - sys
        BY <3>4
      <4> QED  BY <1>2, <1>4, <3>1, <4>1
    <3> QED  BY <3>2, <3>3, <3>4
  <2> HIDE DEF add, mask, ts
  <2> QED  BY <1>6, <1>8, <2>1
<1>10. LCD \in queue.mask => LCD \in mask
  BY SlotAssumption DEF CalledAsleep
<1> HIDE DEF mask, add, ts
<1>11. queue' \in Queues /\ Exact(queue') /\ queue'.mask = mask /\ queue'.ts = ts
  <2>1. Earliest(mask, ts) \in Nat \cup {Never}
    BY <1>6, <1>8, EarliestIs
  <2>2. queue'.mask = mask /\ queue'.ts = ts /\ queue'.earliest = Earliest(mask, ts)
    BY <1>5
  <2>3. IsEarliest(Earliest(mask, ts), queue')
    BY <1>6, <1>8, <2>2, EarliestIs DEF IsEarliest
  <2> QED  BY <1>5, <1>6, <1>8, <2>1, <2>2, <2>3 DEF Queues, Exact
<1>12. /\ frameDone' \in BOOLEAN /\ at' \in Instants /\ at' # "slice"
       /\ at' # "frontend" => SleepTarget < frameTarget /\ ~frameDone'
       /\ at' = "asleep" => sleeping'
  <2>1. CASE SleepTarget >= frameTarget
    <3>1. frameDone' = TRUE /\ at' = "frontend"
      BY <2>1 DEF SleepPass
    <3> QED  BY <3>1 DEF Instants
  <2>2. CASE ~(SleepTarget >= frameTarget)
    <3>1. frameDone' = frameDone /\ at' = IF sleeping' THEN "asleep" ELSE "frame"
      BY <2>2 DEF SleepPass
    <3>2. SleepTarget < frameTarget
      BY <1>4, <2>2 DEF IInv, TypeOK
    <3> QED  BY <1>2, <3>1, <3>2 DEF Instants
  <2> QED  BY <2>1, <2>2
<1>13. TypeOK'
  <2>1. sleeping' \in BOOLEAN /\ wakeup' \in BOOLEAN /\ raced' \in BOOLEAN
    BY <1>1, Interrupting
  <2> QED
    BY <1>1, <1>4, <1>11, <1>12, <2>1 DEF IInv, TypeOK, Queues, targets, halts, lcd, walk
<1>14. Clocks'
  BY <1>1, <1>2, <1>4, <1>9, <1>11, <1>12 DEF Clocks, BetweenSlices, Ahead, Instants
<1>15. FrameGoesOn' /\ FrameBegins'
  <2>1. ~raced' /\ (sleeping' \/ wakeup') => LCD \in queue.mask
    BY <1>1, Interrupting
  <2>2. sleeping' \/ wakeup'
    BY <1>1, <1>2 DEF MayInterrupt, Quiet, Wakes
  <2> QED
    BY <1>1, <1>2, <1>10, <1>11, <1>12, <2>1, <2>2
    DEF FrameGoesOn, FrameBegins, InFrame, Instants
<1>16. EarliestIsExact' /\ (stage' # "finish" => line' < Lines)
  BY <1>1, <1>11, <1>12 DEF EarliestIsExact, Exact, Instants, IInv, lcd
<1> QED  BY <1>13, <1>14, <1>15, <1>16 DEF IInv

\* No step changes what is left out of vars.
LEMMA Stuttering == ASSUME IInv, UNCHANGED vars PROVE IInv'
<1>1. /\ UNCHANGED <<queue, sys, arm9, arm7, target9, target7, halted9, halted7>>
      /\ UNCHANGED <<sleeping, wakeup, raced, running, line, stage, frameDone, frameTarget>>
      /\ UNCHANGED <<at, todo, pos, late>>
  BY DEF vars, times, targets, halts, mode, lcd, frame, walk
<1>2. TypeOK'
  BY <1>1 DEF IInv, TypeOK
<1>3. Clocks'
  BY <1>1
  DEF IInv, Clocks, BetweenSlices, ARM9Runs, ARM7Runs, EventsRun, Ahead, AheadOrToCall, Lateness
<1> QED
  BY <1>1, <1>2, <1>3 DEF IInv, EarliestIsExact, FrameGoesOn, FrameBegins

\* Every step keeps the invariant.
LEMMA Inductive == ASSUME IInv, [Next]_vars PROVE IInv'
<1>1. CASE Next
  <2>1. CASE Between \/ StartFrame \/ BeginSleep
    BY <2>1, FrontendSteps
  <2>2. CASE BeginSlice \/ ARM9Step
    BY <2>2, ARM9Steps
  <2>3. CASE ARM7Step
    BY <2>3, ARM7Steps
  <2>4. CASE RunSystem
    BY <2>4, RunSystemStep
  <2>5. CASE Dispatch
    BY <2>5, DispatchSteps
  <2>6. CASE EndEvents
    BY <2>6, EndEventsStep
  <2>7. CASE SleepPass
    BY <2>7, SleepSteps
  <2> QED  BY <1>1, <2>1, <2>2, <2>3, <2>4, <2>5, <2>6, <2>7 DEF Next
<1>2. CASE UNCHANGED vars
  BY <1>2, Stuttering
<1> QED  BY <1>1, <1>2

\* It holds throughout.
THEOREM InvariantHolds == Spec => []IInv
<1>1. Init => IInv
  BY Initially
<1>2. IInv /\ [Next]_vars => IInv'
  BY Inductive
<1> QED  BY <1>1, <1>2, PTL DEF Spec

-----------------------------------------------------------------------------
\* What follows from it.

\* Every variable has its type.
THEOREM SchedulerTypes == Spec => []TypeOK
<1>1. IInv => TypeOK
  BY DEF IInv
<1> QED  BY <1>1, InvariantHolds, PTL

\* Whoever reads the cached deadline reads that of the earliest event, however
\* CPUs and callbacks have scheduled, cancelled and restarted events.
THEOREM DeadlineExact == Spec => []EarliestIsExact
<1>1. IInv => EarliestIsExact
  BY DEF IInv
<1> QED  BY <1>1, InvariantHolds, PTL

\* No event is due between two slices or passes of sleep mode.
THEOREM NoneMissed == Spec => []NothingOverdue
<1>1. IInv => NothingOverdue
  BY DEF IInv, Clocks, BetweenSlices, Ahead, NothingOverdue
<1> QED  BY <1>1, InvariantHolds, PTL

\* The loop over slices keeps the LCD event that ends it, but for the two
\* races with sleep mode.
THEOREM FrameEnds == Spec => []FrameCanEnd
<1>1. IInv => FrameCanEnd
  BY DEF IInv, FrameGoesOn, InFrame, FrameCanEnd
<1> QED  BY <1>1, InvariantHolds, PTL

\* RunSystem and RunSystemSleep call no event early, and none later than an
\* instruction, or a slice if the ARM7 scheduled it within it.
THEOREM OnTime == Spec => CalledOnTime
<1> USE Numbers
<1> DEFINE Good == \A i \in Called :
                     /\ i \in queue.mask /\ queue.ts[i] <= sys'
                     /\ sys' < queue.ts[i] + IF i \in late THEN SliceLimit ELSE MaxInstruction
<1>1. ASSUME IInv, [Next]_vars PROVE [Good]_vars
  <2>1. CASE at = "asleep" /\ SleepPass
    <3>1. sys' = SleepTarget /\ Called = CalledAsleep
      BY <2>1 DEF SleepPass, Called
    <3>2. /\ SleepTarget \in Nat
          /\ \A i \in queue.mask \cap (PoweredAsleep \cup {SPU, RTC}) : SleepTarget <= queue.ts[i]
      BY <1>1, <2>1, SleepTargetIs
    <3>3. queue.mask \subseteq Slots /\ queue.ts \in [Slots -> Nat]
      BY <1>1 DEF IInv, TypeOK
    <3>4. ASSUME NEW i \in CalledAsleep
          PROVE  /\ i \in queue.mask /\ queue.ts[i] <= SleepTarget
                 /\ SleepTarget < queue.ts[i] + IF i \in late THEN SliceLimit ELSE MaxInstruction
      <4>1. i \in queue.mask /\ queue.ts[i] <= SleepTarget /\ SleepTarget <= queue.ts[i]
        BY <3>2, <3>4 DEF CalledAsleep, Reached
      <4>2. queue.ts[i] \in Nat
        BY <3>3, <4>1
      <4> QED  BY <3>2, <4>1, <4>2
    <3> QED  BY <3>1, <3>4
  <2>2. ASSUME NEW i, Call(i) PROVE Good
    <3>1. at = "events" /\ at' = "events" /\ pos' = i + 1 /\ sys' = sys
      BY <2>2 DEF Call, times
    <3>2. /\ i \in Slots /\ i \in queue.mask /\ queue.ts[i] \in Nat /\ queue.ts[i] <= sys
          /\ sys < queue.ts[i] + Lateness(i)
      BY <1>1, <2>2, CalledIs
    <3>3. Called = {i}
      <4>1. i \in Nat
        BY <3>2, SlotAssumption DEF Slots
      <4>2. pos' - 1 = i
        BY <3>1, <4>1
      <4> QED  BY <3>1, <4>2 DEF Called
    <3>4. sys < queue.ts[i] + IF i \in late THEN SliceLimit ELSE MaxInstruction
      BY <3>2, Zenon DEF Lateness
    <3> QED  BY <3>1, <3>2, <3>3, <3>4
  <2>3. CASE Dispatch
    BY <2>2, <2>3
    DEF Dispatch, StartHBlank, StartScanline, FinishFrame, Periodic, Device
  <2>4. CASE Next /\ ~SleepPass /\ ~Dispatch
    <3>1. at # "asleep"
      BY <2>4
      DEF Next, Between, RunFrame, InputIRQ, Eject, StartFrame, BeginSlice, ARM9Step, Halt9, Halted9,
          Interrupted9, Done9, Instruction9, Transfer9, GXStallSlice, ARM7Step, Halt7,
          EnterSleepMode, Stop, Halted7, Interrupted7, ExecuteAgain7, TimerIRQ7, Instruction7,
          Transfer7, RunSystem, EndEvents, BeginSleep
    <3>2. ~(at = "events" /\ at' = "events")
      BY <2>4
      DEF Next, Between, RunFrame, InputIRQ, Eject, StartFrame, BeginSlice, ARM9Step, Halt9, Halted9,
          Interrupted9, Done9, Instruction9, Transfer9, GXStallSlice, ARM7Step, Halt7,
          EnterSleepMode, Stop, Halted7, Interrupted7, ExecuteAgain7, TimerIRQ7, Instruction7,
          Transfer7, RunSystem, EndEvents, EndOfSlice, BeginSleep
    <3> QED  BY <3>1, <3>2 DEF Called
  <2>5. CASE Next
    <3>1. SleepPass => at = "asleep"
      BY DEF SleepPass
    <3> QED  BY <2>1, <2>3, <2>4, <2>5, <3>1
  <2> QED  BY <1>1, <2>5
<1>2. [][Good]_vars => CalledOnTime
  BY PTL DEF CalledOnTime
<1> HIDE DEF Good
<1>3. Spec => [][Good]_vars
  BY <1>1, InvariantHolds, PTL DEF Spec
<1> QED  BY <1>2, <1>3

\* Time does not run back, awake, halted, stalled or asleep.
THEOREM TimeRunsOn == Spec => TimeAdvances
<1> USE Numbers
<1> DEFINE Good == sys' >= sys /\ arm9' >= arm9
<1>1. ASSUME IInv, [Next]_vars PROVE [Good]_vars
  <2>1. sys \in Nat /\ arm9 \in Nat
    BY <1>1 DEF IInv, TypeOK
  <2>2. CASE UNCHANGED <<sys, arm9>>
    BY <2>1, <2>2
  <2>3. CASE SleepPass
    <3>1. at = "asleep" /\ sys' = SleepTarget /\ arm9' = SleepTarget
      BY <2>3 DEF SleepPass
    <3>2. arm9 = sys /\ SleepTarget \in Nat /\ SleepTarget > sys
      BY <1>1, <3>1, SleepTargetIs DEF IInv, Clocks, BetweenSlices, Instants
    <3> QED  BY <2>1, <3>1, <3>2
  <2>4. CASE RunSystem
    <3>1. sys' = arm9 /\ arm9' = arm9 /\ sys <= arm9
      BY <1>1, <2>4 DEF RunSystem, IInv, Clocks, ARM7Runs
    <3> QED  BY <2>1, <3>1
  <2>5. CASE ARM9Step
    <3>1. /\ at = "arm9" => ARM9Runs /\ target9 \in Nat
          /\ at = "slice" => arm9 = sys
      BY <1>1 DEF IInv, TypeOK, Clocks, BetweenSlices, Instants
    <3>2. CASE \E c \in 0 .. SliceLimit : GXStallSlice(c)
      <4>1. PICK c \in 0 .. SliceLimit : GXStallSlice(c)
        BY <3>2
      <4>2. at = "slice" /\ arm9' = Sooner(arm9 + c, NextTarget) /\ sys' = sys
        BY <4>1 DEF GXStallSlice, ARM9Stops
      <4>3. NextTarget \in Nat /\ sys < NextTarget
        BY <1>1, <4>2, NextTargetIs
      <4>4. arm9' = IF arm9 + c < NextTarget THEN arm9 + c ELSE NextTarget
        BY <4>2, <4>3, NeverAssumption DEF Sooner, Before
      <4> QED  BY <2>1, <3>1, <4>2, <4>3, <4>4
    <3>3. CASE \E c \in 0 .. SliceLimit : Transfer9(c)
      BY <2>1, <3>3 DEF Transfer9, ARM9Stops
    <3>4. CASE \E c \in 1 .. MaxInstruction : Instruction9(c)
      BY <2>1, <3>4 DEF Instruction9
    <3>5. CASE Halt9 \/ Halted9 \/ Interrupted9 \/ Done9
      BY <2>1, <3>1, <3>5
      DEF Halt9, Halted9, Interrupted9, Done9, ARM9Stops, ARM9Runs, times
    <3> QED  BY <2>5, <3>2, <3>3, <3>4, <3>5 DEF ARM9Step
  <2>6. CASE Between \/ StartFrame \/ BeginSlice \/ Dispatch \/ EndEvents \/ BeginSleep
    <3>1. UNCHANGED times
      BY <2>6
      DEF Between, RunFrame, InputIRQ, Eject, StartFrame, BeginSlice, Dispatch, StartHBlank,
          StartScanline, FinishFrame, Periodic, Device, Call, EndEvents, BeginSleep
    <3> QED  BY <2>2, <3>1 DEF times
  <2>7. CASE ARM7Step
    <3>1. UNCHANGED <<sys, arm9>>
      BY <2>7
      DEF ARM7Step, Halt7, EnterSleepMode, Stop, Halted7, Interrupted7, ExecuteAgain7, TimerIRQ7,
          Instruction7, Transfer7, times
    <3> QED  BY <2>2, <3>1
  <2> QED
    BY <1>1, <2>3, <2>4, <2>5, <2>6, <2>7 DEF Next
<1>2. [][Good]_vars => TimeAdvances
  BY PTL DEF TimeAdvances
<1> HIDE DEF Good
<1>3. Spec => [][Good]_vars
  BY <1>1, InvariantHolds, PTL DEF Spec
<1> QED  BY <1>2, <1>3
====
