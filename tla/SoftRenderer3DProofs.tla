---- MODULE SoftRenderer3DProofs ----
(***************************************************************************)
(* Proofs about SoftRenderer3D, for any number of lines, scenes and VCOUNT *)
(* writes.  A submitted job is a token that is in exactly one place: the   *)
(* start semaphore, the render thread or the done semaphore.  Everything   *)
(* else follows from where it is.                                          *)
(***************************************************************************)
EXTENDS SoftRenderer3D, TLAPS

Drawing == {"same", "clear", "draw", "finished"}

\* The job, submitted and not yet finished by FinishRendering, is in one place;
\* a thread that is told to end finds a permit without a job.
Token ==
  IF sema.pending
  THEN \/ sema.start = 1 /\ sema.done = 0 /\ worker = "idle"
       \/ sema.start = 0 /\ sema.done = 0 /\ worker \in Drawing
       \/ sema.start = 0 /\ sema.done = 1 /\ worker = "idle"
  ELSE /\ sema.done = 0
       /\ \/ sema.start = 0 /\ worker \in {"idle", "none"}
          \/ sema.start = 1 /\ worker = "idle" /\ at = "joining"

\* A thread runs while the renderer is threaded; only its stop is not at once.
Alive ==
  /\ running = threaded
  /\ at = "joining" => ~running /\ ~sema.pending /\ (worker = "none" \/ sema.start = 1)

\* The permits of a job are those of the rows it has finished.
Permits ==
  /\ sema.scan + taken <= VisibleLines
  /\ (sema.start = 1 /\ sema.pending => sema.scan = 0 /\ taken = 0)
  /\ worker \in {"same", "clear"} => sema.scan = 0 /\ taken = 0
  /\ worker = "draw" => sema.scan + taken = row /\ row < VisibleLines
  /\ \A y \in Rows : (worker = "draw" => y < row) => buffer[y] # None

\* The rows that nothing is going to redraw show the scene of now.
WillRedraw == ~frameIdentical /\ ((sema.start = 1 /\ sema.pending) \/ worker = "clear")

Drawn ==
  ~WillRedraw => \A y \in Rows : (worker = "draw" => y < row) => buffer[y] = scene

\* Where the frame is, or goes on.
Place == IF at \in {"scanline", "hblank"} THEN at ELSE resume

\* VBlank has latched a scene that is not rendered yet.
Latched ==
  Place # "start" /\ (vcount = VBlankLine \/ (vcount = RenderLine /\ Place = "hblank"))

\* While VCOUNT is not written, only a latched or a loaded scene is still to be drawn.
Current ==
  /\ override = None /\ ~abort
  /\ IF at = "loaded" THEN ~identical ELSE (Latched /\ ~identical) \/ Drawn

\* No scanline begins after the last one, and a frame that goes on has been resumed.
InFrameLines ==
  /\ Place = "scanline" => vcount < LastLine
  /\ at \in {"scanline", "hblank"} => resume = "start"

\* The inductive invariant, for any VCOUNT writes.
IInv == TypeOK /\ Token /\ Alive /\ ThreadIsJoined /\ Permits /\ InFrameLines

\* A job that has just been submitted, and semaphores without one.
Job == [start |-> 1, done |-> 0, scan |-> 0, pending |-> TRUE]
NoJob == [start |-> 0, done |-> 0, scan |-> sema.scan, pending |-> FALSE]

-----------------------------------------------------------------------------
\* What the emulation thread may rely on.

\* Once FinishRendering can return, the thread waits and the semaphores are
\* empty but for the permits of rows.
LEMMA Finishing ==
  ASSUME IInv, CanFinish, at # "joining"
  PROVE  /\ Idle
         /\ FinishRendering(sema) = NoJob
         /\ worker = IF running THEN "idle" ELSE "none"
<1>1. Idle /\ worker = IF running THEN "idle" ELSE "none"
  BY DEF IInv, TypeOK, Token, Alive, ThreadIsJoined, CanFinish, Submitted, Idle, Drawing
<1>2. CASE sema.pending
  <2>1. sema.done = 1
    BY <1>2 DEF IInv, Token, CanFinish, Submitted
  <2> QED  BY <1>1, <1>2, <2>1 DEF FinishRendering, NoJob, Idle
<1>3. CASE ~sema.pending
  <2>1. sema = [start |-> sema.start, done |-> sema.done, scan |-> sema.scan,
                pending |-> sema.pending]
    BY DEF IInv, TypeOK
  <2>2. sema.done = 0 /\ sema.start = 0 /\ sema.pending = FALSE
    BY <1>1, <1>3 DEF IInv, Token, TypeOK, Idle
  <2> QED  BY <1>1, <1>3, <2>1, <2>2 DEF FinishRendering, NoJob
<1> QED  BY <1>1, <1>2, <1>3

\* Both are what TypeOK says of the semaphores.
LEMMA SemaphoresTyped ==
  ASSUME TypeOK
  PROVE  {Job, NoJob} \subseteq [start : 0 .. 1, done : 0 .. 1, scan : 0 .. VisibleLines,
                                 pending : BOOLEAN]
<1>1. sema.scan \in 0 .. VisibleLines
  BY DEF TypeOK
<1> QED  BY <1>1, LineAssumption DEF Job, NoJob

\* SetupRenderThread and EnableRenderThread leave exactly one job.
LEMMA RestartingThread ==
  ASSUME IInv, CanFinish, at # "joining", RestartThread
  PROVE  sema' = Job /\ worker' = "idle" /\ running' = TRUE /\ taken' = 0
<1>1. FinishRendering(sema) = NoJob /\ worker = IF running THEN "idle" ELSE "none"
  BY Finishing
<1>2. Submit(ResetSemaphores(NoJob)) = Job
  BY DEF ResetSemaphores, Submit, FinishRendering, Job, NoJob
<1> QED
  BY <1>1, <1>2 DEF RestartThread

\* Restart does so if the renderer is threaded, and otherwise changes nothing.
LEMMA Restarting ==
  ASSUME IInv, at # "joining", Restart
  PROVE  IF threaded
         THEN sema' = Job /\ worker' = "idle" /\ running' = TRUE /\ taken' = 0
         ELSE /\ sema' = NoJob /\ worker' = "none" /\ ~running'
              /\ UNCHANGED <<running, worker, taken>>
<1>1. CanFinish /\ FinishRendering(sema) = NoJob
      /\ worker = IF running THEN "idle" ELSE "none"
  BY Finishing DEF Restart
<1>2. CASE threaded
  BY <1>1, <1>2, RestartingThread DEF Restart
<1>3. CASE ~threaded
  BY <1>1, <1>3 DEF Restart, IInv, Alive
<1> QED  BY <1>2, <1>3

\* RenderFrame submits a job if there is a thread, and draws at once if not.
LEMMA Rendering ==
  ASSUME IInv, at # "joining", RenderFrame
  PROVE  IF running
         THEN sema' = Job /\ worker = "idle" /\ taken' = 0 /\ UNCHANGED buffer
         ELSE /\ sema' = NoJob /\ worker = "none" /\ UNCHANGED taken
              /\ buffer' = IF frameIdentical' THEN buffer ELSE [y \in Rows |-> scene']
<1>1. CanFinish /\ FinishRendering(sema) = NoJob
      /\ worker = IF running THEN "idle" ELSE "none"
  BY Finishing DEF RenderFrame
<1>2. CASE running
  <2>1. threaded /\ sema' = Submit(sema)
    BY <1>2 DEF RenderFrame, EnableRenderThread, IInv, Alive
  <2>2. Submit(sema) = Job
    BY <1>1 DEF Submit, Job, NoJob
  <2> QED  BY <1>1, <1>2, <2>1, <2>2 DEF RenderFrame
<1>3. CASE ~running
  BY <1>1, <1>3 DEF RenderFrame
<1> QED  BY <1>2, <1>3

-----------------------------------------------------------------------------
\* The inductive invariant.

\* It holds of the freshly created renderer.
LEMMA Initially == ASSUME Init PROVE IInv
<1>1. TypeOK
  <2>1. buffer \in [Rows -> 0 .. MaxScene \cup {None}] /\ scene \in 0 .. MaxScene
    BY LineAssumption DEF Init
  <2>2. sema \in [start : 0 .. 1, done : 0 .. 1, scan : 0 .. VisibleLines, pending : BOOLEAN]
    BY LineAssumption DEF Init
  <2>3. vcount \in 0 .. LastLine /\ override \in 0 .. LastLine \cup {None}
    BY LineAssumption DEF Init, LastLine
  <2> QED  BY <2>1, <2>2, <2>3, LineAssumption DEF Init, TypeOK
<1>2. Token /\ Alive /\ ThreadIsJoined /\ InFrameLines
  BY DEF Init, Token, Alive, ThreadIsJoined, InFrameLines, Place
<1>3. Permits
  BY LineAssumption DEF Init, Permits, Rows, LastLine
<1> QED  BY <1>1, <1>2, <1>3 DEF IInv

\* What every restart of a frame establishes, whatever else the caller does.
Sound ==
  /\ sema \in [start : 0 .. 1, done : 0 .. 1, scan : 0 .. VisibleLines, pending : BOOLEAN]
  /\ running \in BOOLEAN /\ worker \in {"none", "idle"} /\ taken \in 0 .. VisibleLines
  /\ Token /\ Alive /\ ThreadIsJoined /\ Permits

\* Restarting leaves one job, or none if the renderer is not threaded.
LEMMA Restarted ==
  ASSUME IInv, at # "joining", Restart, at' # "joining", threaded' = threaded,
         buffer' = buffer \/ \A y \in Rows : buffer'[y] # None
  PROVE  Sound'
<1>1. IF threaded
      THEN sema' = Job /\ worker' = "idle" /\ running' = TRUE /\ taken' = 0
      ELSE /\ sema' = NoJob /\ worker' = "none" /\ ~running'
           /\ UNCHANGED <<running, worker, taken>>
  BY Restarting
<1>2. \A y \in Rows : buffer'[y] # None
  <2>1. worker \in {"idle", "none"}
    BY Finishing DEF Restart
  <2> QED  BY <2>1 DEF IInv, Permits
<1>3. CASE threaded
  <2>1. sema'.start = 1 /\ sema'.done = 0 /\ sema'.scan = 0 /\ sema'.pending = TRUE
    BY <1>1, <1>3 DEF Job
  <2> QED
    BY <1>1, <1>2, <1>3, <2>1, SemaphoresTyped, LineAssumption
    DEF Sound, IInv, TypeOK, Token, Alive, ThreadIsJoined, Permits
<1>4. CASE ~threaded
  <2>1. sema'.start = 0 /\ sema'.done = 0 /\ sema'.scan = sema.scan /\ sema'.pending = FALSE
    BY <1>1, <1>4 DEF NoJob
  <2>2. sema' \in [start : 0 .. 1, done : 0 .. 1, scan : 0 .. VisibleLines, pending : BOOLEAN]
    BY <1>1, <1>4, SemaphoresTyped DEF IInv
  <2> QED
    BY <1>1, <1>2, <1>4, <2>1, <2>2
    DEF Sound, IInv, TypeOK, Token, Alive, ThreadIsJoined, Permits
<1> QED  BY <1>3, <1>4

\* The render thread's own steps.
LEMMA ThreadSteps == ASSUME IInv, RenderThreadFunc PROVE IInv'
<1>1. CASE Begin
  BY <1>1 DEF Begin, IInv, TypeOK, Token, Alive, ThreadIsJoined, Permits, InFrameLines,
     Place, Drawing, picture, thread, lines, control
<1>2. CASE Same
  BY <1>2, LineAssumption DEF Same, IInv, TypeOK, Token, Alive, ThreadIsJoined, Permits, InFrameLines,
     Place, Drawing, picture, thread, lines, control
<1>3. CASE ClearBuffers
  BY <1>3, LineAssumption DEF ClearBuffers, IInv, TypeOK, Token, Alive, ThreadIsJoined, Permits, InFrameLines,
     Place, Drawing, picture, thread, lines, control, Rows
<1>4. CASE FinishRow
  <2>1. row \in Rows /\ sema.scan + taken = row /\ worker = "draw"
    BY <1>4, LineAssumption DEF FinishRow, IInv, TypeOK, Permits, Rows
  <2>2. TypeOK'
    <3>1. buffer' \in [Rows -> 0 .. MaxScene \cup {None}]
      BY <1>4 DEF FinishRow, IInv, TypeOK
    <3>2. row' \in 0 .. VisibleLines
      BY <1>4, <2>1, LineAssumption DEF FinishRow, Rows
    <3>3. sema' \in [start : 0 .. 1, done : 0 .. 1, scan : 0 .. VisibleLines, pending : BOOLEAN]
      <4>1. sema.scan + 1 \in 0 .. VisibleLines
        BY <2>1, LineAssumption DEF IInv, TypeOK, Rows
      <4> QED  BY <1>4, <4>1 DEF FinishRow, IInv, TypeOK
    <3> QED
      BY <1>4, <3>1, <3>2, <3>3 DEF FinishRow, IInv, TypeOK, picture, thread, lines, control
  <2>3. Token' /\ Alive' /\ ThreadIsJoined' /\ InFrameLines'
    BY <1>4 DEF FinishRow, IInv, TypeOK, Token, Alive, ThreadIsJoined, InFrameLines, Place,
       Drawing, picture, thread, lines, control
  <2>4. Permits'
    <3>1. scene # None
      BY LineAssumption DEF IInv, TypeOK
    <3>2. \A y \in Rows : buffer'[y] = IF y = row THEN scene ELSE buffer[y]
      BY <1>4, <2>1 DEF FinishRow, IInv, TypeOK
    <3>3. /\ sema' = [sema EXCEPT !.scan = @ + 1] /\ row' = row + 1 /\ taken' = taken
          /\ worker' = IF row = VisibleLines - 1 THEN "finished" ELSE "draw"
      BY <1>4 DEF FinishRow
    <3>4. /\ sema'.scan = sema.scan + 1 /\ sema'.start = sema.start
          /\ sema.scan \in Nat /\ taken \in Nat /\ row \in Nat
      BY <2>1, <3>3, LineAssumption DEF IInv, TypeOK, Rows
    <3>5. ~(sema'.start = 1 /\ sema'.pending)
      BY <2>1, <3>3, <3>4 DEF IInv, TypeOK, Token, Drawing
    <3>6. sema'.scan + taken' = row' /\ row' <= VisibleLines
      BY <2>1, <3>3, <3>4, LineAssumption DEF Rows
    <3>7. ASSUME NEW y \in Rows, worker' = "draw" => y < row' PROVE buffer'[y] # None
      <4>1. CASE y = row
        BY <3>1, <3>2, <4>1
      <4>2. CASE y # row
        <5>1. y < row
          BY <2>1, <3>3, <3>7, <4>2, LineAssumption DEF Rows
        <5> QED  BY <2>1, <3>2, <4>2, <5>1 DEF IInv, Permits
      <4> QED  BY <4>1, <4>2
    <3>8. worker' = "draw" => row' < VisibleLines
      BY <2>1, <3>3, LineAssumption DEF Rows
    <3> QED
      BY <3>3, <3>5, <3>6, <3>7, <3>8 DEF Permits
  <2> QED  BY <2>2, <2>3, <2>4 DEF IInv
<1>5. CASE PostDone
  BY SMTT(60), <1>5, LineAssumption DEF PostDone, IInv, TypeOK, Token, Alive, ThreadIsJoined, Permits, InFrameLines,
     Place, Drawing, picture, thread, lines, control, Rows
<1> QED  BY <1>1, <1>2, <1>3, <1>4, <1>5 DEF RenderThreadFunc

\* The frontend's calls.
LEMMA FrontendSteps == ASSUME IInv, Frontend PROVE IInv'
<1> USE LineAssumption
<1>1. CASE Reset
  <2>1. scene' \in 0 .. MaxScene /\ buffer' = [y \in Rows |-> scene']
    BY <1>1 DEF Reset, IInv, TypeOK
  <2>2. \A y \in Rows : buffer'[y] # None
    BY <2>1
  <2>3. Sound'
    BY <1>1, <2>2, Restarted DEF Reset, AtFrontend
  <2>4. at = "frontend" /\ at' = at /\ resume' = "start"
    BY <1>1 DEF Reset, AtFrontend
  <2>5. TypeOK'
    <3>1. buffer' \in [Rows -> 0 .. MaxScene \cup {None}]
      BY <2>1
    <3> QED
      BY <1>1, <2>1, <2>3, <2>4, <3>1 DEF Reset, Sound, IInv, TypeOK
  <2>6. InFrameLines'
    BY <2>4 DEF InFrameLines, Place
  <2> QED
    BY <2>3, <2>5, <2>6 DEF Sound, IInv
<1>2. CASE SetThreadedOn
  <2>1. at = "frontend" /\ at' = at /\ CanFinish /\ RestartThread
    BY <1>2 DEF SetThreadedOn, AtFrontend, control
  <2>2. sema' = Job /\ worker' = "idle" /\ running' = TRUE /\ taken' = 0
    BY <2>1, RestartingThread
  <2>3. /\ threaded' = TRUE
        /\ UNCHANGED <<scene, frameIdentical, row, buffer, at, resume, vcount, override>>
    BY <1>2, <2>1 DEF SetThreadedOn, picture, control, lines
  <2>4. TypeOK'
    BY <1>2, <2>2, <2>3 DEF SetThreadedOn, IInv, TypeOK, Job, picture, control, lines
  <2>5. Token' /\ Alive' /\ ThreadIsJoined'
    BY <2>1, <2>2, <2>3 DEF Token, Alive, ThreadIsJoined, Job
  <2>6. \A y \in Rows : buffer[y] # None
    <3>1. ~running /\ worker = "none"
      BY <1>2, <2>1, Finishing DEF SetThreadedOn, IInv, Alive
    <3> QED  BY <3>1 DEF IInv, Permits
  <2>7. Permits'
    BY <2>2, <2>3, <2>6 DEF Permits, Job
  <2>8. InFrameLines'
    BY <1>2, <2>3 DEF SetThreadedOn, IInv, InFrameLines, Place, lines, control, picture
  <2> QED
    BY <2>4, <2>5, <2>7, <2>8 DEF IInv
<1>3. CASE SetThreadedOff
  <2>1. at = "frontend" /\ running /\ CanFinish /\ FinishRendering(sema) = NoJob /\ worker = "idle"
    BY <1>3, Finishing DEF SetThreadedOff, AtFrontend, StopRenderThread
  <2>2. sema' = [NoJob EXCEPT !.start = 1]
    BY <1>3, <2>1 DEF SetThreadedOff, StopRenderThread, NoJob
  <2>3. /\ sema' = [start |-> 1, done |-> 0, scan |-> sema.scan, pending |-> FALSE]
        /\ sema'.start = 1 /\ sema'.done = 0 /\ sema'.scan = sema.scan /\ sema'.pending = FALSE
    BY <2>2 DEF NoJob
  <2>8. TypeOK'
    <3>1. sema' \in [start : 0 .. 1, done : 0 .. 1, scan : 0 .. VisibleLines, pending : BOOLEAN]
      BY <2>3 DEF IInv, TypeOK
    <3> QED
      BY <1>3, <2>1, <3>1 DEF SetThreadedOff, StopRenderThread, IInv, TypeOK, picture, drawing, lines
  <2>9. Token' /\ Alive' /\ ThreadIsJoined' /\ InFrameLines'
    BY <1>3, <2>1, <2>3, <2>8 DEF SetThreadedOff, IInv, TypeOK, Token, Alive, ThreadIsJoined, InFrameLines, Place,
       Job, NoJob, StopRenderThread, picture, drawing, lines
  <2>10. Permits'
    BY <1>3, <2>1, <2>3, <2>8 DEF SetThreadedOff, IInv, TypeOK, Permits, Job, NoJob, Alive, picture, drawing, lines
  <2> QED  BY <2>8, <2>9, <2>10 DEF IInv
<1>4. CASE Join
  BY <1>4 DEF Join, IInv, TypeOK, Token, Alive, ThreadIsJoined, Permits, InFrameLines, Place,
     picture, thread, drawing, lines
<1>5. CASE SaveState
  <2>1. Sound'
    BY <1>5, Restarted DEF SaveState, AtFrontend, control
  <2> QED
    BY <1>5, <2>1
    DEF SaveState, Sound, IInv, TypeOK, InFrameLines, Place, picture, control, lines
<1>6. CASE LoadState
  <2>1. Sound'
    BY <1>6, Restarted DEF LoadState, AtFrontend
  <2>2. abort' \in BOOLEAN
    BY <1>6 DEF LoadState
  <2>3. /\ resume' \in {"start", "scanline", "hblank"} /\ vcount' \in 0 .. LastLine
        /\ resume' = "scanline" => vcount' < LastLine
    BY <1>6 DEF LoadState, IInv, TypeOK, LastLine
  <2>4. override' \in 0 .. LastLine \cup {None}
    BY <1>6 DEF LoadState
  <2>5. /\ scene < MaxScene /\ scene' = scene + 1 /\ identical' = FALSE /\ at' = "loaded"
        /\ UNCHANGED <<frameIdentical, threaded, row, buffer>>
    BY <1>6, Zenon DEF LoadState
  <2>8. written' \in BOOLEAN
    <3>1. written' = (written \/ abort' \/ override' # None)
      BY <1>6, Zenon DEF LoadState
    <3> QED  BY <3>1, Zenon
  <2>7. TypeOK'
    <3>1. /\ scene' \in 0 .. MaxScene /\ identical' \in BOOLEAN /\ frameIdentical' \in BOOLEAN
          /\ threaded' \in BOOLEAN
      <4>1. frameIdentical \in BOOLEAN /\ threaded \in BOOLEAN
        BY Zenon DEF IInv, TypeOK
      <4>2. scene \in 0 .. MaxScene
        BY Zenon DEF IInv, TypeOK
      <4>3. scene' \in 0 .. MaxScene
        BY <2>5, <4>2
      <4> QED  BY <2>5, <4>1, <4>3, Zenon
    <3>2. row' \in 0 .. VisibleLines /\ buffer' \in [Rows -> 0 .. MaxScene \cup {None}]
      BY <2>5 DEF IInv, TypeOK
    <3>3. /\ sema' \in [start : 0 .. 1, done : 0 .. 1, scan : 0 .. VisibleLines,
                        pending : BOOLEAN]
          /\ running' \in BOOLEAN /\ worker' \in {"none", "idle"} /\ taken' \in 0 .. VisibleLines
      BY <2>1 DEF Sound
    <3>4. at' = "loaded"
      BY <2>5
    <3> QED  BY <2>2, <2>3, <2>4, <2>8, <3>1, <3>2, <3>3, <3>4 DEF TypeOK
  <2>6. InFrameLines'
    BY <1>6, <2>3 DEF LoadState, InFrameLines, Place
  <2> QED
    BY <2>1, <2>7, <2>6 DEF Sound, IInv
<1>7. CASE Start3DRendering
  <2>1. at = "loaded" /\ at' = "frontend" /\ RenderFrame
    BY <1>7 DEF Start3DRendering
  <2>2. IF running THEN sema' = Job /\ worker = "idle" /\ taken' = 0 /\ UNCHANGED buffer
        ELSE /\ sema' = NoJob /\ worker = "none" /\ UNCHANGED taken
             /\ buffer' = IF frameIdentical' THEN buffer ELSE [y \in Rows |-> scene']
    BY <2>1, Rendering
  <2>3. scene' \in 0 .. MaxScene /\ frameIdentical' \in BOOLEAN
    BY <2>1 DEF RenderFrame, IInv, TypeOK
  <2>8. TypeOK'
    BY <1>7, <2>1, <2>2, <2>3, SemaphoresTyped DEF Start3DRendering, IInv, TypeOK, thread, lines, LastLine
  <2>9. Token' /\ Alive' /\ ThreadIsJoined' /\ InFrameLines'
    BY <1>7, <2>1, <2>2 DEF Start3DRendering, IInv, TypeOK, Token, Alive, ThreadIsJoined, InFrameLines, Place,
       Job, NoJob, StopRenderThread, thread, lines, LastLine
  <2>10. Permits'
    BY <1>7, <2>1, <2>2, <2>3 DEF Start3DRendering, IInv, TypeOK, Permits, Job, NoJob, Alive, thread, lines, LastLine
  <2> QED  BY <2>8, <2>9, <2>10 DEF IInv
<1> QED  BY <1>1, <1>2, <1>3, <1>4, <1>5, <1>6, <1>7 DEF Frontend

\* The frame and the guest.
LEMMA FrameSteps == ASSUME IInv, Frame \/ Guest PROVE IInv'
<1> USE LineAssumption
<1>1. CASE NextFrame
  BY <1>1
  DEF NextFrame, AtFrontend, IInv, TypeOK, Token, Alive, ThreadIsJoined, Permits, InFrameLines,
      Place, LastLine, picture, thread, drawing
<1>2. CASE Restart3DFrame
  <2>1. Sound'
    BY <1>2, Restarted DEF Restart3DFrame, AtFrontend, IInv, TypeOK
  <2> QED
    BY <1>2, <2>1
    DEF Restart3DFrame, AtFrontend, Sound, IInv, TypeOK, InFrameLines, Place, picture, lines
<1>3. CASE StartScanline
  <2>1. at = "scanline" /\ vcount < LastLine /\ vcount + 1 \in 0 .. LastLine
    BY <1>3 DEF StartScanline, IInv, TypeOK, InFrameLines, Place, LastLine
  <2>2. vcount' \in 0 .. LastLine /\ override' = None /\ at' = "hblank"
    BY <1>3, <2>1 DEF StartScanline, IInv, TypeOK
  <2>3. scene' \in 0 .. MaxScene /\ identical' \in BOOLEAN
    <3>1. CASE Latch
      <4>1. scene' \in 0 .. MaxScene
        <5>1. scene' = scene \/ (scene < MaxScene /\ scene' = scene + 1)
          BY <3>1, Zenon DEF Latch
        <5> QED  BY <5>1 DEF IInv, TypeOK
      <4>2. identical' \in BOOLEAN
        BY <3>1 DEF Latch, IInv, TypeOK
      <4> QED  BY <4>1, <4>2
    <3>2. CASE UNCHANGED picture
      BY <3>2 DEF picture, IInv, TypeOK
    <3> QED  BY <1>3, <3>1, <3>2 DEF StartScanline
  <2>4. CASE sema' = sema
    BY <1>3, <2>1, <2>2, <2>3, <2>4
    DEF StartScanline, IInv, TypeOK, Token, Alive, ThreadIsJoined, Permits, InFrameLines,
        Place, thread, drawing
  <2>5. CASE CanFinish /\ sema' = FinishRendering(sema)
    <3>1. sema' = NoJob /\ worker = IF running THEN "idle" ELSE "none"
      BY <2>1, <2>5, Finishing
    <3>2. sema' \in [start : 0 .. 1, done : 0 .. 1, scan : 0 .. VisibleLines, pending : BOOLEAN]
      BY <3>1, SemaphoresTyped DEF IInv
    <3>3. sema'.start = 0 /\ sema'.done = 0 /\ sema'.scan = sema.scan /\ sema'.pending = FALSE
      BY <3>1 DEF NoJob
    <3> QED
      BY <1>3, <2>1, <2>2, <2>3, <3>1, <3>2, <3>3
      DEF StartScanline, IInv, TypeOK, Token, Alive, ThreadIsJoined, Permits, InFrameLines,
          Place, thread, drawing
  <2> QED  BY <1>3, <2>4, <2>5 DEF StartScanline
<1>4. CASE GetLine
  <2>1. at = "hblank" /\ at' = "scanline" /\ vcount \in Rows /\ vcount' = vcount
    BY <1>4 DEF GetLine, lines
  <2>2. CASE UNCHANGED <<sema, taken>>
    BY <1>4, <2>1, <2>2
    DEF GetLine, IInv, TypeOK, Token, Alive, ThreadIsJoined, Permits, InFrameLines,
        Place, picture, thread, drawing, lines, Rows, LastLine
  <2>3. CASE sema.scan > 0 /\ sema' = [sema EXCEPT !.scan = @ - 1] /\ taken' = taken + 1
    <3>1. sema' \in [start : 0 .. 1, done : 0 .. 1, scan : 0 .. VisibleLines, pending : BOOLEAN]
      BY <2>3 DEF IInv, TypeOK
    <3>2. /\ sema'.start = sema.start /\ sema'.done = sema.done
          /\ sema'.scan = sema.scan - 1 /\ sema'.pending = sema.pending
      BY <2>3 DEF IInv, TypeOK
    <3>3. TypeOK'
      BY <1>4, <2>1, <2>3, <3>1
      DEF GetLine, IInv, TypeOK, Permits, picture, thread, drawing, lines
    <3>4. Permits'
      BY <1>4, <2>1, <2>3, <3>2 DEF GetLine, IInv, TypeOK, Permits, drawing
    <3> QED
      BY <1>4, <2>1, <3>2, <3>3, <3>4
      DEF GetLine, IInv, TypeOK, Token, Alive, ThreadIsJoined, InFrameLines,
          Place, thread, drawing, Rows, LastLine
  <2> QED  BY <1>4, <2>2, <2>3 DEF GetLine
<1>5. CASE StartHBlank
  BY <1>5
  DEF StartHBlank, IInv, TypeOK, Token, Alive, ThreadIsJoined, Permits, InFrameLines,
      Place, LastLine, VBlankLine, picture, thread, drawing, lines
<1>6. CASE StartRendering
  <2>1. at = "hblank" /\ at' = "scanline" /\ RenderFrame /\ vcount' = vcount /\ vcount < LastLine
    BY <1>6 DEF StartRendering, RenderLine, LastLine, lines
  <2>2. IF running THEN sema' = Job /\ worker = "idle" /\ taken' = 0 /\ UNCHANGED buffer
        ELSE /\ sema' = NoJob /\ worker = "none" /\ UNCHANGED taken
             /\ buffer' = IF frameIdentical' THEN buffer ELSE [y \in Rows |-> scene']
    BY <2>1, Rendering
  <2>3. scene' \in 0 .. MaxScene /\ frameIdentical' \in BOOLEAN
    BY <2>1 DEF RenderFrame, IInv, TypeOK
  <2>8. TypeOK'
    BY <1>6, <2>1, <2>2, <2>3, SemaphoresTyped DEF StartRendering, IInv, TypeOK, thread, lines
  <2>9. Token' /\ Alive' /\ ThreadIsJoined' /\ InFrameLines'
    BY <1>6, <2>1, <2>2 DEF StartRendering, IInv, TypeOK, Token, Alive, ThreadIsJoined,
       InFrameLines, Place, Job, NoJob, thread, lines
  <2>10. Permits'
    BY <1>6, <2>1, <2>2, <2>3 DEF StartRendering, IInv, TypeOK, Permits, Job, NoJob, thread
  <2> QED  BY <2>8, <2>9, <2>10 DEF IInv
<1>7. CASE FinishFrame
  <2>1. CASE abort
    <3>1. Sound'
      BY <1>7, <2>1, Restarted DEF FinishFrame
    <3> QED
      BY <1>7, <3>1
      DEF FinishFrame, Sound, IInv, TypeOK, InFrameLines, Place, picture
  <2>2. CASE ~abort
    BY <1>7, <2>2
    DEF FinishFrame, IInv, TypeOK, Token, Alive, ThreadIsJoined, Permits, InFrameLines,
        Place, picture
  <2> QED  BY <2>1, <2>2
<1>8. CASE EnterSleepMode
  BY <1>8
  DEF EnterSleepMode, InFrame, IInv, TypeOK, Token, Alive, ThreadIsJoined, Permits, InFrameLines,
      Place, picture, thread, drawing, lines
<1>9. CASE \E v \in VCountWrites : SetVCount(v)
  BY <1>9
  DEF SetVCount, IInv, TypeOK, Token, Alive, ThreadIsJoined, Permits, InFrameLines,
      Place, picture, thread, drawing, control
<1> QED
  BY <1>1, <1>2, <1>3, <1>4, <1>5, <1>6, <1>7, <1>8, <1>9 DEF Frame, Guest

\* Every step of either thread keeps it.
LEMMA Inductive == ASSUME IInv, [Next]_vars PROVE IInv'
<1>1. CASE RenderThreadFunc
  BY <1>1, ThreadSteps
<1>2. CASE Frontend
  BY <1>2, FrontendSteps
<1>3. CASE Frame \/ Guest
  BY <1>3, FrameSteps
<1>4. CASE UNCHANGED vars
  BY <1>4
  DEF vars, picture, thread, lines, control, drawing, IInv, TypeOK, Token, Alive, ThreadIsJoined,
      Permits, InFrameLines, Place
<1> QED  BY <1>1, <1>2, <1>3, <1>4 DEF Next

\* Spec keeps the inductive invariant.
THEOREM InvariantHolds == Spec => []IInv
<1>1. Init => IInv
  BY Initially
<1>2. IInv /\ [Next]_vars => IInv'
  BY Inductive
<1> QED  BY <1>1, <1>2, PTL DEF Spec

-----------------------------------------------------------------------------
\* Type correctness: no job posts more permits than it has rows.
THEOREM RendererTypes == Spec => []TypeOK
<1>1. IInv => TypeOK
  BY DEF IInv
<1> QED  BY <1>1, InvariantHolds, PTL

\* A thread that StopRenderThread is to join ends, and none runs unowned.
THEOREM Joined == Spec => []ThreadIsJoined
<1>1. IInv => ThreadIsJoined
  BY DEF IInv
<1> QED  BY <1>1, InvariantHolds, PTL

\* VBlank, RenderFrame, Reset and a loaded state change what the thread draws
\* from only when the token is back.
THEOREM SceneLeftAlone == Spec => SceneIsQuiescent
<1>1. ASSUME IInv, Next, scene' # scene \/ frameIdentical' # frameIdentical
      PROVE  Idle
  <2>1. CASE RenderThreadFunc
    BY <1>1, <2>1
    DEF RenderThreadFunc, Begin, Same, ClearBuffers, FinishRow, PostDone, picture
  <2>2. CASE Reset \/ LoadState \/ Start3DRendering \/ StartRendering
    <3>1. CanFinish /\ at # "joining"
      BY <2>2 DEF Reset, LoadState, Start3DRendering, StartRendering, AtFrontend, Restart, RenderFrame
    <3> QED  BY <1>1, <3>1, Finishing
  <2>3. CASE StartScanline
    <3>1. CanFinish /\ at # "joining"
      BY <1>1, <2>3 DEF StartScanline, picture
    <3> QED  BY <1>1, <3>1, Finishing
  <2>4. CASE SetThreadedOn \/ SetThreadedOff \/ Join \/ SaveState
    BY <1>1, <2>4 DEF SetThreadedOn, SetThreadedOff, Join, SaveState, picture
  <2>5. CASE NextFrame \/ Restart3DFrame \/ GetLine \/ StartHBlank \/ FinishFrame
    BY <1>1, <2>5 DEF NextFrame, Restart3DFrame, GetLine, StartHBlank, FinishFrame, picture
  <2>6. CASE Guest
    BY <1>1, <2>6 DEF Guest, EnterSleepMode, SetVCount, picture
  <2> QED  BY <1>1, <2>1, <2>2, <2>3, <2>4, <2>5, <2>6 DEF Next, Frontend, Frame
<1>2. IInv /\ [Next]_vars
      => [scene' # scene \/ frameIdentical' # frameIdentical => Idle]_vars
  BY <1>1
<1> QED  BY <1>2, InvariantHolds, PTL DEF Spec, SceneIsQuiescent

\* A row is shown by GetLine alone.
LEMMA ShownIsGetLine == ASSUME Next, Shown PROVE GetLine
<1>1. at = "hblank" /\ at' = "scanline" /\ vcount \in Rows
  BY DEF Shown
<1>2. ~RenderThreadFunc /\ ~Guest
  BY <1>1
  DEF RenderThreadFunc, Begin, Same, ClearBuffers, FinishRow, PostDone,
      Guest, EnterSleepMode, SetVCount, control
<1>3. ~Frontend
  BY <1>1
  DEF Frontend, Reset, SetThreadedOn, SetThreadedOff, Join, SaveState, LoadState,
      Start3DRendering, AtFrontend
<1>4. ~NextFrame /\ ~Restart3DFrame /\ ~StartScanline /\ ~FinishFrame
  BY <1>1 DEF NextFrame, Restart3DFrame, StartScanline, FinishFrame, AtFrontend
<1>5. ~StartHBlank /\ ~StartRendering
  BY <1>1, LineAssumption DEF StartHBlank, StartRendering, VBlankLine, RenderLine, Rows
<1> QED
  BY <1>2, <1>3, <1>4, <1>5, Zenon DEF Next, Frame

\* A permit taken in step is that of the row it is taken for, whatever lines
\* the guest has set VCOUNT to.
THEOREM RowsAreFinished == Spec => ReadsFinishedRow
<1>1. ASSUME IInv, Next, Shown, InStep
      PROVE  buffer[vcount] # None
  <2>1. sema.scan > 0 /\ taken = vcount /\ vcount \in Rows
    BY <1>1, ShownIsGetLine DEF GetLine, Shown, InStep
  <2> QED
    BY <1>1, <2>1, LineAssumption DEF IInv, TypeOK, Permits, Rows
<1>2. IInv /\ [Next]_vars => [Shown /\ InStep => buffer[vcount] # None]_vars
  BY <1>1
<1> QED  BY <1>2, InvariantHolds, PTL DEF Spec, ReadsFinishedRow

-----------------------------------------------------------------------------
\* While VCOUNT is not written: what is shown is the latest scene.

\* Where only the job changes hands, and nothing to draw from does, the rows
\* are no less finished.
LEMMA Resubmitted ==
  ASSUME IInv, CanFinish, at # "joining", Drawn,
         sema' \in {Job, NoJob}, worker' \in {"idle", "none"},
         UNCHANGED <<scene, frameIdentical, buffer>>
  PROVE  Drawn'
<1>1. worker # "draw" /\ worker # "clear" /\ ~(sema.start = 1 /\ sema.pending)
  BY Finishing DEF Idle
<1>2. \A y \in Rows : buffer[y] = scene
  BY <1>1 DEF Drawn, WillRedraw
<1> QED  BY <1>2 DEF Drawn, WillRedraw

\* So does a restart of the frame.
LEMMA RestartKeepsDrawn ==
  ASSUME IInv, at # "joining", Drawn, Restart, UNCHANGED <<scene, frameIdentical, buffer>>
  PROVE  Drawn'
<1>1. CanFinish /\ sema' \in {Job, NoJob} /\ worker' \in {"idle", "none"}
  BY Restarting DEF Restart
<1> QED  BY <1>1, Resubmitted

\* A rendering of what is not identical is of the current scene; one that is
\* identical leaves what there is.
LEMMA RenderFrameDraws ==
  ASSUME IInv, at # "joining", RenderFrame, ~identical \/ Drawn
  PROVE  Drawn'
<1>1. frameIdentical' = (identical /\ scene' = scene)
  BY DEF RenderFrame
<1>2. IF running THEN sema' = Job /\ worker = "idle" /\ taken' = 0 /\ UNCHANGED buffer
      ELSE /\ sema' = NoJob /\ worker = "none" /\ UNCHANGED taken
           /\ buffer' = IF frameIdentical' THEN buffer ELSE [y \in Rows |-> scene']
  BY Rendering
<1>3. CASE frameIdentical'
  <2>1. worker # "draw" /\ worker # "clear" /\ ~(sema.start = 1 /\ sema.pending)
    BY Finishing DEF Idle, RenderFrame
  <2>2. \A y \in Rows : buffer[y] = scene
    BY <1>1, <1>3, <2>1 DEF Drawn, WillRedraw
  <2>3. buffer' = buffer /\ scene' = scene
    BY <1>1, <1>2, <1>3
  <2> QED  BY <2>2, <2>3 DEF Drawn
<1>4. CASE ~frameIdentical' /\ running
  <2>1. sema'.start = 1 /\ sema'.pending
    BY <1>2, <1>4 DEF Job
  <2> QED  BY <1>4, <2>1 DEF Drawn, WillRedraw
<1>5. CASE ~frameIdentical' /\ ~running
  <2>1. \A y \in Rows : buffer'[y] = scene'
    BY <1>2, <1>5
  <2> QED  BY <2>1 DEF Drawn
<1> QED  BY <1>3, <1>4, <1>5

\* The render thread finishes what it was asked to draw.
LEMMA ThreadDraws == ASSUME IInv, Drawn, RenderThreadFunc PROVE Drawn'
<1>1. CASE Begin
  <2>1. sema' = [sema EXCEPT !.start = @ - 1] /\ sema.start = 1
    BY <1>1 DEF Begin, IInv, TypeOK
  <2>2. sema'.start = 0 /\ sema'.pending = sema.pending
    BY <2>1 DEF IInv, TypeOK
  <2>3. sema.pending => running
    BY <1>1 DEF Begin, IInv, Alive, ThreadIsJoined
  <2>4. ~sema.pending => ~running
    BY <1>1, <2>1 DEF Begin, IInv, Alive, Token
  <2> QED
    BY <1>1, <2>1, <2>2, <2>3, <2>4 DEF Begin, Drawn, WillRedraw, picture
<1>2. CASE Same
  <2>1. sema'.start = sema.start /\ sema'.pending = sema.pending
    BY <1>2 DEF Same, IInv, TypeOK
  <2> QED  BY <1>2, <2>1 DEF Same, Drawn, WillRedraw, picture
<1>3. CASE ClearBuffers
  BY <1>3, LineAssumption DEF ClearBuffers, Drawn, WillRedraw, Rows
<1>4. CASE FinishRow
  <2>1. row \in Rows /\ ~WillRedraw
    BY <1>4, LineAssumption DEF FinishRow, IInv, TypeOK, Token, Permits, Rows, WillRedraw, Drawing
  <2>2. \A y \in Rows : buffer'[y] = IF y = row THEN scene ELSE buffer[y]
    BY <1>4, <2>1 DEF FinishRow, IInv, TypeOK
  <2>3. \A y \in Rows : y < row => buffer[y] = scene
    BY <1>4, <2>1 DEF Drawn, FinishRow
  <2>4. ASSUME NEW y \in Rows, worker' = "draw" => y < row'
        PROVE  y < row \/ y = row
    BY <1>4, <2>1, <2>4, LineAssumption DEF FinishRow, Rows
  <2> QED  BY <1>4, <2>2, <2>3, <2>4 DEF FinishRow, Drawn, picture
<1>5. CASE PostDone
  <2>1. sema'.start = sema.start /\ sema'.pending = sema.pending
    BY <1>5 DEF PostDone, IInv, TypeOK
  <2> QED  BY <1>5, <2>1 DEF PostDone, Drawn, WillRedraw, picture
<1> QED  BY <1>1, <1>2, <1>3, <1>4, <1>5 DEF RenderThreadFunc

\* A reset starts over with the picture of the empty scene.
LEMMA ResetIsCurrent == ASSUME Reset PROVE Current'
<1>1. \A y \in Rows : buffer'[y] = scene'
  BY DEF Reset
<1>2. Drawn'
  BY <1>1 DEF Drawn
<1> QED  BY <1>2 DEF Reset, AtFrontend, Current

\* The whole step.
LEMMA CurrentKept ==
  ASSUME IInv, Current, [Next]_vars, ~written'
  PROVE  Current'
<1> USE LineAssumption
<1>1. CASE RenderThreadFunc
  <2>1. UNCHANGED <<identical, at, resume, vcount, override, abort>>
    BY <1>1 DEF RenderThreadFunc, Begin, Same, ClearBuffers, FinishRow, PostDone,
                picture, control, lines
  <2>2. Drawn => Drawn'
    BY <1>1, ThreadDraws
  <2> QED  BY <2>1, <2>2 DEF Current, Latched, Place
<1>2. CASE Reset
  BY <1>2, ResetIsCurrent
<1>3. CASE SetThreadedOn
  <2>1. at = "frontend" /\ CanFinish /\ RestartThread
        /\ UNCHANGED <<scene, identical, frameIdentical, buffer, at, resume, vcount, override, abort>>
    BY <1>3 DEF SetThreadedOn, AtFrontend, picture, control, lines
  <2>2. sema' = Job /\ worker' = "idle"
    BY <2>1, RestartingThread
  <2>3. Drawn => Drawn'
    BY <2>1, <2>2, Resubmitted
  <2> QED  BY <2>1, <2>3 DEF Current, Latched, Place
<1>4. CASE SetThreadedOff
  <2>1. /\ at = "frontend" /\ running /\ CanFinish /\ FinishRendering(sema) = NoJob
        /\ worker = "idle" /\ Idle
    BY <1>4, Finishing DEF SetThreadedOff, AtFrontend, StopRenderThread
  <2>2. sema' = [NoJob EXCEPT !.start = 1]
    BY <1>4, <2>1 DEF SetThreadedOff, StopRenderThread, NoJob
  <2>3. sema'.pending = FALSE
    BY <2>2 DEF NoJob
  <2>4. /\ UNCHANGED <<scene, identical, frameIdentical, worker, row, buffer>>
        /\ UNCHANGED <<resume, vcount, override, abort>> /\ at' = "joining"
    BY <1>4 DEF SetThreadedOff, picture, drawing, lines
  <2>5. Drawn => Drawn'
    BY <2>1, <2>3, <2>4 DEF Drawn, WillRedraw, Idle
  <2> QED  BY <2>1, <2>4, <2>5 DEF Current, Latched, Place
<1>5. CASE Join
  BY <1>5 DEF Join, Current, Latched, Place, Drawn, WillRedraw, picture, drawing, lines
<1>6. CASE SaveState
  <2>1. /\ at = "frontend" /\ Restart
        /\ UNCHANGED <<scene, identical, frameIdentical, buffer, at, resume, vcount, override, abort>>
    BY <1>6 DEF SaveState, AtFrontend, picture, control, lines
  <2>2. Drawn => Drawn'
    BY <2>1, RestartKeepsDrawn
  <2> QED  BY <2>1, <2>2 DEF Current, Latched, Place
<1>7. CASE LoadState
  BY <1>7 DEF LoadState, Current
<1>8. CASE Start3DRendering
  <2>1. at = "loaded" /\ RenderFrame /\ at' = "frontend" /\ UNCHANGED <<override, abort>>
    BY <1>8 DEF Start3DRendering, lines
  <2>2. Drawn'
    BY <2>1, RenderFrameDraws DEF Current
  <2> QED  BY <2>1, <2>2 DEF Current
<1>9. CASE NextFrame
  <2>1. /\ at = "frontend" /\ resume = "start" /\ at' = "hblank"
        /\ UNCHANGED <<scene, frameIdentical, sema, worker, row, buffer, abort>>
        /\ override' = None
    BY <1>9 DEF NextFrame, AtFrontend, picture, drawing
  <2>2. Drawn
    BY <2>1 DEF Current, Latched, Place
  <2>3. Drawn'
    BY <2>1, <2>2 DEF Drawn, WillRedraw
  <2> QED  BY <2>1, <2>3 DEF Current
<1>10. CASE Restart3DFrame
  <2>1. /\ at = "frontend" /\ resume \in {"scanline", "hblank"} /\ at' = resume /\ Restart
        /\ UNCHANGED <<scene, identical, frameIdentical, buffer, vcount, override, abort>>
    BY <1>10 DEF Restart3DFrame, AtFrontend, IInv, TypeOK, picture, lines
  <2>2. Drawn => Drawn'
    BY <2>1, RestartKeepsDrawn
  <2> QED  BY <2>1, <2>2 DEF Current, Latched, Place
<1>11. CASE StartScanline
  <2>1. /\ at = "scanline" /\ at' = "hblank" /\ override' = None /\ ~abort'
        /\ vcount' = vcount + 1 /\ vcount \in 0 .. LastLine
        /\ UNCHANGED <<frameIdentical, worker, row, buffer>>
    BY <1>11 DEF StartScanline, Current, IInv, TypeOK, drawing
  <2>2. CASE vcount + 1 = VBlankLine
    <3>1. CanFinish /\ Latch /\ sema' = FinishRendering(sema)
      BY <1>11, <2>2 DEF StartScanline
    <3>2. CASE ~identical'
      BY <2>1, <2>2, <3>2 DEF Current, Latched, Place
    <3>3. CASE identical'
      <4>1. scene' = scene
        BY <3>1, <3>3 DEF Latch
      <4>2. Drawn
        BY <2>1, <2>2 DEF Current, Latched, Place, VBlankLine, RenderLine
      <4>3. sema' = NoJob /\ worker \in {"idle", "none"}
        BY <2>1, <3>1, Finishing
      <4>4. Drawn'
        BY <2>1, <3>1, <4>1, <4>2, <4>3, Resubmitted
      <4> QED  BY <2>1, <4>4 DEF Current
    <3> QED  BY <3>2, <3>3
  <2>3. CASE vcount + 1 # VBlankLine
    <3>1. UNCHANGED <<scene, identical, sema>>
      BY <1>11, <2>3 DEF StartScanline, picture
    <3>2. Drawn => Drawn'
      BY <2>1, <3>1 DEF Drawn, WillRedraw
    <3>3. Latched => Latched'
      BY <2>1 DEF Latched, Place, VBlankLine, RenderLine, LastLine
    <3> QED  BY <2>1, <3>1, <3>2, <3>3 DEF Current
  <2> QED  BY <2>2, <2>3
<1>12. CASE GetLine
  <2>1. /\ at = "hblank" /\ at' = "scanline" /\ vcount \in Rows
        /\ UNCHANGED <<scene, identical, frameIdentical, worker, row, buffer, override, abort>>
    BY <1>12 DEF GetLine, picture, drawing, lines
  <2>2. Drawn
    BY <2>1 DEF Current, Latched, Place, VBlankLine, RenderLine, Rows
  <2>3. sema'.start = sema.start /\ sema'.pending = sema.pending
    BY <1>12 DEF GetLine, IInv, TypeOK
  <2>4. Drawn'
    BY <2>1, <2>2, <2>3 DEF Drawn, WillRedraw
  <2> QED  BY <2>1, <2>4 DEF Current
<1>13. CASE StartHBlank
  BY <1>13
  DEF StartHBlank, Current, Latched, Place, Drawn, WillRedraw, picture, drawing, lines
<1>14. CASE StartRendering
  <2>1. at = "hblank" /\ at' = "scanline" /\ RenderFrame /\ UNCHANGED <<override, abort>>
    BY <1>14 DEF StartRendering, lines
  <2>2. Drawn'
    BY <2>1, RenderFrameDraws DEF Current
  <2> QED  BY <2>1, <2>2 DEF Current
<1>15. CASE FinishFrame
  <2>1. /\ at = "hblank" /\ vcount = LastLine /\ at' = "frontend" /\ ~abort'
        /\ UNCHANGED <<scene, frameIdentical, worker, row, buffer, override, sema>>
    BY <1>15 DEF FinishFrame, Current, picture
  <2>2. Drawn
    BY <2>1 DEF Current, Latched, Place, VBlankLine, RenderLine, LastLine
  <2>3. Drawn'
    BY <2>1, <2>2 DEF Drawn, WillRedraw
  <2> QED  BY <2>1, <2>3 DEF Current
<1>16. CASE EnterSleepMode
  <2>1. /\ at \in {"scanline", "hblank"} /\ at' = "frontend" /\ resume' = at
        /\ UNCHANGED <<scene, identical, frameIdentical, sema, worker, row, buffer>>
        /\ UNCHANGED <<vcount, override, abort>>
    BY <1>16 DEF EnterSleepMode, InFrame, picture, drawing, lines
  <2>2. Drawn => Drawn'
    BY <2>1 DEF Drawn, WillRedraw
  <2> QED  BY <2>1, <2>2 DEF Current, Latched, Place
<1>17. CASE \E v \in VCountWrites : SetVCount(v)
  BY <1>17 DEF SetVCount
<1>18. CASE UNCHANGED vars
  BY <1>18
  DEF vars, picture, thread, lines, control, drawing, Current, Latched, Place, Drawn, WillRedraw
<1> QED
  BY <1>1, <1>2, <1>3, <1>4, <1>5, <1>6, <1>7, <1>8, <1>9, <1>10, <1>11, <1>12, <1>13,
     <1>14, <1>15, <1>16, <1>17, <1>18
  DEF Next, Frontend, Frame, Guest

\* Only a reset takes back that VCOUNT has been written.
LEMMA WrittenStays == ASSUME written, [Next]_vars, ~Reset PROVE written'
<1>1. CASE RenderThreadFunc
  BY <1>1
  DEF RenderThreadFunc, Begin, Same, ClearBuffers, FinishRow, PostDone, lines
<1>2. CASE Frontend
  BY <1>2
  DEF Frontend, SetThreadedOn, SetThreadedOff, Join, SaveState, LoadState, Start3DRendering,
      lines
<1>3. CASE Frame
  BY <1>3
  DEF Frame, NextFrame, Restart3DFrame, StartScanline, GetLine, StartHBlank, StartRendering,
      FinishFrame, lines
<1>4. CASE Guest
  BY <1>4 DEF Guest, EnterSleepMode, SetVCount, lines
<1> QED  BY <1>1, <1>2, <1>3, <1>4 DEF Next, vars, lines

\* As long as no guest writes VCOUNT, every row shown is of the scene that
\* VBlank has latched last, whether it was drawn, kept, or drawn again.
THEOREM LatestIsShown == Spec => ShowsLatestScene
<1> DEFINE CurrentUnlessWritten == written \/ Current
<1>1. Init => IInv /\ CurrentUnlessWritten
  <2>1. Init => Current
    BY DEF Init, Current, Latched, Place, Drawn
  <2> QED  BY <2>1, Initially
<1>2. IInv /\ CurrentUnlessWritten /\ [Next]_vars => (IInv /\ CurrentUnlessWritten)'
  <2>1. ASSUME IInv, CurrentUnlessWritten, [Next]_vars, ~written'
        PROVE  Current'
    <3>1. CASE Reset
      BY <3>1, ResetIsCurrent
    <3>2. CASE ~Reset
      BY <2>1, <3>2, WrittenStays, CurrentKept
    <3> QED  BY <3>1, <3>2
  <2> QED  BY <2>1, Inductive
<1>3. IInv /\ CurrentUnlessWritten /\ [Next]_vars
        => [Shown /\ InStep /\ ~written => buffer[vcount] = scene]_vars
  <2>1. ASSUME IInv, Current, Next, Shown, InStep
        PROVE  buffer[vcount] = scene
    <3>1. sema.scan > 0 /\ taken = vcount /\ vcount \in Rows /\ at = "hblank"
      BY <2>1, ShownIsGetLine DEF GetLine, Shown, InStep
    <3>2. Drawn
      BY <2>1, <3>1, LineAssumption
      DEF Current, Latched, Place, VBlankLine, RenderLine, Rows
    <3>3. ~WillRedraw /\ (worker = "draw" => vcount < row)
      BY <2>1, <3>1, LineAssumption DEF WillRedraw, IInv, TypeOK, Permits, Rows
    <3> QED  BY <3>1, <3>2, <3>3 DEF Drawn
  <2> QED  BY <2>1
<1> QED  BY <1>1, <1>2, <1>3, PTL DEF Spec, ShowsLatestScene
====
