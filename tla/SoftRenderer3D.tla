---- MODULE SoftRenderer3D ----
(***************************************************************************)
(* The software 3D renderer and its render thread (GPU3D_Soft.cpp), driven *)
(* by the scanlines of GPU.cpp.  The emulation thread latches a scene at   *)
(* VBlank, submits it, and takes the finished rows one by one while the    *)
(* render thread is still drawing the ones below.  Three semaphores and a  *)
(* flag order the two.                                                     *)
(*                                                                         *)
(* A scene is a number: everything a picture is drawn from (polygons,      *)
(* registers, textures).  3D rendering is powered; VCOUNT stays within a   *)
(* frame.  Drawing the next row before finishing one is left out, since    *)
(* nobody reads a row that is not finished.                                *)
(***************************************************************************)
EXTENDS Integers

CONSTANTS
  VisibleLines,  \* 192
  VCountWrites,  \* the lines a guest sets VCOUNT to
  MaxScene,      \* bound: the scenes of a behaviour
  None           \* no VCOUNT write is pending

VBlankLine == VisibleLines       \* 192
RenderLine == VisibleLines + 1   \* 215
LastLine   == VisibleLines + 2   \* 262
Rows       == 0 .. VisibleLines - 1

ASSUME LineAssumption ==
  /\ VisibleLines \in Nat \ {0} /\ VCountWrites \subseteq 0 .. LastLine
  /\ MaxScene \in Nat /\ None \notin Nat

VARIABLES
  scene,            \* what a picture would be drawn from now
  identical,        \* GPU3D.RenderFrameIdentical
  frameIdentical,   \* FrameIdentical
  threaded,         \* Threaded
  running,          \* RenderThreadRunning
  sema,             \* Sema_RenderStart, RenderDone, ScanlineCount; RenderPending
  worker, row,      \* control point of RenderThreadFunc, row it draws
  buffer,           \* ColorBuffer: the scene of each finished row, or None
  at, resume,       \* control point of the emulation thread, and where the
                    \* frame goes on once the frontend has returned
  vcount, override, \* VCount; NextVCount while VCountOverride is set
  abort,            \* AbortFrame
  taken,            \* history: the permits taken since they were last reset
  written           \* history: a guest has written VCOUNT since the last reset

picture == <<scene, identical>>
thread  == <<threaded, running>>
lines   == <<vcount, override, abort, written>>
control == <<at, resume>>
drawing == <<worker, row, buffer>>
vars == <<picture, frameIdentical, thread, sema, drawing, control, lines, taken>>

Init ==
  /\ scene = 0 /\ identical = FALSE /\ frameIdentical = FALSE
  /\ threaded = FALSE /\ running = FALSE
  /\ sema = [start |-> 0, done |-> 0, scan |-> 0, pending |-> FALSE]
  /\ worker = "none" /\ row = 0 /\ buffer = [y \in Rows |-> scene]
  /\ at = "frontend" /\ resume = "start"
  /\ vcount = 0 /\ override = None /\ abort = FALSE /\ taken = 0 /\ written = FALSE

-----------------------------------------------------------------------------
\* The render thread.

\* It waits for a job, and ends if it was told to.
Begin ==
  /\ worker = "idle" /\ sema.start > 0
  /\ sema' = [sema EXCEPT !.start = @ - 1]
  /\ worker' = IF ~running THEN "none" ELSE IF frameIdentical THEN "same" ELSE "clear"
  /\ UNCHANGED <<picture, frameIdentical, thread, row, buffer, control, lines, taken>>

\* Bug: one permit is missing.
SameButOne ==
  /\ worker = "same"
  /\ sema' = [sema EXCEPT !.scan = @ + VisibleLines - 1]
  /\ worker' = "finished"
  /\ UNCHANGED <<picture, frameIdentical, thread, row, buffer, control, lines, taken>>

\* Nothing has changed: all the rows are there already.
Same ==
  /\ worker = "same"
  /\ sema' = [sema EXCEPT !.scan = @ + VisibleLines]
  /\ worker' = "finished"
  /\ UNCHANGED <<picture, frameIdentical, thread, row, buffer, control, lines, taken>>

ClearBuffers ==
  /\ worker = "clear"
  /\ buffer' = [y \in Rows |-> None] /\ row' = 0 /\ worker' = "draw"
  /\ UNCHANGED <<picture, frameIdentical, thread, sema, control, lines, taken>>

\* Bug: the permit is posted when the row is drawn, before its final pass.
FinishRowBehind ==
  /\ worker = "draw"
  /\ buffer' = [y \in Rows |-> IF y = row - 1 \/ (y = row /\ row = VisibleLines - 1)
                               THEN scene ELSE buffer[y]]
  /\ sema' = [sema EXCEPT !.scan = @ + 1]
  /\ row' = row + 1
  /\ worker' = IF row = VisibleLines - 1 THEN "finished" ELSE "draw"
  /\ UNCHANGED <<picture, frameIdentical, thread, control, lines, taken>>

\* The final pass of a row, and the permit for it.
FinishRow ==
  /\ worker = "draw"
  /\ buffer' = [buffer EXCEPT ![row] = scene]
  /\ sema' = [sema EXCEPT !.scan = @ + 1]
  /\ row' = row + 1
  /\ worker' = IF row = VisibleLines - 1 THEN "finished" ELSE "draw"
  /\ UNCHANGED <<picture, frameIdentical, thread, control, lines, taken>>

PostDone ==
  /\ worker = "finished"
  /\ sema' = [sema EXCEPT !.done = @ + 1]
  /\ worker' = "idle"
  /\ UNCHANGED <<picture, frameIdentical, thread, row, buffer, control, lines, taken>>

RenderThreadFunc == Begin \/ Same \/ ClearBuffers \/ FinishRow \/ PostDone

-----------------------------------------------------------------------------
\* What the emulation thread does to the semaphores.

\* FinishRendering waits for the job it has submitted, if there is one.
Submitted == sema.pending
CanFinish == Submitted => sema.done > 0

FinishRendering(s) ==
  IF s.pending
  THEN [start |-> s.start, done |-> s.done - 1, scan |-> s.scan, pending |-> FALSE]
  ELSE s

ResetSemaphores(s) == [start |-> 0, done |-> 0, scan |-> 0, pending |-> s.pending]

\* Bug: permits of the replaced frame stay.
SubmitOver(s) ==
  [FinishRendering(s) EXCEPT !.pending = TRUE, !.start = @ + 1]

\* A new job, without the permits of the replaced frame.
Submit(s) ==
  LET free == FinishRendering(s)
  IN  [start |-> free.start + 1, done |-> free.done, scan |-> 0, pending |-> TRUE]

EnableRenderThread(s) == IF threaded THEN Submit(s) ELSE FinishRendering(s)

\* SetupRenderThread and EnableRenderThread: a thread is created if there is none.
RestartThread ==
  /\ sema' = Submit(ResetSemaphores(FinishRendering(sema)))
  /\ running' = TRUE /\ taken' = 0
  /\ worker' = IF running THEN worker ELSE "idle"

Restart ==
  /\ CanFinish
  /\ IF threaded THEN RestartThread
     ELSE sema' = FinishRendering(sema) /\ UNCHANGED <<running, worker, taken>>

-----------------------------------------------------------------------------
\* The frontend, between two frames or while the guest sleeps.

AtFrontend == at = "frontend"

\* GPU.Reset.  The zeroed buffer is the picture of the empty scene.
Reset ==
  /\ AtFrontend /\ Restart
  /\ scene < MaxScene /\ scene' = scene + 1
  /\ frameIdentical' = FALSE /\ buffer' = [y \in Rows |-> scene']
  /\ resume' = "start" /\ override' = None /\ abort' = FALSE /\ written' = FALSE
  /\ UNCHANGED <<identical, threaded, row, at, vcount>>

\* It is told to stop, then joined.
StopRenderThread ==
  /\ running /\ CanFinish
  /\ sema' = [FinishRendering(sema) EXCEPT !.start = @ + 1]
  /\ running' = FALSE

SetThreadedOn ==
  /\ AtFrontend /\ ~threaded /\ CanFinish
  /\ threaded' = TRUE /\ RestartThread
  /\ UNCHANGED <<picture, frameIdentical, row, buffer, control, lines>>

SetThreadedOff ==
  /\ AtFrontend /\ threaded /\ StopRenderThread
  /\ threaded' = FALSE /\ at' = "joining"
  /\ UNCHANGED <<picture, frameIdentical, drawing, resume, lines, taken>>

Join ==
  /\ at = "joining" /\ worker = "none" /\ at' = "frontend"
  /\ UNCHANGED <<picture, frameIdentical, thread, sema, drawing, resume, lines, taken>>

\* PreSavestate and PostSavestate draw the same picture again.
SaveState ==
  /\ AtFrontend /\ Restart
  /\ UNCHANGED <<picture, frameIdentical, threaded, row, buffer, control, lines>>

\* A state taken between two frames, or asleep on some line.
LoadState ==
  /\ AtFrontend /\ Restart
  /\ scene < MaxScene /\ scene' = scene + 1 /\ identical' = FALSE
  /\ override' \in VCountWrites \cup {None} /\ abort' \in {FALSE, VCountWrites # {}}
  /\ \/ resume' = "start" /\ ~abort' /\ UNCHANGED vcount
     \/ /\ resume' \in {"scanline", "hblank"} /\ vcount' \in 0 .. LastLine - 1
        /\ override' # None => abort'
  /\ at' = "loaded" /\ written' = (written \/ abort' \/ override' # None)
  /\ UNCHANGED <<frameIdentical, threaded, row, buffer>>

\* Textures and palettes are made coherent and the job is submitted, or done.
RenderFrame ==
  /\ CanFinish
  /\ scene' \in {scene, scene + 1} /\ scene' <= MaxScene
  /\ frameIdentical' = (identical /\ scene' = scene)
  /\ IF running
     THEN /\ sema' = EnableRenderThread(sema) /\ taken' = 0 /\ UNCHANGED buffer
     ELSE /\ buffer' = IF frameIdentical' THEN buffer ELSE [y \in Rows |-> scene']
          /\ sema' = FinishRendering(sema) /\ UNCHANGED taken

\* NDS::DoSavestate ends with it.
Start3DRendering ==
  /\ at = "loaded" /\ RenderFrame
  /\ at' = "frontend"
  /\ UNCHANGED <<identical, thread, worker, row, resume, lines>>

\* GPU.StartFrame, or the frame goes on.
NextFrame ==
  /\ AtFrontend /\ resume = "start"
  /\ at' = "hblank" /\ vcount' = IF override = None THEN 0 ELSE override
  /\ override' = None
  /\ UNCHANGED <<picture, frameIdentical, thread, sema, drawing, resume, abort, taken, written>>

\* An interrupt ends sleep mode.
Restart3DFrame ==
  /\ AtFrontend /\ resume # "start" /\ Restart
  /\ at' = resume /\ resume' = "start"
  /\ UNCHANGED <<picture, frameIdentical, threaded, row, buffer, lines>>

-----------------------------------------------------------------------------
\* The scanlines of a frame.

\* The guest, in either half of a line.
InFrame == at \in {"scanline", "hblank"}

EnterSleepMode ==
  /\ InFrame
  /\ at' = "frontend" /\ resume' = at
  /\ UNCHANGED <<picture, frameIdentical, thread, sema, drawing, lines, taken>>

SetVCount(v) ==
  /\ InFrame
  /\ override' = v /\ abort' = TRUE /\ written' = TRUE
  /\ UNCHANGED <<picture, frameIdentical, thread, sema, drawing, control, vcount, taken>>

\* GPU3D.VBlank latches a new scene, or finds the old one (un)changed.
Latch ==
  \/ scene < MaxScene /\ scene' = scene + 1 /\ identical' = FALSE
  \/ UNCHANGED scene /\ identical' \in {TRUE, identical}

\* Bug: VBlank does not wait for the render thread.
StartScanlineAtOnce ==
  /\ at = "scanline"
  /\ IF vcount + 1 = VBlankLine THEN Latch /\ UNCHANGED sema ELSE UNCHANGED <<picture, sema>>
  /\ vcount' = IF override = None THEN vcount + 1 ELSE override
  /\ override' = None /\ at' = "hblank"
  /\ UNCHANGED <<frameIdentical, thread, drawing, resume, abort, taken, written>>

StartScanline ==
  /\ at = "scanline"
  /\ IF vcount + 1 = VBlankLine
     THEN CanFinish /\ Latch /\ sema' = FinishRendering(sema)
     ELSE UNCHANGED <<picture, sema>>
  /\ vcount' = IF override = None THEN vcount + 1 ELSE override
  /\ override' = None /\ at' = "hblank"
  /\ UNCHANGED <<frameIdentical, thread, drawing, resume, abort, taken, written>>

\* A row is needed, and the permit says that one more is finished.
GetLine ==
  /\ at = "hblank" /\ vcount \in Rows
  /\ IF running /\ ~abort
     THEN sema.scan > 0 /\ sema' = [sema EXCEPT !.scan = @ - 1] /\ taken' = taken + 1
     ELSE UNCHANGED <<sema, taken>>
  /\ at' = "scanline"
  /\ UNCHANGED <<picture, frameIdentical, thread, drawing, resume, lines>>

StartHBlank ==
  /\ at = "hblank" /\ vcount = VBlankLine
  /\ at' = "scanline"
  /\ UNCHANGED <<picture, frameIdentical, thread, sema, drawing, resume, lines, taken>>

StartRendering ==
  /\ at = "hblank" /\ vcount = RenderLine /\ RenderFrame
  /\ at' = "scanline"
  /\ UNCHANGED <<identical, thread, worker, row, resume, lines>>

\* The last line's HBlank and GPU.FinishFrame, which replaces an aborted frame.
FinishFrame ==
  /\ at = "hblank" /\ vcount = LastLine
  /\ IF abort THEN Restart ELSE UNCHANGED <<sema, running, worker, taken>>
  /\ abort' = FALSE /\ at' = "frontend"
  /\ UNCHANGED <<picture, frameIdentical, threaded, row, buffer, resume, vcount, override, written>>

-----------------------------------------------------------------------------
Frontend ==
  \/ Reset \/ SetThreadedOn \/ SetThreadedOff \/ Join \/ SaveState \/ LoadState
  \/ Start3DRendering

Frame ==
  \/ NextFrame \/ Restart3DFrame \/ StartScanline \/ GetLine \/ StartHBlank
  \/ StartRendering \/ FinishFrame

Guest == EnterSleepMode \/ \E v \in VCountWrites : SetVCount(v)

Next == RenderThreadFunc \/ Frontend \/ Frame \/ Guest

Spec == Init /\ [][Next]_vars

\* Both threads run; what the user and the guest do is up to them.
Fairness ==
  /\ WF_vars(RenderThreadFunc)
  /\ WF_vars(Frame) /\ WF_vars(Join) /\ WF_vars(Start3DRendering)

FairSpec == Spec /\ Fairness

-----------------------------------------------------------------------------
\* Properties.

\* Every variable has its type.  No job posts more permits than it has rows.
TypeOK ==
  /\ scene \in 0 .. MaxScene
  /\ identical \in BOOLEAN /\ frameIdentical \in BOOLEAN
  /\ threaded \in BOOLEAN /\ running \in BOOLEAN
  /\ sema \in [start : 0 .. 1, done : 0 .. 1, scan : 0 .. VisibleLines,
               pending : BOOLEAN]
  /\ worker \in {"none", "idle", "same", "clear", "draw", "finished"}
  /\ row \in 0 .. VisibleLines
  /\ buffer \in [Rows -> 0 .. MaxScene \cup {None}]
  /\ at \in {"frontend", "scanline", "hblank", "joining", "loaded"}
  /\ resume \in {"start", "scanline", "hblank"}
  /\ vcount \in 0 .. LastLine /\ override \in 0 .. LastLine \cup {None}
  /\ abort \in BOOLEAN /\ taken \in 0 .. VisibleLines /\ written \in BOOLEAN

\* "it's safe to access the GPU state again" (GPU3D_Soft.cpp:1935): what the
\* render thread draws from, and whether it has to, changes only while it
\* waits for a job that has not been submitted yet.
Idle == worker \in {"none", "idle"} /\ sema.start = 0

SceneIsQuiescent ==
  [][scene' # scene \/ frameIdentical' # frameIdentical => Idle]_vars

\* No thread is left behind: one that the flag says is running is there, and
\* the emulation thread goes on from a stop only when it has ended.
ThreadIsJoined == at # "joining" => (running <=> worker # "none")

\* GetLine takes no row that is not finished, in a frame all of whose rows so
\* far were taken from the same job.
Shown == at = "hblank" /\ at' = "scanline" /\ vcount \in Rows /\ ~abort
InStep == running /\ taken = vcount

ReadsFinishedRow == [][Shown /\ InStep => buffer[vcount] # None]_vars

\* Unless the guest writes VCOUNT, that row shows the scene latched last.
ShowsLatestScene == [][Shown /\ InStep /\ ~written => buffer[vcount] = scene]_vars

\* "both threads process scanlines from top-to-bottom, so we don't need to
\* wait for a specific row" (GPU3D_Soft.cpp:1953): a row that was waited for is
\* finished, whichever row it is.
AnyRowIsFinished == [][Shown /\ running => buffer[vcount] # None]_vars

\* No semaphore is waited for in vain: a stopped thread is joined, a loaded
\* state gets its picture, and a frame, once it has begun, ends or is put to
\* sleep unless the guest moves VCOUNT to and fro in it.
CallsReturn ==
  (at # "frontend") ~> (at = "frontend" \/ (InFrame /\ written))
====
