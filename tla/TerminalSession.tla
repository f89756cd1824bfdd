--------------------------- MODULE TerminalSession ---------------------------
(***************************************************************************)
(* One terminal (src/internal/terminal/session.go): the worker that reads  *)
(* the child's output into the emulator, the one that forwards what the    *)
(* emulator has to say to the child, the one that waits for its end, the   *)
(* goroutine that types a resume command, the timer of the cursor, and the *)
(* loop of the runtime that draws, types, resizes and closes.  They share  *)
(* one lock, a synchronous pipe (what is typed is handed over piece by     *)
(* piece while the lock is held), the buffers of the pseudo terminal and a *)
(* channel of events that drops what does not fit.                         *)
(***************************************************************************)
EXTENDS Naturals

CONSTANTS
  MaxText,     \* bound: pieces in which one text goes through the pipe
  InputRoom,   \* what the pseudo terminal buffers of the child's input
  OutputRoom,  \* and of its output
  EventRoom,   \* capacity of the channel of events
  MaxFired     \* bound: goroutines of the cursor timer, and forgotten timers

ASSUME TextAssumption == MaxText \in Nat
ASSUME RoomAssumption == InputRoom \in Nat /\ OutputRoom \in Nat /\ EventRoom \in Nat \ {0}
ASSUME FiredAssumption == MaxFired \in Nat

VARIABLES
  state,       \* Session.state: running, exited or failed
  owner,       \* who holds the lock across steps: none, output, resume, loop
  text,        \* pieces the owner has yet to hand over
  output,      \* readOutput: read, have, write, notify, fail, report, done
  forward,     \* forwardInput: read, write, fail, report, done
  exit,        \* waitForExit: wait, report, done
  resume,      \* SendCommandWhenReady: none, wait, ready, typing, done
  pending,     \* cursorPending
  timer,       \* cursorTimer: none, armed, or fired and not armed again
  orphans,     \* timers armed but no longer referred to
  settling,    \* calls of settleCursor that wait for the lock
  announcing,  \* calls of settleCursor about to notify
  quiet,       \* the cursor's deadline has passed
  events,      \* the channel of events
  stale,       \* the pane changed since it was drawn
  moved,       \* since then the resume command left the history or a selection
  dirty,       \* the loop is going to draw at its next tick
  loop,        \* the loop: free, typing, closing, unplug, joining, closed
  closed,      \* the channel closed by Close
  pipe,        \* the emulator's input pipe is open
  pty,         \* the pseudo terminal is open
  child,       \* the child: ready, busy writing, or gone
  input,       \* input the pseudo terminal holds for the child
  waiting      \* output of the child that was not read

cursorVars == <<pending, timer, orphans, settling, announcing, quiet>>
workerVars == <<output, forward, exit, resume>>
drawVars == <<events, stale, moved, dirty>>
childVars == <<child, input, waiting>>
plugVars == <<closed, pipe, pty>>
vars == <<state, owner, text, workerVars, cursorVars, drawVars, loop, plugVars, childVars>>

Init ==
  /\ state = "running" /\ owner = "none" /\ text = 0
  /\ output = "read" /\ forward = "read" /\ exit = "wait"
  /\ resume \in {"none", "wait"}
  /\ pending = FALSE /\ timer = "none" /\ orphans = 0
  /\ settling = 0 /\ announcing = 0 /\ quiet = TRUE
  /\ events = 0 /\ stale = FALSE /\ moved = FALSE /\ dirty = FALSE
  /\ loop = "free"
  /\ closed = FALSE /\ pipe = TRUE /\ pty = TRUE
  /\ child = "ready" /\ input = 0 /\ waiting = 0

Free == owner = "none"

(* Another piece of text can be handed over only while the pipe is open.   *)
Pieces(n) == IF pipe THEN n ELSE 0

(* A plausible slip: a queue that grows.                                   *)
notifyUnbounded == events' = events + 1

(* Nobody waits for room: an event that does not fit is dropped.           *)
notify == events' = IF events < EventRoom THEN events + 1 ELSE events

-----------------------------------------------------------------------------
(* readOutput                                                              *)
ReadOutput ==
  /\ output = "read" /\ pty /\ waiting > 0
  /\ waiting' = waiting - 1
  /\ output' = "have"
  /\ UNCHANGED <<state, owner, text, forward, exit, resume, cursorVars, drawVars, loop, plugVars, child, input>>

(* The pseudo terminal was closed, or ends with the child.                 *)
ReadEnds ==
  /\ output = "read"
  /\ \/ ~pty /\ output' = "done"
     \/ pty /\ child = "gone" /\ waiting = 0 /\ output' \in {"done", "fail"}
  /\ UNCHANGED <<state, owner, text, forward, exit, resume, cursorVars, drawVars, loop, plugVars, childVars>>

(* The output filter holds everything back.                                *)
SkipScreen ==
  /\ output = "have" /\ Free
  /\ output' = "notify"
  /\ UNCHANGED <<state, owner, text, forward, exit, resume, cursorVars, drawVars, loop, plugVars, childVars>>

(* emulator.Write, which may have to answer the child.                     *)
WriteScreen ==
  /\ output = "have" /\ Free
  /\ owner' = "output"
  /\ \E n \in 0..MaxText : text' = Pieces(n)
  /\ output' = "write"
  /\ stale' = TRUE
  /\ UNCHANGED <<state, forward, exit, resume, cursorVars, events, moved, dirty, loop, plugVars, childVars>>

(* scheduleCursorSettleLocked                                              *)
scheduleCursorSettle == pending' = TRUE /\ quiet' = FALSE /\ timer' = "armed"

ScreenWritten ==
  /\ output = "write" /\ text = 0
  /\ scheduleCursorSettle
  /\ owner' = "none"
  /\ output' = "notify"
  /\ UNCHANGED <<state, text, forward, exit, resume, orphans, settling, announcing, drawVars, loop, plugVars, childVars>>

NotifyOutput ==
  /\ output = "notify"
  /\ notify
  /\ output' = "read"
  /\ UNCHANGED <<state, owner, text, forward, exit, resume, cursorVars, stale, moved, dirty, loop, plugVars, childVars>>

(* fail, up to its notification                                            *)
fail ==
  IF state \in {"exited", "failed"} THEN UNCHANGED <<state, stale>>
  ELSE state' = "failed" /\ stale' = TRUE

FailOutput ==
  /\ output = "fail" /\ Free
  /\ fail
  /\ output' = IF state' = state THEN "done" ELSE "report"
  /\ UNCHANGED <<owner, text, forward, exit, resume, cursorVars, events, moved, dirty, loop, plugVars, childVars>>

ReportOutput ==
  /\ output = "report"
  /\ notify
  /\ output' = "done"
  /\ UNCHANGED <<state, owner, text, forward, exit, resume, cursorVars, stale, moved, dirty, loop, plugVars, childVars>>

-----------------------------------------------------------------------------
(* forwardInput: io.Copy from the emulator to the pseudo terminal          *)
TakeInput ==
  /\ forward = "read" /\ pipe /\ text > 0
  /\ text' = text - 1
  /\ forward' = "write"
  /\ UNCHANGED <<state, owner, output, exit, resume, cursorVars, drawVars, loop, plugVars, childVars>>

PipeEnds ==
  /\ forward = "read" /\ ~pipe
  /\ forward' = "done"
  /\ UNCHANGED <<state, owner, text, output, exit, resume, cursorVars, drawVars, loop, plugVars, childVars>>

WriteInput ==
  /\ forward = "write" /\ pty /\ input < InputRoom
  /\ input' = input + 1
  /\ forward' = "read"
  /\ UNCHANGED <<state, owner, text, output, exit, resume, cursorVars, drawVars, loop, plugVars, child, waiting>>

WriteInputFails ==
  /\ forward = "write"
  /\ \/ ~pty /\ forward' = "done"
     \/ pty /\ child = "gone" /\ forward' \in {"done", "fail"}
  /\ UNCHANGED <<state, owner, text, output, exit, resume, cursorVars, drawVars, loop, plugVars, childVars>>

FailInput ==
  /\ forward = "fail" /\ Free
  /\ fail
  /\ forward' = IF state' = state THEN "done" ELSE "report"
  /\ UNCHANGED <<owner, text, output, exit, resume, cursorVars, events, moved, dirty, loop, plugVars, childVars>>

ReportInput ==
  /\ forward = "report"
  /\ notify
  /\ forward' = "done"
  /\ UNCHANGED <<state, owner, text, output, exit, resume, cursorVars, stale, moved, dirty, loop, plugVars, childVars>>

-----------------------------------------------------------------------------
(* waitForExit                                                             *)
ExitSeen ==
  /\ exit = "wait" /\ child = "gone" /\ Free
  /\ state' = IF state = "failed" THEN state ELSE "exited"
  /\ stale' = TRUE
  /\ exit' = "report"
  /\ UNCHANGED <<owner, text, output, forward, resume, cursorVars, events, moved, dirty, loop, plugVars, childVars>>

ReportExit ==
  /\ exit = "report"
  /\ notify
  /\ exit' = "done"
  /\ UNCHANGED <<state, owner, text, output, forward, resume, cursorVars, stale, moved, dirty, loop, plugVars, childVars>>

-----------------------------------------------------------------------------
(* SendCommandWhenReady: the prompt is there, or eight seconds have passed *)
ResumeDue ==
  /\ resume = "wait"
  /\ resume' = "ready"
  /\ UNCHANGED <<state, owner, text, output, forward, exit, cursorVars, drawVars, loop, plugVars, childVars>>

ResumeCancelled ==
  /\ resume = "wait" /\ closed
  /\ resume' = "done"
  /\ UNCHANGED <<state, owner, text, output, forward, exit, cursorVars, drawVars, loop, plugVars, childVars>>

ResumeTooLate ==
  /\ resume = "ready" /\ Free /\ state # "running"
  /\ resume' = "done"
  /\ UNCHANGED <<state, owner, text, output, forward, exit, cursorVars, drawVars, loop, plugVars, childVars>>

(* The view goes back to the live screen, and nobody is told.               *)
TypeResume ==
  /\ resume = "ready" /\ Free /\ state = "running"
  /\ owner' = "resume"
  /\ \E n \in 0..MaxText : text' = Pieces(n)
  /\ resume' = "typing"
  /\ moved' \in {moved, TRUE}
  /\ UNCHANGED <<state, output, forward, exit, cursorVars, events, stale, dirty, loop, plugVars, childVars>>

ResumeTyped ==
  /\ resume = "typing" /\ text = 0
  /\ owner' = "none"
  /\ resume' = "done"
  /\ UNCHANGED <<state, text, output, forward, exit, cursorVars, drawVars, loop, plugVars, childVars>>

-----------------------------------------------------------------------------
(* settleCursor, called by a timer in a goroutine of its own               *)
TimerFires ==
  /\ settling + announcing < MaxFired
  /\ \/ timer = "armed" /\ quiet /\ timer' = "fired" /\ UNCHANGED orphans
     \/ orphans > 0 /\ orphans' = orphans - 1 /\ UNCHANGED timer
  /\ settling' = settling + 1
  /\ UNCHANGED <<state, owner, text, workerVars, pending, announcing, quiet, drawVars, loop, plugVars, childVars>>

SettleDue ==
  /\ settling > 0 /\ Free
  /\ settling' = settling - 1

SettleNothing ==
  /\ SettleDue
  /\ ~pending \/ closed
  /\ UNCHANGED <<state, owner, text, workerVars, pending, timer, orphans, announcing, quiet, drawVars, loop, plugVars, childVars>>

(* Output came since: the timer goes on for what remains.                  *)
SettleEarly ==
  /\ SettleDue
  /\ pending /\ ~closed /\ ~quiet
  /\ timer' = IF timer = "none" THEN "none" ELSE "armed"
  /\ UNCHANGED <<state, owner, text, workerVars, pending, orphans, announcing, quiet, drawVars, loop, plugVars, childVars>>

(* A plausible slip: Close has cancelled the timer, so the settling of the  *)
(* cursor need not look whether the session is closed.                     *)
SettleAnyway ==
  /\ SettleDue
  /\ pending /\ quiet
  /\ timer = "armed" => orphans < MaxFired
  /\ pending' = FALSE
  /\ timer' = "none"
  /\ orphans' = IF timer = "armed" THEN orphans + 1 ELSE orphans
  /\ \/ announcing' = announcing + 1 /\ stale' = TRUE
     \/ UNCHANGED <<announcing, stale>>
  /\ UNCHANGED <<state, owner, text, workerVars, quiet, events, moved, dirty, loop, plugVars, childVars>>

Settle ==
  /\ SettleDue
  /\ pending /\ ~closed /\ quiet
  /\ timer = "armed" => orphans < MaxFired
  /\ pending' = FALSE
  /\ timer' = "none"
  /\ orphans' = IF timer = "armed" THEN orphans + 1 ELSE orphans
  /\ \/ announcing' = announcing + 1 /\ stale' = TRUE
     \/ UNCHANGED <<announcing, stale>>
  /\ UNCHANGED <<state, owner, text, workerVars, quiet, events, moved, dirty, loop, plugVars, childVars>>

AnnounceCursor ==
  /\ announcing > 0
  /\ notify
  /\ announcing' = announcing - 1
  /\ UNCHANGED <<state, owner, text, workerVars, pending, timer, orphans, settling, quiet, stale, moved, dirty, loop, plugVars, childVars>>

QuietPasses ==
  /\ ~quiet
  /\ quiet' = TRUE
  /\ UNCHANGED <<state, owner, text, workerVars, pending, timer, orphans, settling, announcing, drawVars, loop, plugVars, childVars>>

-----------------------------------------------------------------------------
(* The loop of the runtime                                                 *)
Draw ==
  /\ loop = "free" /\ dirty /\ Free
  /\ stale' = FALSE /\ moved' = FALSE /\ dirty' = FALSE
  /\ UNCHANGED <<state, owner, text, workerVars, cursorVars, events, loop, plugVars, childVars>>

(* A plausible slip: only what an event says is handled.                   *)
TakeEventsOnly ==
  /\ loop = "free" /\ events > 0
  /\ events' = 0
  /\ UNCHANGED <<state, owner, text, workerVars, cursorVars, stale, moved, dirty, loop, plugVars, childVars>>

TakeEvents ==
  /\ loop = "free" /\ events > 0
  /\ events' = 0 /\ dirty' = TRUE
  /\ UNCHANGED <<state, owner, text, workerVars, cursorVars, stale, moved, loop, plugVars, childVars>>

(* SendKey, Paste and HandleWheel leave the history for the live screen.   *)
Type ==
  /\ loop = "free" /\ Free
  /\ owner' = "loop"
  /\ \E n \in 0..MaxText : text' = Pieces(n)
  /\ loop' = "typing"
  /\ stale' = TRUE
  /\ UNCHANGED <<state, workerVars, cursorVars, events, moved, dirty, plugVars, childVars>>

Typed ==
  /\ loop = "typing" /\ text = 0
  /\ owner' = "none"
  /\ loop' = "free"
  /\ dirty' = TRUE
  /\ UNCHANGED <<state, text, workerVars, cursorVars, events, stale, moved, plugVars, childVars>>

(* A plausible slip: only the timer is stopped.                            *)
stopTimerOnly == timer' = "none" /\ UNCHANGED pending

(* cancelCursorSettleLocked                                                *)
cancelCursorSettle == pending' = FALSE /\ timer' = "none"

Resize ==
  /\ loop = "free" /\ Free
  /\ cancelCursorSettle
  /\ stale' = TRUE /\ dirty' = TRUE
  /\ UNCHANGED <<state, owner, text, workerVars, orphans, settling, announcing, quiet, events, moved, loop, plugVars, childVars>>

Close ==
  /\ loop = "free"
  /\ closed' = TRUE
  /\ loop' = "closing"
  /\ UNCHANGED <<state, owner, text, workerVars, cursorVars, drawVars, pipe, pty, childVars>>

(* A plausible slip: the pipe is left to the pseudo terminal.              *)
CloseLockedLeavesPipe ==
  /\ loop = "closing" /\ Free
  /\ cancelCursorSettle
  /\ child' = "gone"
  /\ loop' = "unplug"
  /\ UNCHANGED <<state, owner, text, workerVars, orphans, settling, announcing, quiet, drawVars, plugVars, input, waiting>>

(* With the lock: the process is killed and the input pipe closed.         *)
CloseLocked ==
  /\ loop = "closing" /\ Free
  /\ cancelCursorSettle
  /\ child' = "gone"
  /\ pipe' = FALSE
  /\ loop' = "unplug"
  /\ UNCHANGED <<state, owner, text, workerVars, orphans, settling, announcing, quiet, drawVars, closed, pty, input, waiting>>

ClosePty ==
  /\ loop = "unplug"
  /\ pty' = FALSE
  /\ loop' = "joining"
  /\ UNCHANGED <<state, owner, text, workerVars, cursorVars, drawVars, closed, pipe, childVars>>

Join ==
  /\ loop = "joining" /\ Free
  /\ output = "done" /\ forward = "done" /\ exit = "done" /\ resume \in {"none", "done"}
  /\ loop' = "closed"
  /\ UNCHANGED <<state, owner, text, workerVars, cursorVars, drawVars, plugVars, childVars>>

-----------------------------------------------------------------------------
(* The child                                                               *)
ChildReads ==
  /\ child = "ready" /\ input > 0
  /\ input' = input - 1
  /\ child' \in {"ready", "busy"}
  /\ UNCHANGED <<state, owner, text, workerVars, cursorVars, drawVars, loop, plugVars, waiting>>

(* It goes on when it has something to say.                                *)
ChildPrints ==
  /\ child = "ready"
  /\ child' = "busy"
  /\ UNCHANGED <<state, owner, text, workerVars, cursorVars, drawVars, loop, plugVars, input, waiting>>

ChildWrites ==
  /\ child = "busy" /\ waiting < OutputRoom
  /\ waiting' = waiting + 1
  /\ child' \in {"ready", "busy"}
  /\ UNCHANGED <<state, owner, text, workerVars, cursorVars, drawVars, loop, plugVars, input>>

ChildExits ==
  /\ child # "gone"
  /\ child' = "gone"
  /\ UNCHANGED <<state, owner, text, workerVars, cursorVars, drawVars, loop, plugVars, input, waiting>>

-----------------------------------------------------------------------------
OutputWorker ==
  \/ ReadOutput \/ ReadEnds \/ SkipScreen \/ WriteScreen \/ ScreenWritten
  \/ NotifyOutput \/ FailOutput \/ ReportOutput
InputWorker == TakeInput \/ PipeEnds \/ WriteInput \/ WriteInputFails \/ FailInput \/ ReportInput
ExitWorker == ExitSeen \/ ReportExit
ResumeWorker == ResumeDue \/ ResumeCancelled \/ ResumeTooLate \/ TypeResume \/ ResumeTyped
CursorTimer == TimerFires \/ SettleNothing \/ SettleEarly \/ Settle \/ AnnounceCursor \/ QuietPasses
Loop == Draw \/ TakeEvents \/ Type \/ Typed \/ Resize \/ Close
Closing == CloseLocked \/ ClosePty \/ Join
ChildGoesOn == ChildReads \/ ChildWrites

Next ==
  \/ OutputWorker \/ InputWorker \/ ExitWorker \/ ResumeWorker \/ CursorTimer
  \/ Loop \/ Closing \/ ChildGoesOn \/ ChildPrints \/ ChildExits

Spec == Init /\ [][Next]_vars

(* Every goroutine that can go on does, and the child keeps doing its part. *)
FairSpec ==
  /\ Spec
  /\ WF_vars(OutputWorker) /\ WF_vars(InputWorker) /\ WF_vars(ExitWorker)
  /\ WF_vars(ResumeWorker) /\ WF_vars(Closing) /\ WF_vars(ChildGoesOn)

-----------------------------------------------------------------------------
FlagsOK ==
  /\ pending \in BOOLEAN /\ quiet \in BOOLEAN /\ stale \in BOOLEAN /\ moved \in BOOLEAN /\ dirty \in BOOLEAN
  /\ closed \in BOOLEAN /\ pipe \in BOOLEAN /\ pty \in BOOLEAN

PlacesOK ==
  /\ state \in {"running", "exited", "failed"}
  /\ owner \in {"none", "output", "resume", "loop"}
  /\ output \in {"read", "have", "write", "notify", "fail", "report", "done"}
  /\ forward \in {"read", "write", "fail", "report", "done"}
  /\ exit \in {"wait", "report", "done"}
  /\ resume \in {"none", "wait", "ready", "typing", "done"}
  /\ timer \in {"none", "armed", "fired"}
  /\ loop \in {"free", "typing", "closing", "unplug", "joining", "closed"}
  /\ child \in {"ready", "busy", "gone"}

CountsOK ==
  /\ text \in 0..MaxText
  /\ orphans \in 0..MaxFired
  /\ settling \in Nat /\ announcing \in Nat /\ settling + announcing <= MaxFired
  /\ events \in 0..EventRoom
  /\ input \in 0..InputRoom /\ waiting \in 0..OutputRoom

(* Types of the session; buffers and channel never exceed their capacity.  *)
TypeOK == FlagsOK /\ PlacesOK /\ CountsOK

(* An exit that was reported is not turned into a failure by a worker that *)
(* sees its pipe break afterwards, nor the other way round: fail and       *)
(* waitForExit agree on who was first.                                     *)
FinalStateSticks == [][state # "running" => state' = state]_vars

(* Events are dropped when the channel is full, but what the child prints, *)
(* its end, the cursor and what the user does to the terminal do not go    *)
(* undrawn: the loop is about to draw, an event is in the channel, or      *)
(* somebody is still to send one.  The exception is the resume command:    *)
(* when it leaves a history or a selection (moved; session.go:350) nobody  *)
(* is told, and the next change of the pane is drawn with it.              *)
Announcing ==
  \/ output \in {"write", "notify", "report"}
  \/ forward = "report" \/ exit = "report" \/ announcing > 0
NoLostUpdate == stale => dirty \/ events > 0 \/ Announcing \/ loop = "typing"

(* A cursor that is held back is going to be shown: until the session is   *)
(* closed there is a timer that runs, or a settleCursor that waits for the *)
(* lock, whatever output, resize and timer do to each other.               *)
CursorWillSettle == pending /\ ~closed => timer = "armed" \/ settling > 0

(* Timers armed, and calls of settleCursor that have not ended.            *)
TimersLeft == (IF timer = "armed" THEN 1 ELSE 0) + orphans + settling + announcing

(* Close waits for its workers but not for the timer of the cursor, which  *)
(* readOutput arms again when it writes what the dead child had printed    *)
(* after Close cancelled it.  When it fires, it finds the session closed:  *)
(* the closed emulator, its cursor, the lock and what was drawn stay as    *)
(* they are, no timer is armed again, and an event is sent only by a call  *)
(* that had decided to before.                                             *)
LateTimersRest ==
  [][loop = "closed" =>
       /\ UNCHANGED <<state, owner, text, pending, stale, moved, dirty>>
       /\ TimersLeft' <= TimersLeft
       /\ events' # events => TimersLeft' < TimersLeft]_vars

(* Once Close has the lock it returns: every worker sees the end of what   *)
(* it waits for, the lock that Close has just given back included.         *)
CloseFinishes == loop = "unplug" ~> loop = "closed"

(* README.md:127: an explicit stop closes every ConPTY and exits.          *)
StopEnds == loop = "closing" ~> loop = "closed"

=============================================================================
