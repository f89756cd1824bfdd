------------------------ MODULE TerminalSessionProofs ------------------------
(***************************************************************************)
(* What holds of a terminal for every size of its texts, buffers and       *)
(* channel, and for any number of cursor timers under way.                 *)
(***************************************************************************)
EXTENDS TerminalSession, TLAPS

LEMMA TypeStep ==
  ASSUME TypeOK, [Next]_vars
  PROVE  TypeOK'
<1> USE TextAssumption, RoomAssumption, FiredAssumption
<1> USE DEF cursorVars, workerVars, drawVars, childVars, plugVars
<1>1. CASE OutputWorker
  <2>1. CASE ReadOutput
    BY <2>1 DEF ReadOutput, TypeOK, FlagsOK, PlacesOK, CountsOK
  <2>2. CASE ReadEnds
    BY <2>2 DEF ReadEnds, TypeOK, FlagsOK, PlacesOK, CountsOK
  <2>3. CASE SkipScreen
    BY <2>3 DEF SkipScreen, TypeOK, FlagsOK, PlacesOK, CountsOK
  <2>4. CASE WriteScreen
    BY <2>4 DEF WriteScreen, Pieces, TypeOK, FlagsOK, PlacesOK, CountsOK
  <2>5. CASE ScreenWritten
    <3>1. FlagsOK'
      BY <2>5, Zenon DEF ScreenWritten, scheduleCursorSettle, TypeOK, FlagsOK
    <3>2. PlacesOK'
      BY <2>5 DEF ScreenWritten, scheduleCursorSettle, TypeOK, PlacesOK
    <3>3. CountsOK'
      BY <2>5 DEF ScreenWritten, scheduleCursorSettle, TypeOK, CountsOK
    <3>4. QED
      BY <3>1, <3>2, <3>3 DEF TypeOK
  <2>6. CASE NotifyOutput
    BY <2>6 DEF NotifyOutput, notify, TypeOK, FlagsOK, PlacesOK, CountsOK
  <2>7. CASE FailOutput
    <3>1. FlagsOK'
      BY <2>7, Zenon DEF FailOutput, fail, TypeOK, FlagsOK
    <3>2. PlacesOK'
      BY <2>7 DEF FailOutput, fail, TypeOK, PlacesOK
    <3>3. CountsOK'
      BY <2>7 DEF FailOutput, fail, TypeOK, CountsOK
    <3>4. QED
      BY <3>1, <3>2, <3>3 DEF TypeOK
  <2>8. CASE ReportOutput
    BY <2>8 DEF ReportOutput, notify, TypeOK, FlagsOK, PlacesOK, CountsOK
  <2>9. QED
    BY <1>1, <2>1, <2>2, <2>3, <2>4, <2>5, <2>6, <2>7, <2>8 DEF OutputWorker
<1>2. CASE InputWorker
  <2>1. CASE TakeInput
    BY <2>1 DEF TakeInput, TypeOK, FlagsOK, PlacesOK, CountsOK
  <2>2. CASE PipeEnds
    BY <2>2 DEF PipeEnds, TypeOK, FlagsOK, PlacesOK, CountsOK
  <2>3. CASE WriteInput
    BY <2>3 DEF WriteInput, TypeOK, FlagsOK, PlacesOK, CountsOK
  <2>4. CASE WriteInputFails
    BY <2>4 DEF WriteInputFails, TypeOK, FlagsOK, PlacesOK, CountsOK
  <2>5. CASE FailInput
    <3>1. FlagsOK'
      BY <2>5, Zenon DEF FailInput, fail, TypeOK, FlagsOK
    <3>2. PlacesOK'
      BY <2>5 DEF FailInput, fail, TypeOK, PlacesOK
    <3>3. CountsOK'
      BY <2>5 DEF FailInput, fail, TypeOK, CountsOK
    <3>4. QED
      BY <3>1, <3>2, <3>3 DEF TypeOK
  <2>6. CASE ReportInput
    BY <2>6 DEF ReportInput, notify, TypeOK, FlagsOK, PlacesOK, CountsOK
  <2>7. QED
    BY <1>2, <2>1, <2>2, <2>3, <2>4, <2>5, <2>6 DEF InputWorker
<1>3. CASE ExitWorker
  <2>1. CASE ExitSeen
    BY <2>1 DEF ExitSeen, TypeOK, FlagsOK, PlacesOK, CountsOK
  <2>2. CASE ReportExit
    BY <2>2 DEF ReportExit, notify, TypeOK, FlagsOK, PlacesOK, CountsOK
  <2>3. QED
    BY <1>3, <2>1, <2>2 DEF ExitWorker
<1>4. CASE ResumeWorker
  <2>1. CASE ResumeDue
    BY <2>1 DEF ResumeDue, TypeOK, FlagsOK, PlacesOK, CountsOK
  <2>2. CASE ResumeCancelled
    BY <2>2 DEF ResumeCancelled, TypeOK, FlagsOK, PlacesOK, CountsOK
  <2>3. CASE ResumeTooLate
    BY <2>3 DEF ResumeTooLate, TypeOK, FlagsOK, PlacesOK, CountsOK
  <2>4. CASE TypeResume
    <3>1. FlagsOK'
      BY <2>4, Zenon DEF TypeResume, TypeOK, FlagsOK
    <3>2. PlacesOK'
      BY <2>4 DEF TypeResume, TypeOK, PlacesOK
    <3>3. CountsOK'
      BY <2>4 DEF TypeResume, Pieces, TypeOK, CountsOK
    <3>4. QED
      BY <3>1, <3>2, <3>3 DEF TypeOK
  <2>5. CASE ResumeTyped
    BY <2>5 DEF ResumeTyped, TypeOK, FlagsOK, PlacesOK, CountsOK
  <2>6. QED
    BY <1>4, <2>1, <2>2, <2>3, <2>4, <2>5 DEF ResumeWorker
<1>5. CASE CursorTimer
  <2>1. CASE TimerFires
    BY <2>1 DEF TimerFires, TypeOK, FlagsOK, PlacesOK, CountsOK
  <2>2. CASE SettleNothing
    BY <2>2 DEF SettleNothing, SettleDue, TypeOK, FlagsOK, PlacesOK, CountsOK
  <2>3. CASE SettleEarly
    BY <2>3 DEF SettleEarly, SettleDue, TypeOK, FlagsOK, PlacesOK, CountsOK
  <2>4. CASE Settle
    <3>1. FlagsOK'
      BY <2>4, Zenon DEF Settle, SettleDue, TypeOK, FlagsOK
    <3>2. PlacesOK'
      BY <2>4 DEF Settle, SettleDue, TypeOK, PlacesOK
    <3>3. CountsOK'
      BY <2>4 DEF Settle, SettleDue, TypeOK, CountsOK
    <3>4. QED
      BY <3>1, <3>2, <3>3 DEF TypeOK
  <2>5. CASE AnnounceCursor
    BY <2>5 DEF AnnounceCursor, notify, TypeOK, FlagsOK, PlacesOK, CountsOK
  <2>6. CASE QuietPasses
    BY <2>6 DEF QuietPasses, TypeOK, FlagsOK, PlacesOK, CountsOK
  <2>7. QED
    BY <1>5, <2>1, <2>2, <2>3, <2>4, <2>5, <2>6 DEF CursorTimer
<1>6. CASE Loop
  <2>1. CASE Draw
    <3>1. FlagsOK'
      BY <2>1, Zenon DEF Draw, TypeOK, FlagsOK
    <3>2. PlacesOK'
      BY <2>1 DEF Draw, TypeOK, PlacesOK
    <3>3. CountsOK'
      BY <2>1 DEF Draw, TypeOK, CountsOK
    <3>4. QED
      BY <3>1, <3>2, <3>3 DEF TypeOK
  <2>2. CASE TakeEvents
    BY <2>2 DEF TakeEvents, TypeOK, FlagsOK, PlacesOK, CountsOK
  <2>3. CASE Type
    BY <2>3 DEF Type, Pieces, TypeOK, FlagsOK, PlacesOK, CountsOK
  <2>4. CASE Typed
    BY <2>4 DEF Typed, TypeOK, FlagsOK, PlacesOK, CountsOK
  <2>5. CASE Resize
    <3>1. FlagsOK'
      BY <2>5, Zenon DEF Resize, cancelCursorSettle, TypeOK, FlagsOK
    <3>2. PlacesOK'
      BY <2>5 DEF Resize, cancelCursorSettle, TypeOK, PlacesOK
    <3>3. CountsOK'
      BY <2>5 DEF Resize, cancelCursorSettle, TypeOK, CountsOK
    <3>4. QED
      BY <3>1, <3>2, <3>3 DEF TypeOK
  <2>6. CASE Close
    BY <2>6 DEF Close, TypeOK, FlagsOK, PlacesOK, CountsOK
  <2>7. QED
    BY <1>6, <2>1, <2>2, <2>3, <2>4, <2>5, <2>6 DEF Loop
<1>7. CASE Closing
  <2>1. CASE CloseLocked
    <3>1. FlagsOK'
      BY <2>1, Zenon DEF CloseLocked, cancelCursorSettle, TypeOK, FlagsOK
    <3>2. PlacesOK'
      BY <2>1 DEF CloseLocked, cancelCursorSettle, TypeOK, PlacesOK
    <3>3. CountsOK'
      BY <2>1 DEF CloseLocked, cancelCursorSettle, TypeOK, CountsOK
    <3>4. QED
      BY <3>1, <3>2, <3>3 DEF TypeOK
  <2>2. CASE ClosePty
    <3>1. FlagsOK'
      BY <2>2, Zenon DEF ClosePty, TypeOK, FlagsOK
    <3>2. PlacesOK'
      BY <2>2 DEF ClosePty, TypeOK, PlacesOK
    <3>3. CountsOK'
      BY <2>2 DEF ClosePty, TypeOK, CountsOK
    <3>4. QED
      BY <3>1, <3>2, <3>3 DEF TypeOK
  <2>3. CASE Join
    BY <2>3 DEF Join, TypeOK, FlagsOK, PlacesOK, CountsOK
  <2>4. QED
    BY <1>7, <2>1, <2>2, <2>3 DEF Closing
<1>8. CASE ChildGoesOn \/ ChildPrints \/ ChildExits
  <2>1. CASE ChildReads
    BY <2>1 DEF ChildReads, TypeOK, FlagsOK, PlacesOK, CountsOK
  <2>2. CASE ChildWrites
    BY <2>2 DEF ChildWrites, TypeOK, FlagsOK, PlacesOK, CountsOK
  <2>3. CASE ChildPrints
    BY <2>3 DEF ChildPrints, TypeOK, FlagsOK, PlacesOK, CountsOK
  <2>4. CASE ChildExits
    BY <2>4 DEF ChildExits, TypeOK, FlagsOK, PlacesOK, CountsOK
  <2>5. QED
    BY <1>8, <2>1, <2>2, <2>3, <2>4 DEF ChildGoesOn
<1>9. CASE UNCHANGED vars
  BY <1>9 DEF vars, TypeOK, FlagsOK, PlacesOK, CountsOK
<1>10. QED
  BY <1>1, <1>2, <1>3, <1>4, <1>5, <1>6, <1>7, <1>8, <1>9 DEF Next

(* Type correctness: in particular the channel of events never holds more  *)
(* than its capacity, and no count goes below zero.                        *)
THEOREM Typing == Spec => []TypeOK
<1>1. Init => TypeOK
  <2>1. Init => FlagsOK
    BY Zenon DEF Init, FlagsOK
  <2>2. Init => PlacesOK
    BY DEF Init, PlacesOK
  <2>3. Init => CountsOK
    BY TextAssumption, RoomAssumption, FiredAssumption DEF Init, CountsOK
  <2>4. QED
    BY <2>1, <2>2, <2>3 DEF TypeOK
<1>2. TypeOK /\ [Next]_vars => TypeOK'
  BY TypeStep
<1>3. QED
  BY <1>1, <1>2, PTL DEF Spec

-----------------------------------------------------------------------------
LEMMA FinalStep ==
  ASSUME TypeOK, [Next]_vars, state # "running"
  PROVE  state' = state
<1> USE DEF TypeOK, PlacesOK
<1> USE DEF cursorVars, workerVars, drawVars, childVars, plugVars
<1>1. CASE OutputWorker
  <2>1. CASE ReadOutput
    BY <2>1 DEF ReadOutput
  <2>2. CASE ReadEnds
    BY <2>2 DEF ReadEnds
  <2>3. CASE SkipScreen
    BY <2>3 DEF SkipScreen
  <2>4. CASE WriteScreen
    BY <2>4 DEF WriteScreen, Pieces
  <2>5. CASE ScreenWritten
    BY <2>5 DEF ScreenWritten, scheduleCursorSettle
  <2>6. CASE NotifyOutput
    BY <2>6 DEF NotifyOutput, notify
  <2>7. CASE FailOutput
    BY <2>7 DEF FailOutput, fail
  <2>8. CASE ReportOutput
    BY <2>8 DEF ReportOutput, notify
  <2>9. QED
    BY <1>1, <2>1, <2>2, <2>3, <2>4, <2>5, <2>6, <2>7, <2>8 DEF OutputWorker
<1>2. CASE InputWorker
  <2>1. CASE TakeInput
    BY <2>1 DEF TakeInput
  <2>2. CASE PipeEnds
    BY <2>2 DEF PipeEnds
  <2>3. CASE WriteInput
    BY <2>3 DEF WriteInput
  <2>4. CASE WriteInputFails
    BY <2>4 DEF WriteInputFails
  <2>5. CASE FailInput
    BY <2>5 DEF FailInput, fail
  <2>6. CASE ReportInput
    BY <2>6 DEF ReportInput, notify
  <2>7. QED
    BY <1>2, <2>1, <2>2, <2>3, <2>4, <2>5, <2>6 DEF InputWorker
<1>3. CASE ExitWorker
  <2>1. CASE ExitSeen
    BY <2>1 DEF ExitSeen
  <2>2. CASE ReportExit
    BY <2>2 DEF ReportExit, notify
  <2>3. QED
    BY <1>3, <2>1, <2>2 DEF ExitWorker
<1>4. CASE ResumeWorker
  <2>1. CASE ResumeDue
    BY <2>1 DEF ResumeDue
  <2>2. CASE ResumeCancelled
    BY <2>2 DEF ResumeCancelled
  <2>3. CASE ResumeTooLate
    BY <2>3 DEF ResumeTooLate
  <2>4. CASE TypeResume
    BY <2>4 DEF TypeResume, Pieces
  <2>5. CASE ResumeTyped
    BY <2>5 DEF ResumeTyped
  <2>6. QED
    BY <1>4, <2>1, <2>2, <2>3, <2>4, <2>5 DEF ResumeWorker
<1>5. CASE CursorTimer
  <2>1. CASE TimerFires
    BY <2>1 DEF TimerFires
  <2>2. CASE SettleNothing
    BY <2>2 DEF SettleNothing, SettleDue
  <2>3. CASE SettleEarly
    BY <2>3 DEF SettleEarly, SettleDue
  <2>4. CASE Settle
    BY <2>4 DEF Settle, SettleDue
  <2>5. CASE AnnounceCursor
    BY <2>5 DEF AnnounceCursor, notify
  <2>6. CASE QuietPasses
    BY <2>6 DEF QuietPasses
  <2>7. QED
    BY <1>5, <2>1, <2>2, <2>3, <2>4, <2>5, <2>6 DEF CursorTimer
<1>6. CASE Loop
  <2>1. CASE Draw
    BY <2>1 DEF Draw
  <2>2. CASE TakeEvents
    BY <2>2 DEF TakeEvents
  <2>3. CASE Type
    BY <2>3 DEF Type, Pieces
  <2>4. CASE Typed
    BY <2>4 DEF Typed
  <2>5. CASE Resize
    BY <2>5 DEF Resize, cancelCursorSettle
  <2>6. CASE Close
    BY <2>6 DEF Close
  <2>7. QED
    BY <1>6, <2>1, <2>2, <2>3, <2>4, <2>5, <2>6 DEF Loop
<1>7. CASE Closing
  <2>1. CASE CloseLocked
    BY <2>1 DEF CloseLocked, cancelCursorSettle
  <2>2. CASE ClosePty
    BY <2>2 DEF ClosePty
  <2>3. CASE Join
    BY <2>3 DEF Join
  <2>4. QED
    BY <1>7, <2>1, <2>2, <2>3 DEF Closing
<1>8. CASE ChildGoesOn \/ ChildPrints \/ ChildExits
  <2>1. CASE ChildReads
    BY <2>1 DEF ChildReads
  <2>2. CASE ChildWrites
    BY <2>2 DEF ChildWrites
  <2>3. CASE ChildPrints
    BY <2>3 DEF ChildPrints
  <2>4. CASE ChildExits
    BY <2>4 DEF ChildExits
  <2>5. QED
    BY <1>8, <2>1, <2>2, <2>3, <2>4 DEF ChildGoesOn
<1>9. CASE UNCHANGED vars
  BY <1>9 DEF vars
<1>10. QED
  BY <1>1, <1>2, <1>3, <1>4, <1>5, <1>6, <1>7, <1>8, <1>9 DEF Next

(* Whoever of waitForExit and the failing workers comes first decides how  *)
(* the session ended; nobody who comes later changes it.                   *)
THEOREM FinalState == Spec => FinalStateSticks
<1>1. TypeOK /\ [Next]_vars => [state # "running" => state' = state]_vars
  BY FinalStep
<1>2. QED
  BY <1>1, Typing, PTL DEF Spec, FinalStateSticks

-----------------------------------------------------------------------------
LEMMA UpdateStep ==
  ASSUME TypeOK, NoLostUpdate, [Next]_vars
  PROVE  NoLostUpdate'
<1> USE RoomAssumption DEF TypeOK, PlacesOK, CountsOK
<1> USE DEF cursorVars, workerVars, drawVars, childVars, plugVars
<1>1. CASE OutputWorker
  <2>1. CASE ReadOutput
    BY <2>1 DEF ReadOutput, NoLostUpdate, Announcing
  <2>2. CASE ReadEnds
    BY <2>2 DEF ReadEnds, NoLostUpdate, Announcing
  <2>3. CASE SkipScreen
    BY <2>3 DEF SkipScreen, NoLostUpdate, Announcing
  <2>4. CASE WriteScreen
    BY <2>4 DEF WriteScreen, Pieces, NoLostUpdate, Announcing
  <2>5. CASE ScreenWritten
    BY <2>5 DEF ScreenWritten, scheduleCursorSettle, NoLostUpdate, Announcing
  <2>6. CASE NotifyOutput
    BY <2>6 DEF NotifyOutput, notify, NoLostUpdate, Announcing
  <2>7. CASE FailOutput
    BY <2>7 DEF FailOutput, fail, NoLostUpdate, Announcing
  <2>8. CASE ReportOutput
    BY <2>8 DEF ReportOutput, notify, NoLostUpdate, Announcing
  <2>9. QED
    BY <1>1, <2>1, <2>2, <2>3, <2>4, <2>5, <2>6, <2>7, <2>8 DEF OutputWorker
<1>2. CASE InputWorker
  <2>1. CASE TakeInput
    BY <2>1 DEF TakeInput, NoLostUpdate, Announcing
  <2>2. CASE PipeEnds
    BY <2>2 DEF PipeEnds, NoLostUpdate, Announcing
  <2>3. CASE WriteInput
    BY <2>3 DEF WriteInput, NoLostUpdate, Announcing
  <2>4. CASE WriteInputFails
    BY <2>4 DEF WriteInputFails, NoLostUpdate, Announcing
  <2>5. CASE FailInput
    BY <2>5 DEF FailInput, fail, NoLostUpdate, Announcing
  <2>6. CASE ReportInput
    BY <2>6 DEF ReportInput, notify, NoLostUpdate, Announcing
  <2>7. QED
    BY <1>2, <2>1, <2>2, <2>3, <2>4, <2>5, <2>6 DEF InputWorker
<1>3. CASE ExitWorker
  <2>1. CASE ExitSeen
    BY <2>1 DEF ExitSeen, NoLostUpdate, Announcing
  <2>2. CASE ReportExit
    BY <2>2 DEF ReportExit, notify, NoLostUpdate, Announcing
  <2>3. QED
    BY <1>3, <2>1, <2>2 DEF ExitWorker
<1>4. CASE ResumeWorker
  <2>1. CASE ResumeDue
    BY <2>1 DEF ResumeDue, NoLostUpdate, Announcing
  <2>2. CASE ResumeCancelled
    BY <2>2 DEF ResumeCancelled, NoLostUpdate, Announcing
  <2>3. CASE ResumeTooLate
    BY <2>3 DEF ResumeTooLate, NoLostUpdate, Announcing
  <2>4. CASE TypeResume
    BY <2>4 DEF TypeResume, Pieces, NoLostUpdate, Announcing
  <2>5. CASE ResumeTyped
    BY <2>5 DEF ResumeTyped, NoLostUpdate, Announcing
  <2>6. QED
    BY <1>4, <2>1, <2>2, <2>3, <2>4, <2>5 DEF ResumeWorker
<1>5. CASE CursorTimer
  <2>1. CASE TimerFires
    BY <2>1 DEF TimerFires, NoLostUpdate, Announcing
  <2>2. CASE SettleNothing
    BY <2>2 DEF SettleNothing, SettleDue, NoLostUpdate, Announcing
  <2>3. CASE SettleEarly
    BY <2>3 DEF SettleEarly, SettleDue, NoLostUpdate, Announcing
  <2>4. CASE Settle
    <3>1. (announcing' = announcing /\ stale' = stale) \/ announcing' = announcing + 1
      BY <2>4, Zenon DEF Settle, SettleDue
    <3>2. UNCHANGED <<output, forward, exit, events, dirty, loop>>
      BY <2>4, Zenon DEF Settle, SettleDue
    <3>3. announcing' = announcing + 1 => announcing' > 0
      BY <2>4 DEF Settle, SettleDue
    <3>4. QED
      BY <3>1, <3>2, <3>3 DEF NoLostUpdate, Announcing
  <2>5. CASE AnnounceCursor
    BY <2>5 DEF AnnounceCursor, notify, NoLostUpdate, Announcing
  <2>6. CASE QuietPasses
    BY <2>6 DEF QuietPasses, NoLostUpdate, Announcing
  <2>7. QED
    BY <1>5, <2>1, <2>2, <2>3, <2>4, <2>5, <2>6 DEF CursorTimer
<1>6. CASE Loop
  <2>1. CASE Draw
    BY <2>1 DEF Draw, NoLostUpdate, Announcing
  <2>2. CASE TakeEvents
    BY <2>2 DEF TakeEvents, NoLostUpdate, Announcing
  <2>3. CASE Type
    BY <2>3 DEF Type, Pieces, NoLostUpdate, Announcing
  <2>4. CASE Typed
    BY <2>4 DEF Typed, NoLostUpdate, Announcing
  <2>5. CASE Resize
    BY <2>5 DEF Resize, cancelCursorSettle, NoLostUpdate, Announcing
  <2>6. CASE Close
    BY <2>6 DEF Close, NoLostUpdate, Announcing
  <2>7. QED
    BY <1>6, <2>1, <2>2, <2>3, <2>4, <2>5, <2>6 DEF Loop
<1>7. CASE Closing
  <2>1. CASE CloseLocked
    BY <2>1 DEF CloseLocked, cancelCursorSettle, NoLostUpdate, Announcing
  <2>2. CASE ClosePty
    BY <2>2 DEF ClosePty, NoLostUpdate, Announcing
  <2>3. CASE Join
    BY <2>3 DEF Join, NoLostUpdate, Announcing
  <2>4. QED
    BY <1>7, <2>1, <2>2, <2>3 DEF Closing
<1>8. CASE ChildGoesOn \/ ChildPrints \/ ChildExits
  <2>1. CASE ChildReads
    BY <2>1 DEF ChildReads, NoLostUpdate, Announcing
  <2>2. CASE ChildWrites
    BY <2>2 DEF ChildWrites, NoLostUpdate, Announcing
  <2>3. CASE ChildPrints
    BY <2>3 DEF ChildPrints, NoLostUpdate, Announcing
  <2>4. CASE ChildExits
    BY <2>4 DEF ChildExits, NoLostUpdate, Announcing
  <2>5. QED
    BY <1>8, <2>1, <2>2, <2>3, <2>4 DEF ChildGoesOn
<1>9. CASE UNCHANGED vars
  BY <1>9 DEF vars, NoLostUpdate, Announcing
<1>10. QED
  BY <1>1, <1>2, <1>3, <1>4, <1>5, <1>6, <1>7, <1>8, <1>9 DEF Next

(* A full channel drops events and yet nothing the child, the cursor or    *)
(* the user changed goes undrawn: there is always somebody who will send,  *)
(* something to be received, or a drawing that is due.  The view that the  *)
(* resume command moves is the exception the invariant leaves out.         *)
THEOREM UpdateSafety == Spec => []NoLostUpdate
<1>1. Init => NoLostUpdate
  BY DEF Init, NoLostUpdate
<1>2. TypeOK /\ NoLostUpdate /\ [Next]_vars => NoLostUpdate'
  BY UpdateStep
<1>3. QED
  BY <1>1, <1>2, Typing, PTL DEF Spec

-----------------------------------------------------------------------------
(* The strengthening: a cursor that is held back has a timer that          *)
(* settleCursor can set again.                                             *)
CursorInv == CursorWillSettle /\ (pending => timer # "none")

LEMMA CursorStep ==
  ASSUME TypeOK, CursorInv, [Next]_vars
  PROVE  CursorInv'
<1> USE FiredAssumption DEF TypeOK, PlacesOK, CountsOK
<1> USE DEF cursorVars, workerVars, drawVars, childVars, plugVars, CursorInv, CursorWillSettle
<1>1. CASE OutputWorker
  <2>1. CASE ReadOutput
    BY <2>1 DEF ReadOutput
  <2>2. CASE ReadEnds
    BY <2>2 DEF ReadEnds
  <2>3. CASE SkipScreen
    BY <2>3 DEF SkipScreen
  <2>4. CASE WriteScreen
    BY <2>4 DEF WriteScreen, Pieces
  <2>5. CASE ScreenWritten
    BY <2>5 DEF ScreenWritten, scheduleCursorSettle
  <2>6. CASE NotifyOutput
    BY <2>6 DEF NotifyOutput, notify
  <2>7. CASE FailOutput
    BY <2>7 DEF FailOutput, fail
  <2>8. CASE ReportOutput
    BY <2>8 DEF ReportOutput, notify
  <2>9. QED
    BY <1>1, <2>1, <2>2, <2>3, <2>4, <2>5, <2>6, <2>7, <2>8 DEF OutputWorker
<1>2. CASE InputWorker
  <2>1. CASE TakeInput
    BY <2>1 DEF TakeInput
  <2>2. CASE PipeEnds
    BY <2>2 DEF PipeEnds
  <2>3. CASE WriteInput
    BY <2>3 DEF WriteInput
  <2>4. CASE WriteInputFails
    BY <2>4 DEF WriteInputFails
  <2>5. CASE FailInput
    BY <2>5 DEF FailInput, fail
  <2>6. CASE ReportInput
    BY <2>6 DEF ReportInput, notify
  <2>7. QED
    BY <1>2, <2>1, <2>2, <2>3, <2>4, <2>5, <2>6 DEF InputWorker
<1>3. CASE ExitWorker
  <2>1. CASE ExitSeen
    BY <2>1 DEF ExitSeen
  <2>2. CASE ReportExit
    BY <2>2 DEF ReportExit, notify
  <2>3. QED
    BY <1>3, <2>1, <2>2 DEF ExitWorker
<1>4. CASE ResumeWorker
  <2>1. CASE ResumeDue
    BY <2>1 DEF ResumeDue
  <2>2. CASE ResumeCancelled
    BY <2>2 DEF ResumeCancelled
  <2>3. CASE ResumeTooLate
    BY <2>3 DEF ResumeTooLate
  <2>4. CASE TypeResume
    BY <2>4 DEF TypeResume, Pieces
  <2>5. CASE ResumeTyped
    BY <2>5 DEF ResumeTyped
  <2>6. QED
    BY <1>4, <2>1, <2>2, <2>3, <2>4, <2>5 DEF ResumeWorker
<1>5. CASE CursorTimer
  <2>1. CASE TimerFires
    BY <2>1 DEF TimerFires
  <2>2. CASE SettleNothing
    BY <2>2 DEF SettleNothing, SettleDue
  <2>3. CASE SettleEarly
    BY <2>3 DEF SettleEarly, SettleDue
  <2>4. CASE Settle
    BY <2>4 DEF Settle, SettleDue
  <2>5. CASE AnnounceCursor
    BY <2>5 DEF AnnounceCursor, notify
  <2>6. CASE QuietPasses
    BY <2>6 DEF QuietPasses
  <2>7. QED
    BY <1>5, <2>1, <2>2, <2>3, <2>4, <2>5, <2>6 DEF CursorTimer
<1>6. CASE Loop
  <2>1. CASE Draw
    BY <2>1 DEF Draw
  <2>2. CASE TakeEvents
    BY <2>2 DEF TakeEvents
  <2>3. CASE Type
    BY <2>3 DEF Type, Pieces
  <2>4. CASE Typed
    BY <2>4 DEF Typed
  <2>5. CASE Resize
    BY <2>5 DEF Resize, cancelCursorSettle
  <2>6. CASE Close
    BY <2>6 DEF Close
  <2>7. QED
    BY <1>6, <2>1, <2>2, <2>3, <2>4, <2>5, <2>6 DEF Loop
<1>7. CASE Closing
  <2>1. CASE CloseLocked
    BY <2>1 DEF CloseLocked, cancelCursorSettle
  <2>2. CASE ClosePty
    BY <2>2 DEF ClosePty
  <2>3. CASE Join
    BY <2>3 DEF Join
  <2>4. QED
    BY <1>7, <2>1, <2>2, <2>3 DEF Closing
<1>8. CASE ChildGoesOn \/ ChildPrints \/ ChildExits
  <2>1. CASE ChildReads
    BY <2>1 DEF ChildReads
  <2>2. CASE ChildWrites
    BY <2>2 DEF ChildWrites
  <2>3. CASE ChildPrints
    BY <2>3 DEF ChildPrints
  <2>4. CASE ChildExits
    BY <2>4 DEF ChildExits
  <2>5. QED
    BY <1>8, <2>1, <2>2, <2>3, <2>4 DEF ChildGoesOn
<1>9. CASE UNCHANGED vars
  BY <1>9 DEF vars
<1>10. QED
  BY <1>1, <1>2, <1>3, <1>4, <1>5, <1>6, <1>7, <1>8, <1>9 DEF Next

(* Output, resizes and timers may overtake each other in any way: a cursor *)
(* that is held back is not left without a timer and without a settleCursor. *)
THEOREM CursorSafety == Spec => []CursorWillSettle
<1>1. Init => CursorInv
  BY DEF Init, CursorInv, CursorWillSettle
<1>2. TypeOK /\ CursorInv /\ [Next]_vars => CursorInv'
  BY CursorStep
<1>3. CursorInv => CursorWillSettle
  BY DEF CursorInv
<1>4. QED
  BY <1>1, <1>2, <1>3, Typing, PTL DEF Spec

-----------------------------------------------------------------------------
(* What holds once Close has been called: the channel is closed, and when  *)
(* it has returned no worker is left and nobody has the lock.              *)
WorkersGone ==
  /\ output = "done" /\ forward = "done" /\ exit = "done"
  /\ resume \in {"none", "done"} /\ owner = "none"

CloseInv ==
  /\ loop \in {"closing", "unplug", "joining", "closed"} => closed
  /\ loop = "closed" => WorkersGone

LEMMA CloseStep ==
  ASSUME CloseInv, [Next]_vars
  PROVE  CloseInv'
<1> USE DEF cursorVars, workerVars, drawVars, childVars, plugVars, CloseInv, WorkersGone, Free
<1>1. CASE OutputWorker
  <2>1. CASE ReadOutput
    BY <2>1 DEF ReadOutput
  <2>2. CASE ReadEnds
    BY <2>2 DEF ReadEnds
  <2>3. CASE SkipScreen
    BY <2>3 DEF SkipScreen
  <2>4. CASE WriteScreen
    BY <2>4 DEF WriteScreen, Pieces
  <2>5. CASE ScreenWritten
    BY <2>5 DEF ScreenWritten, scheduleCursorSettle
  <2>6. CASE NotifyOutput
    BY <2>6 DEF NotifyOutput, notify
  <2>7. CASE FailOutput
    BY <2>7 DEF FailOutput, fail
  <2>8. CASE ReportOutput
    BY <2>8 DEF ReportOutput, notify
  <2>9. QED
    BY <1>1, <2>1, <2>2, <2>3, <2>4, <2>5, <2>6, <2>7, <2>8 DEF OutputWorker
<1>2. CASE InputWorker
  <2>1. CASE TakeInput
    BY <2>1 DEF TakeInput
  <2>2. CASE PipeEnds
    BY <2>2 DEF PipeEnds
  <2>3. CASE WriteInput
    BY <2>3 DEF WriteInput
  <2>4. CASE WriteInputFails
    BY <2>4 DEF WriteInputFails
  <2>5. CASE FailInput
    BY <2>5 DEF FailInput, fail
  <2>6. CASE ReportInput
    BY <2>6 DEF ReportInput, notify
  <2>7. QED
    BY <1>2, <2>1, <2>2, <2>3, <2>4, <2>5, <2>6 DEF InputWorker
<1>3. CASE ExitWorker
  <2>1. CASE ExitSeen
    BY <2>1 DEF ExitSeen
  <2>2. CASE ReportExit
    BY <2>2 DEF ReportExit, notify
  <2>3. QED
    BY <1>3, <2>1, <2>2 DEF ExitWorker
<1>4. CASE ResumeWorker
  <2>1. CASE ResumeDue
    BY <2>1 DEF ResumeDue
  <2>2. CASE ResumeCancelled
    BY <2>2 DEF ResumeCancelled
  <2>3. CASE ResumeTooLate
    BY <2>3 DEF ResumeTooLate
  <2>4. CASE TypeResume
    BY <2>4 DEF TypeResume, Pieces
  <2>5. CASE ResumeTyped
    BY <2>5 DEF ResumeTyped
  <2>6. QED
    BY <1>4, <2>1, <2>2, <2>3, <2>4, <2>5 DEF ResumeWorker
<1>5. CASE CursorTimer
  <2>1. CASE TimerFires
    BY <2>1 DEF TimerFires
  <2>2. CASE SettleNothing
    BY <2>2 DEF SettleNothing, SettleDue
  <2>3. CASE SettleEarly
    BY <2>3 DEF SettleEarly, SettleDue
  <2>4. CASE Settle
    BY <2>4 DEF Settle, SettleDue
  <2>5. CASE AnnounceCursor
    BY <2>5 DEF AnnounceCursor, notify
  <2>6. CASE QuietPasses
    BY <2>6 DEF QuietPasses
  <2>7. QED
    BY <1>5, <2>1, <2>2, <2>3, <2>4, <2>5, <2>6 DEF CursorTimer
<1>6. CASE Loop
  <2>1. CASE Draw
    BY <2>1 DEF Draw
  <2>2. CASE TakeEvents
    BY <2>2 DEF TakeEvents
  <2>3. CASE Type
    BY <2>3 DEF Type, Pieces
  <2>4. CASE Typed
    BY <2>4 DEF Typed
  <2>5. CASE Resize
    BY <2>5 DEF Resize, cancelCursorSettle
  <2>6. CASE Close
    BY <2>6 DEF Close
  <2>7. QED
    BY <1>6, <2>1, <2>2, <2>3, <2>4, <2>5, <2>6 DEF Loop
<1>7. CASE Closing
  <2>1. CASE CloseLocked
    BY <2>1 DEF CloseLocked, cancelCursorSettle
  <2>2. CASE ClosePty
    BY <2>2 DEF ClosePty
  <2>3. CASE Join
    BY <2>3 DEF Join
  <2>4. QED
    BY <1>7, <2>1, <2>2, <2>3 DEF Closing
<1>8. CASE ChildGoesOn \/ ChildPrints \/ ChildExits
  <2>1. CASE ChildReads
    BY <2>1 DEF ChildReads
  <2>2. CASE ChildWrites
    BY <2>2 DEF ChildWrites
  <2>3. CASE ChildPrints
    BY <2>3 DEF ChildPrints
  <2>4. CASE ChildExits
    BY <2>4 DEF ChildExits
  <2>5. QED
    BY <1>8, <2>1, <2>2, <2>3, <2>4 DEF ChildGoesOn
<1>9. CASE UNCHANGED vars
  BY <1>9 DEF vars
<1>10. QED
  BY <1>1, <1>2, <1>3, <1>4, <1>5, <1>6, <1>7, <1>8, <1>9 DEF Next

(* Of all steps only those of timers and child are left after Close.       *)
LEMMA LateStep ==
  ASSUME TypeOK, CloseInv, [Next]_vars, loop = "closed"
  PROVE  \/ UNCHANGED vars
         \/ CursorTimer
         \/ ChildGoesOn \/ ChildPrints \/ ChildExits
<1> USE DEF CloseInv, WorkersGone
<1>1. ~OutputWorker
  BY DEF OutputWorker, ReadOutput, ReadEnds, SkipScreen, WriteScreen, ScreenWritten,
         NotifyOutput, FailOutput, ReportOutput
<1>2. ~InputWorker
  BY DEF InputWorker, TakeInput, PipeEnds, WriteInput, WriteInputFails, FailInput, ReportInput
<1>3. ~ExitWorker
  BY DEF ExitWorker, ExitSeen, ReportExit
<1>4. ~ResumeWorker
  BY DEF ResumeWorker, ResumeDue, ResumeCancelled, ResumeTooLate, TypeResume, ResumeTyped
<1>5. ~Loop
  BY DEF Loop, Draw, TakeEvents, Type, Typed, Resize, Close
<1>6. ~Closing
  BY DEF Closing, CloseLocked, ClosePty, Join
<1>7. QED
  BY <1>1, <1>2, <1>3, <1>4, <1>5, <1>6 DEF Next

(* A step that leaves a closed session alone.                              *)
Rest ==
  /\ UNCHANGED <<state, owner, text, pending, stale, moved, dirty>>
  /\ TimersLeft' <= TimersLeft
  /\ events' # events => TimersLeft' < TimersLeft

LEMMA RestStep ==
  ASSUME TypeOK, CloseInv, [Next]_vars, loop = "closed"
  PROVE  Rest
<1> USE FiredAssumption DEF TypeOK, PlacesOK, CountsOK
<1> USE DEF cursorVars, workerVars, drawVars, childVars, plugVars, Rest, TimersLeft
<1>1. closed
  BY DEF CloseInv
<1>2. CASE TimerFires
  BY <1>2 DEF TimerFires
<1>3. CASE SettleNothing
  BY <1>3 DEF SettleNothing, SettleDue
<1>4. CASE SettleEarly
  BY <1>1, <1>4 DEF SettleEarly
<1>5. CASE Settle
  BY <1>1, <1>5 DEF Settle
<1>6. CASE AnnounceCursor
  BY <1>6 DEF AnnounceCursor
<1>7. CASE QuietPasses
  BY <1>7 DEF QuietPasses
<1>8. CASE ChildGoesOn \/ ChildPrints \/ ChildExits
  BY <1>8 DEF ChildGoesOn, ChildReads, ChildWrites, ChildPrints, ChildExits
<1>9. CASE UNCHANGED vars
  BY <1>9 DEF vars
<1>10. QED
  BY <1>2, <1>3, <1>4, <1>5, <1>6, <1>7, <1>8, <1>9, LateStep DEF CursorTimer

(* A timer that fires after Close returned, whoever armed it, changes       *)
(* neither the screen nor the cursor, keeps no lock, arms no other timer,  *)
(* and says nothing that was not decided before.                           *)
THEOREM LateTimersSafety == Spec => LateTimersRest
<1>1. Init => CloseInv
  BY DEF Init, CloseInv
<1>2. CloseInv /\ [Next]_vars => CloseInv'
  BY CloseStep
<1>3. TypeOK /\ CloseInv /\ [Next]_vars => [loop = "closed" => Rest]_vars
  BY RestStep
<1>4. [loop = "closed" => Rest]_vars
      => [loop = "closed" =>
            /\ UNCHANGED <<state, owner, text, pending, stale, moved, dirty>>
            /\ TimersLeft' <= TimersLeft
            /\ events' # events => TimersLeft' < TimersLeft]_vars
  BY Zenon DEF Rest
<1>5. QED
  BY <1>1, <1>2, <1>3, <1>4, Typing, PTL DEF Spec, LateTimersRest
=============================================================================
