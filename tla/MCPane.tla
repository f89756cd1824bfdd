-------------------------------- MODULE MCPane --------------------------------
(***************************************************************************)
(* What goes on in one pane: its terminal is closed while its workers are  *)
(* about (TerminalSession), and the sidebar follows its agent              *)
(* (AgentTracker).  They have no variable in common, so a behaviour moves  *)
(* one of them and the other stays as it began.                            *)
(***************************************************************************)
EXTENDS TerminalSession, AgentTracker

VARIABLE part   \* the part that moves

InTerminal(step) == part = "terminal" /\ step /\ UNCHANGED <<part, trackerVars>>
InTracker(step) == part = "tracker" /\ step /\ UNCHANGED <<part, vars>>

PaneInit ==
  /\ Init /\ TrackerInit
  /\ part \in {"terminal", "tracker"}
  /\ resume = IF part = "terminal" THEN "wait" ELSE "none"

PaneNext ==
  \/ InTerminal(OutputWorker)
  \/ InTerminal(InputWorker)
  \/ InTerminal(ExitWorker)
  \/ InTerminal(ResumeWorker)
  \/ InTerminal(CursorTimer)
  \/ InTerminal(Loop)
  \/ InTerminal(Closing)
  \/ InTerminal(ChildGoesOn)
  \/ InTerminal(ChildPrints)
  \/ InTerminal(ChildExits)
  \/ InTracker(Refresh)
  \/ InTracker(Enter)
  \/ InTracker(Esc)
  \/ \E a \in Agents : InTracker(StartAgent(a))
  \/ InTracker(ExitAgent)
  \/ InTracker(TimePasses)
  \/ \E new \in SUBSET {"blocked", "working", "idle"} : InTracker(ScreenChanges(new))

(* The fairness of the two parts; the workers of the terminal rest in PaneInit *)
(* when it is the tracker that moves.                                          *)
PaneSpec ==
  /\ PaneInit /\ [][PaneNext]_<<part, vars, trackerVars>>
  /\ WF_vars(OutputWorker) /\ WF_vars(InputWorker) /\ WF_vars(ExitWorker)
  /\ WF_vars(ResumeWorker) /\ WF_vars(Closing) /\ WF_vars(ChildGoesOn)
  /\ WF_trackerVars(Refresh) /\ WF_trackerVars(InTracker(TimePasses))

=============================================================================
