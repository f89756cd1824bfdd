------------------------------ MODULE AgentTracker ------------------------------
(***************************************************************************)
(* What the sidebar says of the agent in one pane: agent.Tracker           *)
(* (src/internal/agent/agent.go) judges the screen, the title and the last *)
(* output at every scan, and Enter and Esc are noted when they are typed   *)
(* (src/internal/app/model.go).  Marks on the screen come late, stay too   *)
(* long or are missing, so several of the rules are about time.            *)
(*                                                                         *)
(* Deadlines are kept as the time that is left, and times as the time that *)
(* has passed, up to the last value a rule asks for.  A scan whose process *)
(* list cannot be read changes nothing.                                    *)
(***************************************************************************)
EXTENDS Naturals

CONSTANTS
  Agents,     \* processes of agents; Nobody: none is found in the pane
  Nobody,
  Grace,      \* startupGrace
  Hold,       \* submissionHold
  Window,     \* outputActiveWindow
  Display     \* interruptionDisplay

ASSUME NobodyAssumption == Nobody \notin Agents

(* The durations in the code are ordered like this. *)
ASSUME TimesAssumption ==
  /\ Grace \in Nat /\ Hold \in Nat /\ Window \in Nat /\ Display \in Nat
  /\ Window < Hold /\ Hold < Display /\ Display < Grace

VARIABLES
  agent,      \* what discoverAgent finds in the pane
  marks,      \* what it shows: "blocked", "working" and "idle"
  silence,    \* time since the terminal printed
  tracked,    \* Tracker.states[pane]
  shown,      \* Model.agents[pane]
  lapse,      \* time since the last Esc that interrupted the agent, if known
  busy        \* since then Enter was typed, or the agent was still at it when
              \* the interruption had been shown long enough

paneVars == <<agent, marks, silence>>
trackerVars == <<paneVars, tracked, shown, lapse, busy>>

Untracked == [pid |-> Nobody, status |-> "none", age |-> 0, hold |-> 0, esc |-> 0,
              seenWorking |-> FALSE]
Fresh(a) == [Untracked EXCEPT !.pid = a, !.status = "loading"]
View(t) == [pid |-> t.pid, status |-> t.status]

Later(n, last) == IF n < last THEN n + 1 ELSE n
Sooner(n) == IF n > 0 THEN n - 1 ELSE 0

TrackerInit ==
  /\ agent = Nobody /\ marks = {} /\ silence = 0
  /\ tracked = Untracked /\ shown = View(Untracked)
  /\ lapse = Display /\ busy = FALSE

-----------------------------------------------------------------------------
(* detectScreen: a question before a spinner before a prompt. *)
Signal ==
  IF "blocked" \in marks THEN "blocked"
  ELSE IF "working" \in marks THEN "working"
  ELSE IF "idle" \in marks THEN "idle" ELSE "unknown"

outputActive == silence <= Window

(* A plausible slip: an interruption is shown until the next scan. *)
NeverHeld(t) == FALSE
InterruptHeld(t) == t.status = "interrupted" /\ t.esc > 0

(* A plausible slip: a submission that is never over. *)
SubmittedOnce(t) == t.status = "working" /\ (t.seenWorking \/ outputActive)
StillWorking(t) == t.status = "working" /\ (t.hold > 0 \/ outputActive)

Turned(t, status) == [t EXCEPT !.status = status]
AtWork(t) == [Turned(t, "working") EXCEPT !.seenWorking = TRUE]
Stopped(t) == [Turned(t, "idle") EXCEPT !.seenWorking = FALSE]

OnIdle(t) ==
  IF StillWorking(t) THEN t
  ELSE IF t.status = "interrupted" THEN Stopped(t)
  ELSE Turned(t, IF t.seenWorking \/ t.status \in {"working", "blocked"}
                   THEN "finished" ELSE "idle")

OnUnknown(t) ==
  IF StillWorking(t) THEN t
  ELSE IF t.status = "interrupted" THEN Stopped(t)
  ELSE IF t.age < Grace THEN Turned(t, "loading")
  ELSE IF t.status # "loading" THEN t
  ELSE IF outputActive THEN AtWork(t) ELSE Turned(t, "idle")

Judged(t) ==
  IF InterruptHeld(t) THEN t
  ELSE [blocked |-> Turned(t, "blocked"), working |-> AtWork(t),
        idle |-> OnIdle(t), unknown |-> OnUnknown(t)][Signal]

(* Refresh; RefreshAgents takes over what it returns. *)
AgentSeen ==
  /\ agent # Nobody
  /\ LET known == tracked.pid = agent /\ tracked.status # "exited"
     IN tracked' = Judged(IF known THEN tracked ELSE Fresh(agent))

NoAgentSeen ==
  /\ agent = Nobody
  /\ tracked' = IF tracked = Untracked THEN tracked ELSE Turned(tracked, "exited")

Refresh ==
  /\ AgentSeen \/ NoAgentSeen
  /\ shown' = View(tracked')
  /\ UNCHANGED <<paneVars, lapse, busy>>

(* MarkSubmitted, MarkInterrupted *)
Submitted(t) == [AtWork(t) EXCEPT !.hold = Hold, !.esc = 0]
Interrupted(t) == [Turned(t, "interrupted") EXCEPT !.seenWorking = FALSE, !.hold = 0, !.esc = Display]

(* markAgentSubmitted: Enter in the terminal. *)
Enter ==
  /\ shown.status \notin {"none", "exited"}
  /\ tracked' = IF tracked.status \in {"none", "exited"} THEN tracked ELSE Submitted(tracked)
  /\ shown' = [shown EXCEPT !.status = "working"]
  /\ busy' = TRUE
  /\ UNCHANGED <<paneVars, lapse>>

(* markAgentInterrupted: Esc in the terminal. *)
Esc ==
  /\ shown.status \in {"working", "loading"}
  /\ tracked' = IF tracked.status \in {"working", "loading"} THEN Interrupted(tracked) ELSE tracked
  /\ shown' = [shown EXCEPT !.status = "interrupted"]
  /\ IF shown.pid = agent THEN lapse' = 0 /\ busy' = FALSE ELSE UNCHANGED <<lapse, busy>>
  /\ UNCHANGED paneVars

-----------------------------------------------------------------------------
(* The pane: agents start and end, their screens change and time passes.   *)

AtIt == marks \cap {"blocked", "working"} # {} \/ outputActive
Watch == busy' = (busy \/ (lapse' = Display /\ AtIt'))

StartAgent(a) ==
  /\ agent = Nobody /\ a # tracked.pid
  /\ agent' = a /\ lapse' = Display
  /\ UNCHANGED <<marks, silence, tracked, shown>>
  /\ Watch

ExitAgent ==
  /\ agent # Nobody /\ agent' = Nobody
  /\ UNCHANGED <<marks, silence, tracked, shown, lapse, busy>>

ScreenChanges(new) ==
  /\ marks' = new /\ silence' = 0
  /\ UNCHANGED <<agent, tracked, shown, lapse>>
  /\ Watch

TimePasses ==
  /\ silence' = Later(silence, Window + 1)
  /\ lapse' = Later(lapse, Display)
  /\ tracked' =
       IF tracked = Untracked THEN tracked
       ELSE [tracked EXCEPT !.age = Later(@, Grace), !.hold = Sooner(@), !.esc = Sooner(@)]
  /\ UNCHANGED <<agent, marks, shown>>
  /\ Watch

TrackerNext ==
  \/ Refresh \/ Enter \/ Esc
  \/ \E a \in Agents : StartAgent(a)
  \/ ExitAgent \/ TimePasses
  \/ \E new \in SUBSET {"blocked", "working", "idle"} : ScreenChanges(new)

Fairness == WF_trackerVars(Refresh) /\ WF_trackerVars(TimePasses)

TrackerSpec == TrackerInit /\ [][TrackerNext]_trackerVars /\ Fairness

-----------------------------------------------------------------------------
Statuses == {"none", "loading", "idle", "working", "blocked", "finished", "interrupted", "exited"}

(* Types of the pane and of what is known of its agent. *)
TrackerTypeOK ==
  /\ agent \in Agents \cup {Nobody} /\ marks \subseteq {"blocked", "working", "idle"}
  /\ silence \in 0 .. Window + 1 /\ lapse \in 0 .. Display /\ busy \in BOOLEAN
  /\ tracked \in [pid : Agents \cup {Nobody}, status : Statuses, age : 0 .. Grace,
                  hold : 0 .. Hold, esc : 0 .. Display, seenWorking : BOOLEAN]
  /\ shown \in [pid : Agents \cup {Nobody}, status : Statuses]

(* An interrupted turn never gets a completion tick (model.go:883, Refresh   *)
(* and MarkInterrupted in agent.go), however late the screen follows: only a *)
(* new submission, or an agent that is still at it when the interruption has *)
(* been shown long enough, can be shown as finished afterwards.              *)
TickEarned == shown.status = "finished" => busy

(* A spinner stops (Refresh in agent.go): when the prompt is back for good,  *)
(* nothing is printed and nothing is submitted, the pane comes to be shown   *)
(* as idle, finished or exited, whatever marks and keys came before.         *)
Rests == marks = {"idle"} /\ silence > Window
SpinnerStops ==
  <>[]Rests /\ <>[][~Enter]_trackerVars
    => <>[](shown.status \in {"none", "idle", "finished", "exited"})

=============================================================================
