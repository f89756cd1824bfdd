---------------------------- MODULE AgentProcesses ----------------------------
(***************************************************************************)
(* What runs inside the panes: Codex and Claude processes started by the   *)
(* user or by a resume command, possibly one inside the other, and the     *)
(* SessionStart hooks they run, each a process of its own that inherits    *)
(* the pane id and writes the session to the database                      *)
(* (src/internal/hooks/session.go, src/main.go).                           *)
(***************************************************************************)
EXTENDS PaneStore

CONSTANTS
  NoPane,         \* the absence of a pane
  CodexSessions   \* the sessions of Codex; the others are Claude's

ASSUME PaneAssumption == NoPane \notin Panes
ASSUME CodexAssumption == CodexSessions \subseteq Sessions

VARIABLES
  agents,   \* agents[a]: the process with id a
  hooks,    \* hook processes on their way to the database
  ran       \* history: ran[p], the sessions that ran in pane p

agentVars == <<agents, hooks, ran>>

KindOf(s) == IF s \in CodexSessions THEN "codex" ELSE "claude"

(* parent: the agent it was started by, if any; direct: its program is     *)
(* named after the agent, else it is recognised by the command line of a   *)
(* script host; first: the first thread it recorded in the log of Codex;   *)
(* owes: it has not run the hook for its session yet.                      *)
Agents == [life : {"none", "live", "dead"}, pane : Panes \cup {NoPane},
           parent : Procs \cup {NoProc}, direct : BOOLEAN,
           sess : Sessions \cup {NoSession}, first : Sessions \cup {NoSession},
           owes : BOOLEAN]

Unborn == [life |-> "none", pane |-> NoPane, parent |-> NoProc, direct |-> FALSE,
           sess |-> NoSession, first |-> NoSession, owes |-> FALSE]

Dead(x) == [x EXCEPT !.life = "dead", !.parent = NoProc, !.direct = FALSE,
                     !.sess = NoSession, !.owes = FALSE]

(* at is 0 until the hook takes its stamp.                                 *)
Hooks == [pane : Panes, sess : Sessions, by : Procs, at : Nat]

ProcessInit ==
  /\ agents = [a \in Procs |-> Unborn]
  /\ hooks = {}
  /\ ran = [p \in Panes |-> {}]

LiveIn(p) == {a \in Procs : agents[a].life = "live" /\ agents[a].pane = p}

-----------------------------------------------------------------------------
Launch(a, p, parent, s) ==
  /\ agents[a] = Unborn
  /\ parent = NoProc \/ (parent \in LiveIn(p) /\ agents[parent].parent = NoProc)
  /\ \E direct \in BOOLEAN :
       agents' = [agents EXCEPT ![a] =
         [Unborn EXCEPT !.life = "live", !.pane = p, !.parent = parent,
                        !.direct = direct, !.sess = s, !.owes = TRUE]]
  /\ ran' = [ran EXCEPT ![p] = @ \cup {s}]
  /\ UNCHANGED hooks

(* /new, /clear or /resume inside the agent.                               *)
SwitchSession(a, s) ==
  /\ agents[a].life = "live"
  /\ s # agents[a].sess
  /\ KindOf(s) = KindOf(agents[a].sess)
  /\ agents' = [agents EXCEPT ![a].sess = s, ![a].owes = TRUE]
  /\ ran' = [ran EXCEPT ![agents[a].pane] = @ \cup {s}]
  /\ UNCHANGED hooks

(* Codex records its thread in logs_*.sqlite; the resolver reads the first.*)
LogThread(a) ==
  /\ agents[a].life = "live"
  /\ agents[a].sess \in CodexSessions
  /\ agents[a].first = NoSession
  /\ agents' = [agents EXCEPT ![a].first = agents[a].sess]
  /\ UNCHANGED <<hooks, ran>>

(* Claude runs the hook at once, Codex when its first turn begins.         *)
SpawnHook(a) ==
  /\ agents[a].life = "live"
  /\ agents[a].owes
  /\ agents' = [agents EXCEPT ![a].owes = FALSE]
  /\ hooks' = hooks \cup {[pane |-> agents[a].pane, sess |-> agents[a].sess, by |-> a, at |-> 0]}
  /\ UNCHANGED ran

(* time.Now() in UpsertPaneAgentSession; the statement may wait for the    *)
(* lock of another connection.                                             *)
StampHook(h) ==
  /\ h \in hooks /\ h.at = 0
  /\ hooks' = (hooks \ {h}) \cup {[h EXCEPT !.at = clock]}
  /\ UNCHANGED <<agents, ran>>

(* A plausible slip: the missing stamp is written as it is.                *)
RecordUnstamped(h) ==
  /\ h \in hooks
  /\ UpsertPaneAgentSession(h.pane, [sess |-> h.sess, at |-> h.at, by |-> h.by, src |-> "hook"])
  /\ hooks' = hooks \ {h}
  /\ UNCHANGED <<agents, ran>>

RecordSessionStart(h) ==
  /\ h \in hooks /\ h.at # 0
  /\ UpsertPaneAgentSession(h.pane, [sess |-> h.sess, at |-> h.at, by |-> h.by, src |-> "hook"])
  /\ hooks' = hooks \ {h}
  /\ UNCHANGED <<agents, ran>>

HookFails(h) == h \in hooks /\ hooks' = hooks \ {h} /\ UNCHANGED <<agents, ran>>

(* What an agent started ends with it, or is cut off from the pane's tree. *)
Ended(gone) == [a \in Procs |-> IF a \in gone THEN Dead(agents[a]) ELSE agents[a]]

ExitAgent(a) ==
  /\ agents[a].life = "live"
  /\ agents' = Ended({b \in LiveIn(agents[a].pane) : b = a \/ agents[b].parent = a})
  /\ UNCHANGED <<hooks, ran>>

-----------------------------------------------------------------------------
(* selectCandidate: the shallowest, then the lowest process id; none if    *)
(* the first two are equally deep and of different kinds.                  *)
Depth(a) == IF agents[a].parent = NoProc THEN 1 ELSE 2

Before(a, b) == Depth(a) < Depth(b) \/ (Depth(a) = Depth(b) /\ a < b)

FirstOf(C) == CHOOSE a \in C : \A b \in C \ {a} : Before(a, b)

selectCandidate(C) ==
  IF C = {} THEN NoProc
  ELSE LET one == FirstOf(C)
           others == C \ {one}
           two == FirstOf(others)
       IN  IF others # {} /\ Depth(two) = Depth(one)
                /\ KindOf(agents[two].sess) # KindOf(agents[one].sess)
             THEN NoProc ELSE one

(* Processes named after an agent come before script hosts that run one.   *)
discoverAgent(p) ==
  LET direct == {a \in LiveIn(p) : agents[a].direct}
      found == selectCandidate(direct)
  IN  IF found # NoProc THEN found ELSE selectCandidate(LiveIn(p) \ direct)

=============================================================================
