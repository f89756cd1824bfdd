------------------------------ MODULE PaneStore ------------------------------
(***************************************************************************)
(* The part of state.db that ties panes to agent sessions                  *)
(* (src/internal/state/store.go): the panes of the last saved snapshot and *)
(* one binding per pane.  Each operation is one SQL statement or one       *)
(* transaction, hence atomic; the runtime and every hook process open the  *)
(* database on their own.                                                  *)
(***************************************************************************)
EXTENDS Naturals

CONSTANTS
  Panes,          \* pane ids
  Sessions,       \* provider sessions
  NoSession,      \* the absence of a session
  Procs,          \* process ids of agents, numbers; none is used twice
  MaxClock        \* bound: milliseconds that differ

NoProc == 0

ASSUME ProcAssumption == Procs \subseteq Nat \ {NoProc}
ASSUME SessionAssumption == NoSession \notin Sessions
ASSUME ClockAssumption == MaxClock \in Nat \ {0}

VARIABLES
  rows,    \* the panes of the last snapshot that was saved
  bind,    \* bind[p]: the row of pane_agent_sessions, or NoBinding
  clock    \* the wall clock that stamps updated_at

storeVars == <<rows, bind, clock>>

(* The columns session_id and updated_at; the provider goes with the       *)
(* session.  By (the agent that ran it) and src (the session hook, or the  *)
(* runtime that read it in the log of Codex) are history.                  *)
Bindings == [sess : Sessions, at : Nat \ {0}, by : Procs, src : {"hook", "log"}]
NoBinding == [sess |-> NoSession, at |-> 0, by |-> NoProc, src |-> "none"]

StoreInit ==
  /\ rows \in SUBSET Panes
  /\ bind = [p \in Panes |-> NoBinding]
  /\ clock = 1

(* A plausible slip: the pane is not looked up.                            *)
UpsertUnchecked(p, b) ==
  bind' = [bind EXCEPT ![p] = IF b.at >= @.at THEN b ELSE @]

(* INSERT ... WHERE EXISTS (the pane) ON CONFLICT DO UPDATE ... WHERE      *)
(* excluded.updated_at >= pane_agent_sessions.updated_at                   *)
UpsertPaneAgentSession(p, b) ==
  bind' = [bind EXCEPT ![p] = IF p \in rows /\ b.at >= @.at THEN b ELSE @]

ClearPaneAgentSession(p) == bind' = [bind EXCEPT ![p] = NoBinding]

(* A plausible slip: the bindings of closed panes stay.                    *)
SaveUnpruned(open) == rows' = open /\ UNCHANGED bind

(* The whole snapshot is replaced in one transaction; bindings of panes    *)
(* that are no longer in it go with them.                                  *)
Save(open) ==
  /\ rows' = open
  /\ bind' = [p \in Panes |-> IF p \in open THEN bind[p] ELSE NoBinding]

TimePasses == clock < MaxClock /\ clock' = clock + 1 /\ UNCHANGED <<rows, bind>>

=============================================================================
