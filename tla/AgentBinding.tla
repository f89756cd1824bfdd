----------------------------- MODULE AgentBinding -----------------------------
(***************************************************************************)
(* How the runtime keeps, for every pane, the provider session to resume   *)
(* after a restart (src/internal/app/model.go, persistence.go): the scan   *)
(* that discovers agents, forgets the binding of one that ended and reads  *)
(* the session of Codex from its log; restart, lazy start of panes, the    *)
(* resume command; explicit stop and crash.  Between any two statements of *)
(* the scan, agents and their hooks go on.                                 *)
(***************************************************************************)
EXTENDS AgentProcesses

(* The number of a pane stands for its id.                                 *)
ASSUME NumberAssumption == Panes \subseteq Nat \ {0}

VARIABLES
  up,        \* a runtime is running
  nextID,    \* the number of the last id it gave or found
  late,      \* history: late[p], what hooks of an earlier pane p have yet to write
  phase,     \* what its goroutine is in: idle, clearing, capturing, stopping
  todo,      \* panes the loop at hand has yet to visit
  next,      \* next[p]: what this scan observed, local to RefreshAgents
  seen,      \* seen[p]: m.agents, what the last scan observed
  panes,     \* the panes of m.panes
  shell,     \* shell[p]: unstarted, failed, running or exited
  item,      \* item[p]: resumeProvider and resumeSessionID of the pane
  pending,   \* pending[p]: session of the resume command not typed yet
  waiting    \* waiting[p]: codexCaptures, the agent whose retry is not due

runVars == <<up, nextID, late>>
scanVars == <<phase, todo, next, seen>>
paneVars == <<panes, shell, item, pending, waiting>>
vars == <<storeVars, agentVars, runVars, scanVars, paneVars>>

States == [status : {"none", "live", "exited"}, pid : Procs \cup {NoProc},
           kind : {"none", "codex", "claude"}]
NoState == [status |-> "none", pid |-> NoProc, kind |-> "none"]

Nowhere == [p \in Panes |-> NoState]
Nothing == [p \in Panes |-> NoSession]

Init ==
  /\ StoreInit
  /\ ProcessInit
  /\ up = FALSE /\ nextID = 0
  /\ late = [p \in Panes |-> {}]
  /\ phase = "idle" /\ todo = {}
  /\ next = Nowhere /\ seen = Nowhere
  /\ panes = {}
  /\ shell = [p \in Panes |-> "unstarted"]
  /\ item = Nothing /\ pending = Nothing
  /\ waiting = [p \in Panes |-> NoProc]

-----------------------------------------------------------------------------
(* Tracker.Refresh for one pane: panes without a terminal are no targets;  *)
(* an agent that is gone, or whose shell is, stays as exited.              *)
Observed(p) ==
  LET a == discoverAgent(p)
  IN  IF shell[p] \notin {"running", "exited"} THEN NoState
      ELSE IF shell[p] = "running" /\ a # NoProc
        THEN [status |-> "live", pid |-> a, kind |-> KindOf(agents[a].sess)]
      ELSE IF seen[p].status = "none" THEN NoState
      ELSE [seen[p] EXCEPT !.status = "exited"]

(* A plausible slip: no agent in the pane, nothing to keep for it.         *)
EndsUnlessSeen(p, states) ==
  states[p].status # "live" \/ (seen[p].status = "live" /\ states[p].pid # seen[p].pid)

(* The agent seen last is no longer the one in this pane.                  *)
Ends(p, states) ==
  /\ seen[p].status = "live"
  /\ \/ states[p].status = "exited"
     \/ states[p].status = "live" /\ states[p].pid # seen[p].pid

(* A plausible slip: an agent that ended is still correlated.              *)
AnyCodex(states) == {p \in panes : states[p].kind = "codex"}

LiveCodex(states) ==
  {p \in panes : states[p].status = "live" /\ states[p].kind = "codex"}

(* RefreshAgents; a failed process snapshot leaves the states as they were.*)
BeginScan ==
  /\ up /\ phase = "idle"
  /\ \E states \in {[p \in Panes |-> Observed(p)], seen} :
       /\ next' = states
       /\ todo' = {p \in panes : Ends(p, states)}
  /\ phase' = "clearing"
  /\ UNCHANGED <<storeVars, agentVars, runVars, seen, paneVars>>

ClearBinding(p) ==
  /\ phase = "clearing" /\ p \in todo
  /\ ClearPaneAgentSession(p)
  /\ item' = [item EXCEPT ![p] = NoSession]
  /\ waiting' = [waiting EXCEPT ![p] = NoProc]
  /\ todo' = todo \ {p}
  /\ UNCHANGED <<rows, clock, agentVars, runVars, phase, next, seen, panes, shell, pending>>

BeginCapture ==
  /\ phase = "clearing" /\ todo = {}
  /\ phase' = "capturing"
  /\ todo' = LiveCodex(next)
  /\ UNCHANGED <<storeVars, agentVars, runVars, next, seen, paneVars>>

(* captureCodexSessions, one turn of its loop over the panes.              *)
Capture(p) ==
  /\ phase \in {"capturing", "stopping"} /\ p \in todo
  /\ todo' = todo \ {p}
  /\ UNCHANGED <<rows, clock, agentVars, runVars, phase, next, seen, panes, shell, pending>>

(* The pane has a session of Codex to resume: nothing to look for.         *)
Known(p) == item[p] \in CodexSessions

CaptureKnown(p) ==
  /\ Capture(p)
  /\ Known(p)
  /\ waiting' = [waiting EXCEPT ![p] = NoProc]
  /\ UNCHANGED <<bind, item>>

(* The retry is not due; an explicit stop does not wait for it.            *)
CaptureEarly(p) ==
  /\ Capture(p)
  /\ ~Known(p)
  /\ phase = "capturing" /\ waiting[p] = next[p].pid
  /\ UNCHANGED <<bind, item, waiting>>

CaptureDue(p) ==
  /\ Capture(p)
  /\ ~Known(p)
  /\ phase = "stopping" \/ waiting[p] # next[p].pid

(* Nothing in the log yet, the log cannot be read, or the pane is not in   *)
(* the database: another attempt later.                                    *)
CaptureLater(p) ==
  /\ CaptureDue(p)
  /\ waiting' = [waiting EXCEPT ![p] = next[p].pid]
  /\ UNCHANGED <<bind, item>>

(* A plausible slip: what the write returns is not looked at.              *)
CaptureUnchecked(p) ==
  LET a == next[p].pid
      found == agents[a].first
  IN  /\ CaptureDue(p)
      /\ found # NoSession
      /\ UpsertPaneAgentSession(p, [sess |-> found, at |-> clock, by |-> a, src |-> "log"])
      /\ item' = [item EXCEPT ![p] = found]
      /\ waiting' = [waiting EXCEPT ![p] = NoProc]

CaptureFound(p) ==
  LET a == next[p].pid
      found == agents[a].first
  IN  /\ CaptureDue(p)
      /\ found # NoSession
      /\ p \in rows
      /\ UpsertPaneAgentSession(p, [sess |-> found, at |-> clock, by |-> a, src |-> "log"])
      /\ item' = [item EXCEPT ![p] = found]
      /\ waiting' = [waiting EXCEPT ![p] = NoProc]

EndScan ==
  /\ phase = "capturing" /\ todo = {}
  /\ seen' = next
  /\ next' = Nowhere
  /\ phase' = "idle"
  /\ UNCHANGED <<storeVars, agentVars, runVars, todo, paneVars>>

(* A plausible slip: the time of the next attempt is put off at every look.*)
RetryPutOff(p) == waiting[p] # NoProc /\ UNCHANGED vars

RetryDue(p) ==
  /\ waiting[p] # NoProc
  /\ waiting' = [waiting EXCEPT ![p] = NoProc]
  /\ UNCHANGED <<storeVars, agentVars, runVars, scanVars, panes, shell, item, pending>>

-----------------------------------------------------------------------------
(* Any command that changes the workspace saves it.                        *)
Persist ==
  /\ up /\ phase = "idle"
  /\ Save(panes)
  /\ UNCHANGED <<clock, agentVars, runVars, scanVars, paneVars>>

(* closePane and the save that follows, which may fail: the notice says so,*)
(* the pane is gone from memory.                                           *)
ClosePane(p) ==
  /\ up /\ phase = "idle"
  /\ p \in panes /\ panes # {p}
  /\ panes' = panes \ {p}
  /\ agents' = Ended(LiveIn(p))
  /\ shell' = [shell EXCEPT ![p] = "unstarted"]
  /\ item' = [item EXCEPT ![p] = NoSession]
  /\ pending' = [pending EXCEPT ![p] = NoSession]
  /\ waiting' = [waiting EXCEPT ![p] = NoProc]
  /\ seen' = [seen EXCEPT ![p] = NoState]
  /\ Save(panes') \/ UNCHANGED <<rows, bind>>
  /\ UNCHANGED <<clock, hooks, ran, runVars, phase, todo, next>>

(* newPane, with its shell, and the save that follows, which may fail; then  *)
(* the pane has no row.  Projects take numbers too, hence the gaps.  An      *)
(* earlier runtime may have given the number before: what is in ran starts   *)
(* again, and hooks that are on their way from then are noted in late.       *)
NewPane(p) ==
  /\ up /\ phase = "idle"
  /\ p > nextID /\ nextID' = p
  /\ panes' = panes \cup {p}
  /\ \E outcome \in {"running", "failed"} : shell' = [shell EXCEPT ![p] = outcome]
  /\ ran' = [ran EXCEPT ![p] = {}]
  /\ late' = [late EXCEPT ![p] = {h.sess : h \in {k \in hooks : k.pane = p}}]
  /\ Save(panes') \/ UNCHANGED <<rows, bind>>
  /\ UNCHANGED <<clock, agents, hooks, up, scanVars, item, pending, waiting>>

(* startPane: at the start for the active project, later for the others.   *)
startPane(p) ==
  /\ up /\ phase = "idle"
  /\ p \in panes /\ shell[p] = "unstarted"
  /\ \/ /\ shell' = [shell EXCEPT ![p] = "running"]
        /\ pending' = [pending EXCEPT ![p] = item[p]]
     \/ /\ shell' = [shell EXCEPT ![p] = "failed"]
        /\ UNCHANGED pending
  /\ UNCHANGED <<storeVars, agentVars, runVars, scanVars, panes, item, waiting>>

(* Close: a last forced capture, the save, then every terminal is killed.  *)
Stop ==
  /\ up /\ phase = "idle"
  /\ phase' = "stopping"
  /\ next' = seen
  /\ todo' = LiveCodex(seen)
  /\ UNCHANGED <<storeVars, agentVars, runVars, seen, paneVars>>

(* The process ends, its terminals with it; hooks may outlive it.          *)
RuntimeEnds ==
  /\ up' = FALSE /\ nextID' = 0
  /\ agents' = Ended({a \in Procs : agents[a].life = "live"})
  /\ phase' = "idle" /\ todo' = {}
  /\ next' = Nowhere /\ seen' = Nowhere
  /\ panes' = {}
  /\ shell' = [p \in Panes |-> "unstarted"]
  /\ item' = Nothing /\ pending' = Nothing
  /\ waiting' = [p \in Panes |-> NoProc]
  /\ UNCHANGED <<clock, hooks, ran, late>>

CloseModel ==
  /\ phase = "stopping" /\ todo = {}
  /\ Save(panes) \/ UNCHANGED <<rows, bind>>
  /\ RuntimeEnds

Crash == up /\ RuntimeEnds /\ UNCHANGED <<rows, bind>>

(* app.Open: the bindings of the saved panes are read once; absorbID counts  *)
(* from the highest number that is saved.                                    *)
Open ==
  /\ ~up
  /\ up' = TRUE
  /\ nextID' \in {n \in rows \cup {0} : \A p \in rows : p <= n}
  /\ panes' = rows
  /\ item' = [p \in Panes |-> IF p \in rows THEN bind[p].sess ELSE NoSession]
  /\ UNCHANGED <<storeVars, agentVars, late, scanVars, shell, pending, waiting>>

-----------------------------------------------------------------------------
(* The prompt is there and the resume command is typed; or the shell ends  *)
(* before, or knows no such program.                                       *)
RunResume(a, p) ==
  /\ shell[p] = "running" /\ pending[p] # NoSession
  /\ Launch(a, p, NoProc, pending[p])
  /\ pending' = [pending EXCEPT ![p] = NoSession]
  /\ UNCHANGED <<storeVars, runVars, scanVars, panes, shell, item, waiting>>

LoseResume(p) ==
  /\ pending[p] # NoSession
  /\ pending' = [pending EXCEPT ![p] = NoSession]
  /\ UNCHANGED <<storeVars, agentVars, runVars, scanVars, panes, shell, item, waiting>>

ShellExits(p) ==
  /\ shell[p] = "running"
  /\ shell' = [shell EXCEPT ![p] = "exited"]
  /\ agents' = Ended(LiveIn(p))
  /\ pending' = [pending EXCEPT ![p] = NoSession]
  /\ UNCHANGED <<storeVars, hooks, ran, runVars, scanVars, panes, item, waiting>>

(* The user starts an agent at the prompt, or an agent starts another.     *)
StartAgent(a, p) ==
  /\ shell[p] = "running"
  /\ \E parent \in LiveIn(p) \cup {NoProc}, s \in Sessions : Launch(a, p, parent, s)
  /\ UNCHANGED <<storeVars, runVars, scanVars, paneVars>>

AgentStep(a) ==
  \/ \E s \in Sessions : SwitchSession(a, s)
  \/ LogThread(a) \/ SpawnHook(a) \/ ExitAgent(a)

HookStep(h) == StampHook(h) \/ HookFails(h)

Scan ==
  \/ BeginScan \/ BeginCapture \/ EndScan
  \/ \E p \in Panes : ClearBinding(p) \/ CaptureKnown(p) \/ CaptureEarly(p)
       \/ CaptureLater(p) \/ CaptureFound(p)

Next ==
  \/ Scan
  \/ \E p \in Panes : RetryDue(p) \/ NewPane(p) \/ ClosePane(p) \/ startPane(p) \/ LoseResume(p)
       \/ ShellExits(p)
  \/ \E p \in Panes, a \in Procs : RunResume(a, p) \/ StartAgent(a, p)
  \/ Persist \/ Stop \/ CloseModel \/ Crash \/ Open
  \/ \E a \in Procs : AgentStep(a) /\ UNCHANGED <<storeVars, runVars, scanVars, paneVars>>
  \/ \E h \in hooks : HookStep(h) /\ UNCHANGED <<storeVars, runVars, scanVars, paneVars>>
  \/ \E h \in hooks : RecordSessionStart(h) /\ UNCHANGED <<rows, clock, runVars, scanVars, paneVars>>
  \/ TimePasses /\ UNCHANGED <<agentVars, runVars, scanVars, paneVars>>

Spec == Init /\ [][Next]_vars

(* The tick of the runtime comes again and again, so the scan goes on and  *)
(* a retry comes due; the log of Codex cannot stay unreadable for ever.    *)
Fairness ==
  /\ WF_vars(Scan) /\ WF_vars(CloseModel)
  /\ \A p \in Panes : WF_vars(RetryDue(p)) /\ SF_vars(CaptureFound(p))
  /\ SF_vars(BeginScan /\ next' = [p \in Panes |-> Observed(p)])

FairSpec == Spec /\ Fairness

-----------------------------------------------------------------------------
(* Types of the database, the processes and the memory of the runtime.     *)
TypeOK ==
  /\ rows \subseteq Panes
  /\ bind \in [Panes -> Bindings \cup {NoBinding}]
  /\ clock \in Nat \ {0}
  /\ agents \in [Procs -> Agents]
  /\ hooks \subseteq Hooks
  /\ ran \in [Panes -> SUBSET Sessions]
  /\ up \in BOOLEAN
  /\ nextID \in Panes \cup {0}
  /\ late \in [Panes -> SUBSET Sessions]
  /\ phase \in {"idle", "clearing", "capturing", "stopping"}
  /\ todo \subseteq Panes
  /\ next \in [Panes -> States]
  /\ seen \in [Panes -> States]
  /\ panes \subseteq Panes
  /\ shell \in [Panes -> {"unstarted", "failed", "running", "exited"}]
  /\ item \in [Panes -> Sessions \cup {NoSession}]
  /\ pending \in [Panes -> Sessions \cup {NoSession}]
  /\ waiting \in [Panes -> Procs \cup {NoProc}]

(* What a pane is bound to, resumes or is about to resume is a session that  *)
(* ran in it, and only panes that will be restored are bound.  There is one   *)
(* way for a session of another pane to get in, though the repository says    *)
(* that split never guesses (README.md:5): a hook that outlives the runtime   *)
(* writes after the id of its pane was given again.  What the runtime itself  *)
(* reads in a log (captureCodexSessions) is the pane's own in any case.       *)
BindingIsOwn ==
  \A p \in Panes :
    /\ bind[p] # NoBinding =>
         /\ p \in rows
         /\ bind[p].sess \in ran[p] \/ (bind[p].src = "hook" /\ bind[p].sess \in late[p])
    /\ item[p] # NoSession => item[p] \in ran[p] \cup late[p]
    /\ pending[p] # NoSession => pending[p] \in ran[p] \cup late[p]

(* A session in memory stops the capture, which is right only as long as   *)
(* the database holds one too.                                             *)
MemoryBacked == \A p \in Panes : item[p] # NoSession => bind[p] # NoBinding

(* Once the runtime saw an agent end it does not bind the pane again by    *)
(* itself, however late the log answers, until it sees another.            *)
EndedStaysUnbound ==
  \A p \in Panes :
    phase # "capturing" /\ seen[p].status = "exited"
      => item[p] = NoSession /\ bind[p].src # "log"

(* A binding gives way to one with the same or a later stamp only.         *)
StampsGrow ==
  [][\A p \in Panes :
       bind[p] # NoBinding /\ bind'[p] # NoBinding => bind[p].at <= bind'[p].at]_vars

(* A pane nobody visited in this run of the runtime keeps its session for  *)
(* the next one: neither scan, stop nor crash forgets it.                  *)
UnvisitedKeepsSession ==
  [][\A p \in panes :
       shell[p] = "unstarted" /\ bind[p] # NoBinding /\ (up' => p \in panes')
         => bind'[p] # NoBinding]_vars

-----------------------------------------------------------------------------
(* A Codex agent that stays in a saved pane, and whose log names a thread,  *)
(* comes to be bound, whatever the pane was bound to before.               *)
Watched(p) ==
  /\ up /\ p \in panes \cap rows /\ shell[p] = "running"
  /\ LET a == discoverAgent(p) IN a # NoProc /\ agents[a].first # NoSession

CodexBound == \A p \in Panes : <>[]Watched(p) => <>[](bind[p] # NoBinding)

=============================================================================
