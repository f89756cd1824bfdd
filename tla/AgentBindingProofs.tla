-------------------------- MODULE AgentBindingProofs --------------------------
(***************************************************************************)
(* Theorems about AgentBinding, for any number of panes, processes and     *)
(* sessions.                                                               *)
(***************************************************************************)
EXTENDS AgentBinding, WellFoundedInduction, TLAPS

(* A set of numbers that is not empty has a least element.                 *)
LEMMA LeastNumber ==
  ASSUME NEW T \in SUBSET Nat, T # {}
  PROVE  \E x \in T : \A y \in T : x <= y
<1> DEFINE R == {ss \in Nat \X Nat : ss[1] < ss[2]}
<1>1. IsWellFoundedOn(R, Nat)
  BY NatLessThanWellFounded, Zenon DEF OpToRel
<1>2. PICK x \in T : \A y \in T : <<y, x>> \notin R
  <2> HIDE DEF R
  <2> QED
    BY <1>1, WFMin
<1>3. \A y \in T : ~(y < x)
  BY <1>2
<1> HIDE DEF R
<1> QED
  BY <1>3

(* The candidate that selectCandidate puts first is one of the candidates. *)
LEMMA FirstIsOne ==
  ASSUME NEW C \in SUBSET Procs, C # {}
  PROVE  FirstOf(C) \in C
<1> DEFINE Roots == {a \in C : Depth(a) = 1}
<1>1. C \in SUBSET Nat /\ Roots \in SUBSET Nat
  BY ProcAssumption
<1>2. \A a \in C : Depth(a) \in {1, 2}
  BY DEF Depth
<1> SUFFICES \E a \in C : \A b \in C \ {a} : Before(a, b)
  BY DEF FirstOf
<1>3. CASE Roots = {}
  <2>1. PICK a \in C : \A b \in C : a <= b
    BY <1>1, LeastNumber
  <2>2. \A b \in C : Depth(b) = 2
    BY <1>2, <1>3
  <2> QED
    BY <2>1, <2>2, <1>1 DEF Before
<1>4. CASE Roots # {}
  <2>1. PICK a \in Roots : \A b \in Roots : a <= b
    <3> HIDE DEF Roots
    <3> QED
      BY <1>1, <1>4, LeastNumber
  <2>2. \A b \in C \ Roots : Depth(b) = 2
    BY <1>2
  <2>3. \A b \in C \ {a} : Before(a, b)
    BY <2>1, <2>2, <1>1 DEF Before
  <2> QED
    BY <2>1, <2>3
<1> QED
  BY <1>3, <1>4

LEMMA SelectedIsOne ==
  ASSUME NEW C \in SUBSET Procs
  PROVE  selectCandidate(C) \in C \cup {NoProc}
BY FirstIsOne DEF selectCandidate

(* An agent that is discovered in a pane runs in it.                       *)
LEMMA DiscoveredIsInPane ==
  ASSUME NEW p
  PROVE  discoverAgent(p) \in LiveIn(p) \cup {NoProc}
<1> DEFINE direct == {a \in LiveIn(p) : agents[a].direct}
<1>1. LiveIn(p) \in SUBSET Procs /\ direct \in SUBSET Procs /\ LiveIn(p) \ direct \in SUBSET Procs
  BY DEF LiveIn
<1>2. selectCandidate(direct) \in direct \cup {NoProc}
  BY <1>1, SelectedIsOne
<1>3. selectCandidate(LiveIn(p) \ direct) \in LiveIn(p) \cup {NoProc}
  BY <1>1, SelectedIsOne
<1>4. discoverAgent(p) = IF selectCandidate(direct) # NoProc THEN selectCandidate(direct)
                         ELSE selectCandidate(LiveIn(p) \ direct)
  BY DEF discoverAgent
<1> QED
  BY <1>2, <1>3, <1>4

-----------------------------------------------------------------------------
(* What an agent that is seen running needs for its session to be looked   *)
(* up: it has a process id, and only such agents are visited by a capture. *)
Sighted ==
  /\ \A p \in Panes : seen[p].status = "live" => seen[p].pid \in Procs
  /\ \A p \in Panes : next[p].status = "live" => next[p].pid \in Procs
  /\ phase \in {"capturing", "stopping"} =>
       \A p \in todo : next[p].status = "live"

(* Whoever ran, ran in a pane; whoever runs has a session.                 *)
Placed ==
  \A a \in Procs : /\ agents[a].life # "none" => agents[a].pane \in Panes
                   /\ agents[a].life = "live" => agents[a].sess \in Sessions

(* The steps of Next, each with what it leaves alone.                      *)
Others == UNCHANGED <<storeVars, runVars, scanVars, paneVars>>

LEMMA Steps ==
  ASSUME [Next]_vars
  PROVE  \/ BeginScan \/ BeginCapture \/ EndScan \/ Persist \/ Stop \/ CloseModel \/ Crash \/ Open
         \/ \E p \in Panes :
              \/ ClearBinding(p) \/ CaptureKnown(p) \/ CaptureEarly(p) \/ CaptureLater(p)
              \/ CaptureFound(p) \/ RetryDue(p) \/ NewPane(p) \/ ClosePane(p) \/ startPane(p)
              \/ LoseResume(p) \/ ShellExits(p)
         \/ \E p \in Panes, a \in Procs : RunResume(a, p) \/ StartAgent(a, p)
         \/ \E a \in Procs : AgentStep(a) /\ Others
         \/ \E h \in hooks : HookStep(h) /\ Others
         \/ \E h \in hooks : RecordSessionStart(h) /\ UNCHANGED <<rows, clock, runVars, scanVars, paneVars>>
         \/ TimePasses /\ UNCHANGED <<agentVars, runVars, scanVars, paneVars>>
         \/ UNCHANGED vars
BY DEF Next, Scan, Others

-----------------------------------------------------------------------------
LEMMA EndedTyped ==
  ASSUME agents \in [Procs -> Agents], NEW gone
  PROVE  /\ Ended(gone) \in [Procs -> Agents]
         /\ \A a \in Procs :
              /\ Ended(gone)[a].pane = agents[a].pane /\ Ended(gone)[a].first = agents[a].first
              /\ Ended(gone)[a].sess \in {agents[a].sess, NoSession}
              /\ a \in gone \/ Ended(gone)[a] = agents[a]
<1>1. ASSUME NEW a \in Procs
      PROVE  /\ Dead(agents[a]) \in Agents
             /\ Dead(agents[a]).pane = agents[a].pane /\ Dead(agents[a]).first = agents[a].first
             /\ Dead(agents[a]).sess = NoSession
  <2>1. agents[a] \in Agents
    OBVIOUS
  <2> QED
    BY <2>1 DEF Dead, Agents
<1>2. \A a \in Procs : Ended(gone)[a] \in {Dead(agents[a]), agents[a]}
  BY DEF Ended
<1>3. DOMAIN Ended(gone) = Procs /\ Ended(gone) = [a \in Procs |-> Ended(gone)[a]]
  BY DEF Ended
<1>4. \A a \in Procs : Ended(gone)[a] \in Agents
  BY <1>1, <1>2
<1>5. Ended(gone) \in [Procs -> Agents]
  BY <1>3, <1>4
<1> QED
  BY <1>1, <1>2, <1>5 DEF Ended

LEMMA EndedPlaced ==
  ASSUME agents \in [Procs -> Agents], Placed, NEW gone \in SUBSET Procs,
         \A a \in gone : agents[a].life = "live", agents' = Ended(gone)
  PROVE  agents' \in [Procs -> Agents] /\ Placed'
<1>1. ASSUME NEW a \in Procs
      PROVE  /\ agents'[a].life # "none" => agents'[a].pane \in Panes
             /\ agents'[a].life = "live" => agents'[a].sess \in Sessions
  <2>1. agents'[a].pane = agents[a].pane /\ (a \in gone \/ agents'[a] = agents[a])
    BY EndedTyped
  <2>2. a \in gone => agents'[a] = Dead(agents[a])
    BY DEF Ended
  <2>3. Dead(agents[a]).life = "dead"
    BY DEF Dead, Agents
  <2> QED
    BY <2>1, <2>2, <2>3 DEF Placed
<1> QED
  BY <1>1, EndedTyped DEF Placed

LEMMA LaunchTyped ==
  ASSUME agents \in [Procs -> Agents], ran \in [Panes -> SUBSET Sessions],
         NEW a \in Procs, NEW p \in Panes, NEW parent \in Procs \cup {NoProc},
         NEW s \in Sessions, Placed, Launch(a, p, parent, s)
  PROVE  /\ agents' \in [Procs -> Agents] /\ hooks' = hooks
         /\ ran' \in [Panes -> SUBSET Sessions] /\ Placed'
<1>1. PICK direct \in BOOLEAN :
        agents' = [agents EXCEPT ![a] =
         [Unborn EXCEPT !.life = "live", !.pane = p, !.parent = parent,
                        !.direct = direct, !.sess = s, !.owes = TRUE]]
  BY DEF Launch
<1>2. [Unborn EXCEPT !.life = "live", !.pane = p, !.parent = parent,
                     !.direct = direct, !.sess = s, !.owes = TRUE] \in Agents
  BY DEF Unborn, Agents
<1>3. agents' \in [Procs -> Agents]
  BY <1>1, <1>2
<1>4. Placed'
  BY <1>1, <1>3 DEF Placed, Unborn
<1> QED
  BY <1>3, <1>4 DEF Launch

LEMMA AgentStepTyped ==
  ASSUME agents \in [Procs -> Agents], hooks \subseteq Hooks, ran \in [Panes -> SUBSET Sessions],
         Placed, NEW a \in Procs, AgentStep(a)
  PROVE  /\ agents' \in [Procs -> Agents] /\ hooks' \subseteq Hooks
         /\ ran' \in [Panes -> SUBSET Sessions] /\ Placed'
<1> USE DEF SwitchSession, LogThread, SpawnHook, ExitAgent
<1>0. agents[a] \in Agents
  OBVIOUS
<1>1. CASE \E s \in Sessions : SwitchSession(a, s)
  <2>1. PICK s \in Sessions : SwitchSession(a, s)
    BY <1>1
  <2>2. agents' = [agents EXCEPT ![a] = [agents[a] EXCEPT !.sess = s, !.owes = TRUE]]
    BY <2>1
  <2>3. [agents[a] EXCEPT !.sess = s, !.owes = TRUE] \in Agents
    BY <1>0 DEF Agents
  <2>4. Placed'
    BY <2>1, <2>2 DEF Placed
  <2> QED
    BY <2>1, <2>2, <2>3, <2>4
<1>2. CASE LogThread(a)
  <2>1. [agents[a] EXCEPT !.first = agents[a].sess] \in Agents
    BY <1>0 DEF Agents
  <2>2. agents' = [agents EXCEPT ![a] = [agents[a] EXCEPT !.first = agents[a].sess]]
    BY <1>2
  <2>3. Placed'
    BY <1>2, <2>2 DEF Placed
  <2> QED
    BY <1>2, <2>1, <2>2, <2>3
<1>3. CASE SpawnHook(a)
  <2>1. [agents[a] EXCEPT !.owes = FALSE] \in Agents
    BY <1>0 DEF Agents
  <2>2. agents' = [agents EXCEPT ![a] = [agents[a] EXCEPT !.owes = FALSE]]
    BY <1>3
  <2>3. Placed'
    BY <1>3, <2>2 DEF Placed
  <2>4. [pane |-> agents[a].pane, sess |-> agents[a].sess, by |-> a, at |-> 0] \in Hooks
    BY <1>3 DEF Placed, Hooks
  <2>5. hooks' \subseteq Hooks
    BY <1>3, <2>4
  <2> QED
    BY <1>3, <2>1, <2>2, <2>3, <2>5
<1>4. CASE ExitAgent(a)
  <2>1. agents' \in [Procs -> Agents] /\ Placed'
    BY <1>4, EndedPlaced DEF LiveIn
  <2> QED
    BY <1>4, <2>1
<1> QED
  BY <1>1, <1>2, <1>3, <1>4 DEF AgentStep

LEMMA ObservedTyped ==
  ASSUME agents \in [Procs -> Agents], seen \in [Panes -> States], NEW p \in Panes
  PROVE  /\ Observed(p) \in States
         /\ Observed(p).status = "live" =>
              Observed(p).pid \in Procs /\ agents[Observed(p).pid].pane = p
         /\ Observed(p).status = "exited" =>
              seen[p].status # "none" /\ Observed(p).pid = seen[p].pid
<1>1. discoverAgent(p) \in Procs \cup {NoProc} /\
        (discoverAgent(p) # NoProc => agents[discoverAgent(p)].pane = p)
  BY DiscoveredIsInPane DEF LiveIn
<1>2. seen[p] \in States
  OBVIOUS
<1>3. [seen[p] EXCEPT !.status = "exited"] \in States
  BY <1>2 DEF States
<1> QED
  BY <1>1, <1>2, <1>3 DEF Observed, States, NoState, KindOf

LEMMA UpsertTyped ==
  ASSUME TypeOK, NEW p \in Panes, NEW b \in Bindings, UpsertPaneAgentSession(p, b)
  PROVE  bind' \in [Panes -> Bindings \cup {NoBinding}]
BY DEF TypeOK, UpsertPaneAgentSession

LEMMA SaveTyped ==
  ASSUME TypeOK, NEW open \in SUBSET Panes, Save(open)
  PROVE  rows' \subseteq Panes /\ bind' \in [Panes -> Bindings \cup {NoBinding}]
BY DEF TypeOK, Save

LEMMA RuntimeEndsTyped ==
  ASSUME TypeOK, Placed, RuntimeEnds, rows' \subseteq Panes,
         bind' \in [Panes -> Bindings \cup {NoBinding}]
  PROVE  TypeOK' /\ Sighted' /\ Placed'
<1>1. agents' \in [Procs -> Agents] /\ Placed'
  BY EndedPlaced DEF RuntimeEnds, TypeOK
<1> QED
  BY <1>1 DEF TypeOK, RuntimeEnds, Nowhere, Nothing, NoState, States, Sighted

LEMMA TypedInit ==
  ASSUME Init
  PROVE  TypeOK /\ Sighted /\ Placed
<1>1. Unborn \in Agents /\ Unborn.life = "none"
  BY DEF Unborn, Agents
<1>2. NoState \in States /\ NoState.status = "none"
  BY DEF NoState, States
<1>3. agents \in [Procs -> Agents]
  BY <1>1 DEF Init, ProcessInit
<1>5. Placed
  BY <1>1 DEF Init, ProcessInit, Placed
<1>4. next \in [Panes -> States] /\ seen \in [Panes -> States] /\ Sighted
  BY <1>2 DEF Init, Nowhere, Sighted
<1>6. rows \subseteq Panes /\ bind \in [Panes -> Bindings \cup {NoBinding}] /\ clock \in Nat \ {0}
  BY DEF Init, StoreInit
<1>7. hooks \subseteq Hooks /\ ran \in [Panes -> SUBSET Sessions]
  BY DEF Init, ProcessInit
<1>8. nextID \in Panes \cup {0} /\ late \in [Panes -> SUBSET Sessions]
  BY DEF Init
<1> QED
  BY <1>3, <1>4, <1>5, <1>6, <1>7, <1>8 DEF Init, TypeOK, Nothing

LEMMA TypedNext ==
  ASSUME TypeOK, Sighted, Placed, [Next]_vars
  PROVE  TypeOK' /\ Sighted' /\ Placed'
<1> USE DEF storeVars, agentVars, runVars, scanVars, paneVars
<1>1. CASE BeginScan
  <2>1. PICK states \in {[p \in Panes |-> Observed(p)], seen} :
          next' = states /\ todo' = {p \in panes : Ends(p, states)}
    BY <1>1 DEF BeginScan
  <2>2. next' \in [Panes -> States] /\ \A p \in Panes : next'[p].status = "live" => next'[p].pid \in Procs
    BY <2>1, ObservedTyped DEF TypeOK, Sighted
  <2> QED
    BY <1>1, <2>1, <2>2 DEF BeginScan, TypeOK, Sighted, Placed
<1>2. CASE BeginCapture
  BY <1>2 DEF BeginCapture, LiveCodex, TypeOK, Sighted, Placed
<1>3. CASE EndScan
  BY <1>3 DEF EndScan, TypeOK, Sighted, Placed, Nowhere, NoState, States
<1>4. CASE Persist
  <2>1. Save(panes)
    BY <1>4 DEF Persist
  <2>2. rows' \subseteq Panes /\ bind' \in [Panes -> Bindings \cup {NoBinding}]
    BY <2>1, SaveTyped DEF TypeOK
  <2> QED
    BY <1>4, <2>2 DEF Persist, TypeOK, Sighted, Placed
<1>5. CASE Stop
  BY <1>5 DEF Stop, LiveCodex, TypeOK, Sighted, Placed
<1>6. CASE CloseModel
  <2>1. rows' \subseteq Panes /\ bind' \in [Panes -> Bindings \cup {NoBinding}]
    BY <1>6, SaveTyped DEF CloseModel, TypeOK
  <2> QED
    BY <1>6, <2>1, RuntimeEndsTyped DEF CloseModel
<1>7. CASE Crash
  <2>1. rows' \subseteq Panes /\ bind' \in [Panes -> Bindings \cup {NoBinding}]
    BY <1>7 DEF Crash, TypeOK
  <2> QED
    BY <1>7, <2>1, RuntimeEndsTyped DEF Crash
<1>8. CASE Open
  <2>1. item' \in [Panes -> Sessions \cup {NoSession}]
    <3>1. \A p \in Panes : bind[p].sess \in Sessions \cup {NoSession}
      BY DEF TypeOK, Bindings, NoBinding
    <3>2. item' = [p \in Panes |-> IF p \in rows THEN bind[p].sess ELSE NoSession]
      BY <1>8 DEF Open
    <3> QED
      BY <3>1, <3>2
  <2>2. nextID' \in Panes \cup {0}
    BY <1>8 DEF Open, TypeOK
  <2> QED
    BY <1>8, <2>1, <2>2 DEF Open, TypeOK, Sighted, Placed
<1>9. ASSUME NEW p \in Panes, ClearBinding(p)
      PROVE  TypeOK' /\ Sighted' /\ Placed'
  BY <1>9 DEF ClearBinding, ClearPaneAgentSession, TypeOK, Sighted, Placed
<1>10. ASSUME NEW p \in Panes, CaptureKnown(p) \/ CaptureEarly(p) \/ CaptureLater(p)
       PROVE  TypeOK' /\ Sighted' /\ Placed'
  <2>1. waiting' \in [Panes -> Procs \cup {NoProc}]
    BY <1>10 DEF CaptureKnown, CaptureEarly, CaptureLater, CaptureDue, Capture, TypeOK, States
  <2> QED
    BY <1>10, <2>1 DEF CaptureKnown, CaptureEarly, CaptureLater, CaptureDue, Capture, TypeOK, Sighted, Placed
<1>11. ASSUME NEW p \in Panes, CaptureFound(p)
       PROVE  TypeOK' /\ Sighted' /\ Placed'
  <2> DEFINE a == next[p].pid
             found == agents[a].first
             b == [sess |-> found, at |-> clock, by |-> a, src |-> "log"]
  <2>1. a \in Procs
    BY <1>11 DEF CaptureFound, CaptureDue, Capture, Sighted, TypeOK
  <2>2. found \in Sessions
    BY <1>11, <2>1 DEF CaptureFound, TypeOK, Agents
  <2>3. b \in Bindings
    BY <2>1, <2>2 DEF TypeOK, Bindings
  <2>4. UpsertPaneAgentSession(p, b)
    BY <1>11 DEF CaptureFound
  <2>5. bind' \in [Panes -> Bindings \cup {NoBinding}]
    BY <2>3, <2>4, UpsertTyped
  <2>6. item' \in [Panes -> Sessions \cup {NoSession}]
    BY <1>11, <2>2 DEF CaptureFound, TypeOK
  <2> QED
    BY <1>11, <2>5, <2>6 DEF CaptureFound, CaptureDue, Capture, TypeOK, Sighted, Placed
<1>12. ASSUME NEW p \in Panes, RetryDue(p)
       PROVE  TypeOK' /\ Sighted' /\ Placed'
  BY <1>12 DEF RetryDue, TypeOK, Sighted, Placed
<1>13. ASSUME NEW p \in Panes, ClosePane(p)
       PROVE  TypeOK' /\ Sighted' /\ Placed'
  <2>1. agents' \in [Procs -> Agents] /\ Placed'
    BY <1>13, EndedPlaced DEF ClosePane, TypeOK, LiveIn
  <2>2. rows' \subseteq Panes /\ bind' \in [Panes -> Bindings \cup {NoBinding}]
    <3>1. CASE Save(panes')
      <4>1. panes' \in SUBSET Panes
        BY <1>13 DEF ClosePane, TypeOK
      <4> QED
        BY <3>1, <4>1 DEF Save, TypeOK
    <3> QED
      BY <1>13, <3>1 DEF ClosePane, TypeOK
  <2>3. seen' \in [Panes -> States] /\ \A q \in Panes : seen'[q].status = "live" => seen'[q].pid \in Procs
    BY <1>13 DEF ClosePane, TypeOK, Sighted, NoState, States
  <2> QED
    BY <1>13, <2>1, <2>2, <2>3 DEF ClosePane, TypeOK, Sighted
<1>14. ASSUME NEW p \in Panes, startPane(p) \/ LoseResume(p)
       PROVE  TypeOK' /\ Sighted' /\ Placed'
  BY <1>14 DEF startPane, LoseResume, TypeOK, Sighted, Placed
<1>15. ASSUME NEW p \in Panes, ShellExits(p)
       PROVE  TypeOK' /\ Sighted' /\ Placed'
  <2>1. agents' \in [Procs -> Agents] /\ Placed'
    BY <1>15, EndedPlaced DEF ShellExits, TypeOK, LiveIn
  <2> QED
    BY <1>15, <2>1 DEF ShellExits, TypeOK, Sighted
<1>16. ASSUME NEW p \in Panes, NEW a \in Procs, RunResume(a, p)
       PROVE  TypeOK' /\ Sighted' /\ Placed'
  <2>1. pending[p] \in Sessions /\ Launch(a, p, NoProc, pending[p])
    BY <1>16 DEF RunResume, TypeOK
  <2>2. agents' \in [Procs -> Agents] /\ hooks' = hooks /\ ran' \in [Panes -> SUBSET Sessions] /\ Placed'
    BY <2>1, LaunchTyped DEF TypeOK
  <2> QED
    BY <1>16, <2>2 DEF RunResume, TypeOK, Sighted
<1>17. ASSUME NEW p \in Panes, NEW a \in Procs, StartAgent(a, p)
       PROVE  TypeOK' /\ Sighted' /\ Placed'
  <2>1. PICK parent \in Procs \cup {NoProc}, s \in Sessions : Launch(a, p, parent, s)
    BY <1>17 DEF StartAgent, LiveIn
  <2>2. agents' \in [Procs -> Agents] /\ hooks' = hooks /\ ran' \in [Panes -> SUBSET Sessions] /\ Placed'
    BY <2>1, LaunchTyped DEF TypeOK
  <2> QED
    BY <1>17, <2>2 DEF StartAgent, TypeOK, Sighted
<1>18. ASSUME NEW a \in Procs, AgentStep(a), Others
       PROVE  TypeOK' /\ Sighted' /\ Placed'
  <2>1. /\ agents' \in [Procs -> Agents] /\ hooks' \subseteq Hooks
        /\ ran' \in [Panes -> SUBSET Sessions] /\ Placed'
    BY <1>18, AgentStepTyped DEF TypeOK
  <2> QED
    BY <1>18, <2>1 DEF Others, TypeOK, Sighted
<1>19. ASSUME NEW h \in hooks, HookStep(h), Others
       PROVE  TypeOK' /\ Sighted' /\ Placed'
  <2>1. hooks' \subseteq Hooks /\ agents' = agents /\ ran' = ran
    BY <1>19 DEF HookStep, StampHook, HookFails, TypeOK, Hooks
  <2> QED
    BY <1>19, <2>1 DEF Others, TypeOK, Sighted, Placed
<1>20. ASSUME NEW h \in hooks, RecordSessionStart(h), UNCHANGED <<rows, clock, runVars, scanVars, paneVars>>
       PROVE  TypeOK' /\ Sighted' /\ Placed'
  <2>1. [sess |-> h.sess, at |-> h.at, by |-> h.by, src |-> "hook"] \in Bindings /\ h.pane \in Panes
    BY <1>20 DEF RecordSessionStart, TypeOK, Hooks, Bindings
  <2>2. bind' \in [Panes -> Bindings \cup {NoBinding}]
    BY <1>20, <2>1, UpsertTyped DEF RecordSessionStart
  <2> QED
    BY <1>20, <2>2 DEF RecordSessionStart, TypeOK, Sighted, Placed
<1>21. CASE TimePasses /\ UNCHANGED <<agentVars, runVars, scanVars, paneVars>>
  BY <1>21, ClockAssumption DEF TimePasses, TypeOK, Sighted, Placed
<1>22. CASE UNCHANGED vars
  BY <1>22 DEF vars, TypeOK, Sighted, Placed
<1>23. ASSUME NEW p \in Panes, NewPane(p)
       PROVE  TypeOK' /\ Sighted' /\ Placed'
  <2>1. rows' \subseteq Panes /\ bind' \in [Panes -> Bindings \cup {NoBinding}]
    <3>1. CASE Save(panes')
      <4>1. panes' \in SUBSET Panes
        BY <1>23 DEF NewPane, TypeOK
      <4> QED
        BY <3>1, <4>1 DEF Save, TypeOK
    <3> QED
      BY <1>23, <3>1 DEF NewPane, TypeOK
  <2>2. shell' \in [Panes -> {"unstarted", "failed", "running", "exited"}] /\ panes' \subseteq Panes
    BY <1>23 DEF NewPane, TypeOK
  <2>3. ran' \in [Panes -> SUBSET Sessions] /\ late' \in [Panes -> SUBSET Sessions]
    <3>1. {h.sess : h \in {k \in hooks : k.pane = p}} \subseteq Sessions
      BY DEF TypeOK, Hooks
    <3> QED
      BY <1>23, <3>1 DEF NewPane, TypeOK
  <2> QED
    BY <1>23, <2>1, <2>2, <2>3 DEF NewPane, TypeOK, Sighted, Placed
<1> QED
  BY Steps, <1>23, <1>1, <1>2, <1>3, <1>4, <1>5, <1>6, <1>7, <1>8, <1>9, <1>10, <1>11, <1>12, <1>13, <1>14,
     <1>15, <1>16, <1>17, <1>18, <1>19, <1>20, <1>21, <1>22

(* TypeOK: types of the database, of the processes and of the memory of    *)
(* the runtime; a capture looks up the log of a process it did see.        *)
THEOREM Typing == Spec => []TypeOK
<1>1. Spec => [](TypeOK /\ Sighted /\ Placed)
  BY TypedInit, TypedNext, PTL DEF Spec
<1> QED
  BY <1>1, PTL

-----------------------------------------------------------------------------
(* No number above the last one has been given or is saved.                *)
Numbered == up => \A p \in rows \cup panes : p <= nextID

LEMMA NumberedNext ==
  ASSUME TypeOK, Numbered, [Next]_vars
  PROVE  Numbered'
<1> USE DEF storeVars, agentVars, runVars, scanVars, paneVars
<1>1. CASE Open
  BY <1>1 DEF Open, Numbered
<1>2. CASE CloseModel \/ Crash
  BY <1>2 DEF CloseModel, Crash, RuntimeEnds, Numbered
<1>3. ASSUME NEW p \in Panes, NewPane(p)
      PROVE  Numbered'
  <2>1. up /\ p > nextID /\ nextID' = p /\ panes' = panes \cup {p} /\ rows' \subseteq rows \cup panes'
    BY <1>3 DEF NewPane, Save
  <2>2. rows \cup panes \subseteq Nat /\ nextID \in Nat /\ p \in Nat
    BY NumberAssumption DEF TypeOK
  <2> QED
    BY <2>1, <2>2 DEF Numbered
<1>4. ASSUME UNCHANGED <<up, nextID>>, rows' \cup panes' \subseteq rows \cup panes
      PROVE  Numbered'
  BY <1>4 DEF Numbered
<1>5. ASSUME NEW p \in Panes, ClosePane(p)
      PROVE  Numbered'
  BY <1>4, <1>5 DEF ClosePane, Save
<1>6. CASE Persist
  BY <1>4, <1>6 DEF Persist, Save
<1>7. ASSUME \/ BeginScan \/ BeginCapture \/ EndScan \/ Stop
             \/ \E p \in Panes :
                  \/ ClearBinding(p) \/ CaptureKnown(p) \/ CaptureEarly(p) \/ CaptureLater(p)
                  \/ CaptureFound(p) \/ RetryDue(p) \/ startPane(p) \/ LoseResume(p)
                  \/ ShellExits(p)
             \/ \E p \in Panes, a \in Procs : RunResume(a, p) \/ StartAgent(a, p)
             \/ \E a \in Procs : AgentStep(a) /\ Others
             \/ \E h \in hooks : HookStep(h) /\ Others
             \/ \E h \in hooks : RecordSessionStart(h) /\ UNCHANGED <<rows, clock, runVars, scanVars, paneVars>>
             \/ TimePasses /\ UNCHANGED <<agentVars, runVars, scanVars, paneVars>>
             \/ UNCHANGED vars
      PROVE  UNCHANGED <<up, nextID, rows, panes>>
  BY <1>7 DEF BeginScan, BeginCapture, EndScan, Stop, ClearBinding, CaptureKnown, CaptureEarly,
              CaptureLater, CaptureFound, CaptureDue, Capture, RetryDue, startPane, LoseResume,
              ShellExits, RunResume, StartAgent, Others, TimePasses, vars
<1> QED
  BY Steps, <1>1, <1>2, <1>3, <1>4, <1>5, <1>6, <1>7

LEMMA NumberIsNew ==
  ASSUME TypeOK, Numbered, NEW p \in Panes, NewPane(p)
  PROVE  p \notin panes \cup rows
<1>1. rows \cup panes \subseteq Nat /\ nextID \in Nat /\ p \in Nat
  BY NumberAssumption DEF TypeOK
<1> QED
  BY <1>1 DEF NewPane, Numbered

(* Where the runtime is in its scan, and which panes it can have seen.     *)
ScanInv ==
  /\ Numbered
  /\ ~up => phase = "idle" /\ panes = {}
  /\ phase = "idle" => todo = {} /\ next = Nowhere
  /\ phase = "stopping" => next = seen
  /\ phase = "clearing" => \A p \in todo : seen[p].status = "live"
  /\ todo \subseteq panes
  /\ \A p \in Panes :
       /\ seen[p].status # "none" \/ next[p].status # "none" => shell[p] \in {"running", "exited"}
       /\ shell[p] # "unstarted" \/ item[p] # NoSession \/ pending[p] # NoSession => p \in panes

LEMMA NowhereIsNone == \A p \in Panes : Nowhere[p].status = "none"
BY DEF Nowhere, NoState

LEMMA RuntimeEndsScan ==
  ASSUME RuntimeEnds
  PROVE  ScanInv'
BY NowhereIsNone DEF RuntimeEnds, ScanInv, Nothing, Numbered

LEMMA ScanInit ==
  ASSUME Init
  PROVE  ScanInv
BY NowhereIsNone DEF Init, ScanInv, Nothing, Numbered

LEMMA ScanNext ==
  ASSUME TypeOK, ScanInv, [Next]_vars
  PROVE  ScanInv'
<1> USE DEF storeVars, agentVars, runVars, scanVars, paneVars
<1>0. Numbered'
  BY NumberedNext DEF ScanInv
<1>1. CASE BeginScan
  <2>1. PICK states \in {[p \in Panes |-> Observed(p)], seen} :
          next' = states /\ todo' = {p \in panes : Ends(p, states)}
    BY <1>1 DEF BeginScan
  <2>2. \A p \in Panes : next'[p].status # "none" => shell[p] \in {"running", "exited"}
    BY <2>1 DEF Observed, ScanInv, NoState
  <2>3. todo' \subseteq panes /\ \A p \in todo' : seen[p].status = "live"
    BY <2>1 DEF Ends
  <2> QED
    BY <1>0, <1>1, <2>2, <2>3 DEF BeginScan, ScanInv
<1>2. CASE BeginCapture
  BY <1>0, <1>2 DEF BeginCapture, LiveCodex, ScanInv
<1>3. CASE EndScan
  BY <1>0, <1>3, NowhereIsNone DEF EndScan, ScanInv
<1>4. CASE Stop
  BY <1>0, <1>4, NowhereIsNone DEF Stop, LiveCodex, ScanInv
<1>5. CASE CloseModel \/ Crash
  BY <1>0, <1>5, RuntimeEndsScan DEF CloseModel, Crash
<1>6. CASE Open
  BY <1>0, <1>6 DEF Open, ScanInv, TypeOK
<1>7. ASSUME NEW p \in Panes,
             \/ ClearBinding(p) \/ CaptureKnown(p) \/ CaptureEarly(p) \/ CaptureLater(p)
             \/ CaptureFound(p)
      PROVE  ScanInv'
  <2>1. p \in panes /\ todo' \subseteq todo /\ UNCHANGED <<up, phase, next, seen, panes, shell, pending>>
    BY <1>7 DEF ClearBinding, CaptureKnown, CaptureEarly, CaptureLater, CaptureFound, CaptureDue,
                Capture, ScanInv
  <2>2. \A q \in Panes \ {p} : item'[q] = item[q]
    BY <1>7 DEF ClearBinding, CaptureKnown, CaptureEarly, CaptureLater, CaptureFound, TypeOK
  <2>3. phase # "idle"
    BY <1>7 DEF ClearBinding, CaptureKnown, CaptureEarly, CaptureLater, CaptureFound, CaptureDue,
                Capture
  <2> QED
    BY <1>0, <2>1, <2>2, <2>3 DEF ScanInv
<1>8. ASSUME NEW p \in Panes, ClosePane(p)
      PROVE  ScanInv'
  <2>1. /\ seen'[p].status = "none" /\ shell'[p] = "unstarted" /\ item'[p] = NoSession
        /\ pending'[p] = NoSession /\ \A q \in Panes \ {p} : pending'[q] = pending[q]
        /\ \A q \in Panes \ {p} : seen'[q] = seen[q] /\ shell'[q] = shell[q] /\ item'[q] = item[q]
    BY <1>8 DEF ClosePane, TypeOK, NoState
  <2>2. panes' = panes \ {p} /\ up /\ phase = "idle" /\ UNCHANGED <<up, phase, todo, next>>
    BY <1>8 DEF ClosePane
  <2> QED
    BY <1>0, <2>1, <2>2, NowhereIsNone DEF ScanInv
<1>9. ASSUME NEW p \in Panes, startPane(p) \/ ShellExits(p)
      PROVE  ScanInv'
  <2>1. /\ p \in panes /\ \A q \in Panes \ {p} : shell'[q] = shell[q] /\ pending'[q] = pending[q]
        /\ shell[p] \in {"running", "exited"} => shell'[p] \in {"running", "exited"}
        /\ UNCHANGED <<up, phase, todo, next, seen, panes, item>>
    BY <1>9 DEF startPane, ShellExits, ScanInv, TypeOK
  <2> QED
    BY <1>0, <2>1 DEF ScanInv
<1>10. ASSUME NEW p \in Panes, RetryDue(p) \/ LoseResume(p)
       PROVE  ScanInv'
  <2>1. \A q \in Panes : pending'[q] \in {pending[q], NoSession}
    BY <1>10 DEF RetryDue, LoseResume, TypeOK
  <2> QED
    BY <1>0, <1>10, <2>1 DEF RetryDue, LoseResume, ScanInv
<1>11. ASSUME \/ \E p \in Panes, a \in Procs : RunResume(a, p) \/ StartAgent(a, p)
              \/ \E a \in Procs : AgentStep(a) /\ Others
              \/ \E h \in hooks : HookStep(h) /\ Others
              \/ \E h \in hooks : RecordSessionStart(h) /\ UNCHANGED <<rows, clock, runVars, scanVars, paneVars>>
              \/ TimePasses /\ UNCHANGED <<agentVars, runVars, scanVars, paneVars>>
              \/ Persist \/ UNCHANGED vars
       PROVE  ScanInv'
  <2>1. UNCHANGED <<up, phase, todo, next, seen, panes, shell, item>>
    BY <1>11 DEF RunResume, StartAgent, Others, Persist, vars
  <2>2. \A q \in Panes : pending'[q] \in {pending[q], NoSession}
    BY <1>11 DEF RunResume, StartAgent, Others, Persist, vars, TypeOK
  <2> QED
    BY <1>0, <2>1, <2>2 DEF ScanInv
<1>12. ASSUME NEW p \in Panes, NewPane(p)
       PROVE  ScanInv'
  <2>1. /\ p \notin panes /\ panes' = panes \cup {p} /\ up
        /\ UNCHANGED <<up, phase, todo, next, seen, item, pending>>
    BY <1>12, NumberIsNew DEF NewPane, ScanInv
  <2>2. \A q \in Panes \ {p} : shell'[q] = shell[q]
    BY <1>12 DEF NewPane, TypeOK
  <2>3. seen[p].status = "none" /\ next[p].status = "none"
    BY <2>1 DEF ScanInv
  <2> QED
    BY <1>0, <2>1, <2>2, <2>3 DEF ScanInv
<1> QED
  BY Steps, <1>1, <1>2, <1>3, <1>4, <1>5, <1>6, <1>7, <1>8, <1>9, <1>10, <1>11, <1>12

-----------------------------------------------------------------------------
Unbound(p) == item[p] = NoSession /\ bind[p].src # "log"

(* What the scan will take for ended is forgotten by the time it is done.  *)
Forgotten ==
  \A p \in Panes :
    /\ phase = "clearing" /\ next[p].status = "exited" /\ p \notin todo => Unbound(p)
    /\ phase = "capturing" /\ next[p].status = "exited" => Unbound(p)

MemoryInv == MemoryBacked /\ EndedStaysUnbound /\ Forgotten

LEMMA MemoryInit ==
  ASSUME Init
  PROVE  MemoryInv
BY NowhereIsNone DEF Init, MemoryInv, MemoryBacked, EndedStaysUnbound, Forgotten, Nothing

LEMMA RuntimeEndsMemory ==
  ASSUME RuntimeEnds
  PROVE  MemoryInv'
BY NowhereIsNone DEF RuntimeEnds, MemoryInv, MemoryBacked, EndedStaysUnbound, Forgotten, Nothing

(* The save keeps the bindings of every pane that is in memory.            *)
LEMMA SaveMemory ==
  ASSUME NEW open \in SUBSET Panes, Save(open)
  PROVE  /\ \A p \in open : bind'[p] = bind[p]
         /\ \A p \in Panes : bind'[p] = bind[p] \/ bind'[p] = NoBinding
BY DEF Save

LEMMA NoBindingFields == NoBinding.src = "none" /\ NoBinding.sess = NoSession /\ NoBinding.at = 0
BY DEF NoBinding

(* An upsert leaves a binding; that of a hook is not one of the log.       *)
LEMMA UpsertMemory ==
  ASSUME TypeOK, NEW p \in Panes, NEW b \in Bindings, UpsertPaneAgentSession(p, b)
  PROVE  /\ \A q \in Panes \ {p} : bind'[q] = bind[q]
         /\ bind'[p] \in {b, bind[p]}
         /\ p \in rows => bind'[p] # NoBinding
<1>1. bind' = [bind EXCEPT ![p] = IF p \in rows /\ b.at >= bind[p].at THEN b ELSE bind[p]]
  BY DEF UpsertPaneAgentSession
<1>2. \A q \in Panes : bind'[q] = IF q = p /\ p \in rows /\ b.at >= bind[p].at THEN b ELSE bind[q]
  BY <1>1 DEF TypeOK
<1>3. b.at \in Nat \ {0}
  BY DEF Bindings
<1> QED
  BY <1>2, <1>3, NoBindingFields

LEMMA MemoryNext ==
  ASSUME TypeOK, Sighted, ScanInv, MemoryInv, [Next]_vars
  PROVE  MemoryInv'
<1> DEFINE Same == UNCHANGED <<phase, next, seen>>
<1> USE DEF storeVars, agentVars, runVars, scanVars, paneVars, MemoryInv, MemoryBacked, EndedStaysUnbound,
            Forgotten, Unbound
<1>1. CASE BeginScan
  <2>1. PICK states \in {[p \in Panes |-> Observed(p)], seen} :
          next' = states /\ todo' = {p \in panes : Ends(p, states)}
    BY <1>1 DEF BeginScan
  <2>2. ASSUME NEW p \in Panes, next'[p].status = "exited", p \notin todo'
        PROVE  seen[p].status = "exited"
    <3>1. seen[p].status # "none" /\ seen[p].status \in {"none", "live", "exited"}
      BY <2>1, <2>2, ObservedTyped DEF TypeOK, States
    <3>2. p \in panes
      BY <3>1 DEF ScanInv
    <3> QED
      BY <2>1, <2>2, <3>1, <3>2 DEF Ends
  <2>3. phase = "idle" /\ phase' = "clearing" /\ UNCHANGED <<seen, item, bind>>
    BY <1>1 DEF BeginScan
  <2> QED
    BY <2>2, <2>3
<1>2. CASE BeginCapture
  BY <1>2 DEF BeginCapture
<1>3. CASE EndScan
  BY <1>3 DEF EndScan
<1>4. CASE Stop
  BY <1>4 DEF Stop
<1>5. CASE CloseModel \/ Crash
  BY <1>5, RuntimeEndsMemory DEF CloseModel, Crash
<1>6. CASE Open
  <2>1. \A p \in Panes : item'[p] # NoSession => bind[p].sess # NoSession
    BY <1>6 DEF Open
  <2>2. \A p \in Panes : bind[p].sess # NoSession => bind[p] # NoBinding
    BY NoBindingFields
  <2>3. seen' = seen /\ \A p \in Panes : seen[p].status = "none"
    BY <1>6 DEF Open, ScanInv, TypeOK, States
  <2> QED
    BY <1>6, <2>1, <2>2, <2>3 DEF Open, ScanInv
<1>7. ASSUME NEW p \in Panes, ClearBinding(p)
      PROVE  MemoryInv'
  <2>1. /\ bind'[p] = NoBinding /\ item'[p] = NoSession /\ todo' = todo \ {p} /\ Same
        /\ \A q \in Panes \ {p} : bind'[q] = bind[q] /\ item'[q] = item[q]
    BY <1>7 DEF ClearBinding, ClearPaneAgentSession, TypeOK
  <2>2. Unbound(p)'
    BY <2>1, NoBindingFields
  <2> QED
    BY <2>1, <2>2
<1>8. ASSUME NEW p \in Panes, CaptureKnown(p) \/ CaptureEarly(p) \/ CaptureLater(p)
      PROVE  MemoryInv'
  <2>1. Same /\ phase # "clearing" /\ UNCHANGED <<bind, item>>
    BY <1>8 DEF CaptureKnown, CaptureEarly, CaptureLater, CaptureDue, Capture
  <2> QED
    BY <2>1
<1>9. ASSUME NEW p \in Panes, CaptureFound(p)
      PROVE  MemoryInv'
  <2> DEFINE a == next[p].pid
             b == [sess |-> agents[a].first, at |-> clock, by |-> a, src |-> "log"]
  <2>1. Same /\ phase \in {"capturing", "stopping"} /\ next[p].status = "live"
    BY <1>9 DEF CaptureFound, CaptureDue, Capture, Sighted
  <2>2. b \in Bindings
    BY <1>9, <2>1 DEF CaptureFound, Sighted, TypeOK, Agents, Bindings
  <2>3. \A q \in Panes \ {p} : bind'[q] = bind[q] /\ item'[q] = item[q]
    BY <1>9, <2>2, UpsertMemory DEF CaptureFound, TypeOK
  <2>4. bind'[p] # NoBinding
    BY <1>9, <2>2, UpsertMemory DEF CaptureFound
  <2>5. phase = "stopping" => seen[p].status = "live"
    BY <2>1 DEF ScanInv
  <2> HIDE DEF b
  <2> QED
    BY <2>1, <2>3, <2>4, <2>5
<1>10. ASSUME NEW p \in Panes, ClosePane(p)
       PROVE  MemoryInv'
  <2>1. /\ seen'[p].status = "none" /\ item'[p] = NoSession
        /\ \A q \in Panes \ {p} : seen'[q] = seen[q] /\ item'[q] = item[q]
    BY <1>10 DEF ClosePane, TypeOK, NoState
  <2>2. panes' = panes \ {p} /\ phase = "idle" /\ phase' = phase /\ panes' \in SUBSET Panes
    BY <1>10 DEF ClosePane, TypeOK
  <2>3. /\ \A q \in panes' : bind'[q] = bind[q]
        /\ \A q \in Panes : bind'[q] = bind[q] \/ bind'[q] = NoBinding
    BY <1>10, <2>2, SaveMemory DEF ClosePane
  <2>4. \A q \in Panes : item'[q] # NoSession => q \in panes' /\ item'[q] = item[q]
    BY <2>1, <2>2 DEF ScanInv
  <2> QED
    BY <2>1, <2>2, <2>3, <2>4, NoBindingFields
<1>15. ASSUME NEW p \in Panes, NewPane(p)
       PROVE  MemoryInv'
  <2>1. Same /\ item' = item /\ phase = "idle" /\ panes' = panes \cup {p} /\ panes' \in SUBSET Panes
    BY <1>15 DEF NewPane, TypeOK
  <2>2. /\ \A q \in panes : bind'[q] = bind[q]
        /\ \A q \in Panes : bind'[q] = bind[q] \/ bind'[q] = NoBinding
    BY <1>15, <2>1, SaveMemory DEF NewPane
  <2> QED
    BY <2>1, <2>2, NoBindingFields DEF ScanInv
<1>11. CASE Persist
  <2>1. /\ \A q \in panes : bind'[q] = bind[q]
        /\ \A q \in Panes : bind'[q] = bind[q] \/ bind'[q] = NoBinding
    BY <1>11, SaveMemory DEF Persist, TypeOK
  <2>2. Same /\ item' = item /\ phase = "idle"
    BY <1>11 DEF Persist
  <2> QED
    BY <2>1, <2>2, NoBindingFields DEF ScanInv
<1>12. ASSUME NEW h \in hooks, RecordSessionStart(h), UNCHANGED <<rows, clock, runVars, scanVars, paneVars>>
       PROVE  MemoryInv'
  <2> DEFINE b == [sess |-> h.sess, at |-> h.at, by |-> h.by, src |-> "hook"]
  <2>1. b \in Bindings /\ h.pane \in Panes
    BY <1>12 DEF RecordSessionStart, TypeOK, Hooks, Bindings
  <2>2. /\ \A q \in Panes \ {h.pane} : bind'[q] = bind[q]
        /\ bind'[h.pane] \in {b, bind[h.pane]}
    BY <1>12, <2>1, UpsertMemory DEF RecordSessionStart
  <2>3. b # NoBinding /\ b.src = "hook"
    BY <2>1 DEF NoBinding
  <2>4. Same /\ UNCHANGED <<todo, item>>
    BY <1>12
  <2> HIDE DEF b
  <2> QED
    BY <2>2, <2>3, <2>4
<1>13. ASSUME UNCHANGED <<phase, todo, next, seen, item, bind>>
       PROVE  MemoryInv'
  BY <1>13
<1>14. ASSUME \/ \E p \in Panes : RetryDue(p) \/ startPane(p) \/ LoseResume(p) \/ ShellExits(p)
              \/ \E p \in Panes, a \in Procs : RunResume(a, p) \/ StartAgent(a, p)
              \/ \E a \in Procs : AgentStep(a) /\ Others
              \/ \E h \in hooks : HookStep(h) /\ Others
              \/ TimePasses /\ UNCHANGED <<agentVars, runVars, scanVars, paneVars>>
              \/ UNCHANGED vars
       PROVE  UNCHANGED <<phase, todo, next, seen, item, bind>>
  BY <1>14 DEF RetryDue, startPane, LoseResume, ShellExits, RunResume, StartAgent, Others, TimePasses, vars
<1> QED
  BY Steps, <1>1, <1>2, <1>3, <1>4, <1>5, <1>6, <1>7, <1>8, <1>9, <1>10, <1>11, <1>12, <1>13, <1>14,
     <1>15

(* MemoryBacked: whatever session the runtime holds for a pane, so that it *)
(* no longer looks for one, the database holds a binding of that pane.     *)
THEOREM MemorySafety == Spec => []MemoryBacked
<1>1. Spec => [](TypeOK /\ Sighted /\ Placed /\ ScanInv /\ MemoryInv)
  BY TypedInit, TypedNext, ScanInit, ScanNext, MemoryInit, MemoryNext, PTL DEF Spec
<1>2. MemoryInv => MemoryBacked
  BY DEF MemoryInv
<1> QED
  BY <1>1, <1>2, PTL

(* EndedStaysUnbound: the runtime binds no pane to a session it read in    *)
(* the log once it saw the agent of that pane end.                         *)
THEOREM EndedSafety == Spec => []EndedStaysUnbound
<1>1. Spec => [](TypeOK /\ Sighted /\ Placed /\ ScanInv /\ MemoryInv)
  BY TypedInit, TypedNext, ScanInit, ScanNext, MemoryInit, MemoryNext, PTL DEF Spec
<1>2. MemoryInv => EndedStaysUnbound
  BY DEF MemoryInv
<1> QED
  BY <1>1, <1>2, PTL

-----------------------------------------------------------------------------
(* Agents run in panes that are open.                                      *)
IsLive(a) == agents[a].life = "live"
RunningOpen == \A a \in Procs : IsLive(a) => agents[a].pane \in panes

LEMMA EndedLives ==
  ASSUME agents \in [Procs -> Agents], NEW gone, agents' = Ended(gone)
  PROVE  \A a \in Procs : IsLive(a)' => a \notin gone /\ agents'[a] = agents[a] /\ IsLive(a)
<1>1. \A a \in Procs : Dead(agents[a]).life = "dead"
  BY DEF Dead, Agents
<1> QED
  BY <1>1 DEF Ended, IsLive

LEMMA RunningOpenNext ==
  ASSUME TypeOK, ScanInv, RunningOpen, [Next]_vars
  PROVE  RunningOpen'
<1> USE DEF storeVars, agentVars, runVars, scanVars, paneVars
<1>1. CASE CloseModel \/ Crash
  BY <1>1, EndedLives DEF CloseModel, Crash, RuntimeEnds, TypeOK, RunningOpen, IsLive
<1>2. ASSUME NEW p \in Panes, ClosePane(p)
      PROVE  RunningOpen'
  BY <1>2, EndedLives DEF ClosePane, LiveIn, TypeOK, RunningOpen, IsLive
<1>3. ASSUME NEW p \in Panes, ShellExits(p)
      PROVE  RunningOpen'
  BY <1>3, EndedLives DEF ShellExits, TypeOK, RunningOpen, IsLive
<1>4. ASSUME NEW p \in Panes, NEW a \in Procs, RunResume(a, p) \/ StartAgent(a, p)
      PROVE  RunningOpen'
  <2>1. p \in panes /\ panes' = panes
    BY <1>4 DEF RunResume, StartAgent, ScanInv
  <2>2. PICK parent, s : Launch(a, p, parent, s)
    BY <1>4 DEF RunResume, StartAgent
  <2>3. agents'[a].pane = p /\ \A b \in Procs \ {a} : agents'[b] = agents[b]
    BY <2>2 DEF Launch, Unborn, TypeOK
  <2> QED
    BY <2>1, <2>3 DEF RunningOpen, IsLive
<1>5. ASSUME NEW a \in Procs, AgentStep(a), Others
      PROVE  RunningOpen'
  <2>1. CASE ExitAgent(a)
    BY <1>5, <2>1, EndedLives DEF ExitAgent, Others, TypeOK, RunningOpen, IsLive
  <2>2. CASE (\E s \in Sessions : SwitchSession(a, s)) \/ LogThread(a) \/ SpawnHook(a)
    <3>1. agents[a] \in Agents
      BY DEF TypeOK
    <3>2. /\ agents'[a].pane = agents[a].pane /\ agents'[a].life = agents[a].life
          /\ \A b \in Procs \ {a} : agents'[b] = agents[b]
      <4>1. CASE \E t \in Sessions : SwitchSession(a, t)
        <5>1. PICK t \in Sessions :
                agents' = [agents EXCEPT ![a] = [agents[a] EXCEPT !.sess = t, !.owes = TRUE]]
          BY <4>1 DEF SwitchSession
        <5> QED
          BY <3>1, <5>1 DEF TypeOK, Agents
      <4>2. CASE LogThread(a)
        <5>1. agents' = [agents EXCEPT ![a] = [agents[a] EXCEPT !.first = agents[a].sess]]
          BY <4>2 DEF LogThread
        <5> QED
          BY <3>1, <5>1 DEF TypeOK, Agents
      <4>3. CASE SpawnHook(a)
        <5>1. agents' = [agents EXCEPT ![a] = [agents[a] EXCEPT !.owes = FALSE]]
          BY <4>3 DEF SpawnHook
        <5> QED
          BY <3>1, <5>1 DEF TypeOK, Agents
      <4> QED
        BY <2>2, <4>1, <4>2, <4>3
    <3> QED
      BY <1>5, <3>2 DEF Others, RunningOpen, IsLive
  <2> QED
    BY <1>5, <2>1, <2>2 DEF AgentStep
<1>6. ASSUME UNCHANGED agents, panes \subseteq panes'
      PROVE  RunningOpen'
  BY <1>6 DEF RunningOpen, IsLive
<1>7. ASSUME \/ BeginScan \/ BeginCapture \/ EndScan \/ Persist \/ Stop \/ Open
             \/ \E p \in Panes :
                  \/ ClearBinding(p) \/ CaptureKnown(p) \/ CaptureEarly(p) \/ CaptureLater(p)
                  \/ CaptureFound(p) \/ RetryDue(p) \/ NewPane(p) \/ startPane(p) \/ LoseResume(p)
             \/ \E h \in hooks : HookStep(h) /\ Others
             \/ \E h \in hooks : RecordSessionStart(h) /\ UNCHANGED <<rows, clock, runVars, scanVars, paneVars>>
             \/ TimePasses /\ UNCHANGED <<agentVars, runVars, scanVars, paneVars>>
             \/ UNCHANGED vars
      PROVE  UNCHANGED agents /\ panes \subseteq panes'
  BY <1>7 DEF BeginScan, BeginCapture, EndScan, Persist, Stop, Open, ClearBinding, CaptureKnown,
              CaptureEarly, CaptureLater, CaptureFound, CaptureDue, Capture, RetryDue, NewPane,
              startPane, LoseResume, HookStep, StampHook, HookFails, RecordSessionStart, Others,
              vars, ScanInv
<1> QED
  BY Steps, <1>1, <1>2, <1>3, <1>4, <1>5, <1>6, <1>7

(* Agents that run name only sessions that ran in their pane, and so do      *)
(* hooks, those of an earlier pane with the same id excepted.                *)
AgentsOwn ==
  /\ \A h \in hooks : h.sess \in ran[h.pane] \cup late[h.pane]
  /\ \A a \in Procs : IsLive(a) =>
       /\ agents[a].sess # NoSession => agents[a].pane \in Panes /\ agents[a].sess \in ran[agents[a].pane]
       /\ agents[a].first # NoSession => agents[a].pane \in Panes /\ agents[a].first \in ran[agents[a].pane]

(* History only grows, no agent moves to another pane, and the thread that   *)
(* is first in its log stays so.                                             *)
Grows ==
  /\ \A p \in Panes : ran[p] \subseteq ran'[p]
  /\ \A a \in Procs : agents[a].pane \in Panes =>
       /\ agents'[a].pane = agents[a].pane
       /\ agents'[a].first = agents[a].first \/ agents'[a].first \in ran'[agents[a].pane]

LEMMA EndedOwn ==
  ASSUME agents \in [Procs -> Agents], hooks \subseteq Hooks, AgentsOwn,
         NEW gone, agents' = Ended(gone), hooks' = hooks, ran' = ran, late' = late
  PROVE  AgentsOwn' /\ Grows
<1>1. \A a \in Procs :
        /\ agents'[a].pane = agents[a].pane /\ agents'[a].first = agents[a].first
        /\ agents'[a].sess \in {agents[a].sess, NoSession}
  BY EndedTyped
<1> QED
  BY <1>1, EndedLives DEF AgentsOwn, Grows, IsLive

LEMMA LaunchOwn ==
  ASSUME agents \in [Procs -> Agents], ran \in [Panes -> SUBSET Sessions], hooks \subseteq Hooks,
         AgentsOwn, NEW a \in Procs, NEW p \in Panes, NEW parent, NEW s \in Sessions,
         Launch(a, p, parent, s), late' = late
  PROVE  AgentsOwn' /\ Grows
<1>1. PICK direct \in BOOLEAN :
        agents' = [agents EXCEPT ![a] =
         [Unborn EXCEPT !.life = "live", !.pane = p, !.parent = parent,
                        !.direct = direct, !.sess = s, !.owes = TRUE]]
  BY DEF Launch
<1>2. agents'[a].pane = p /\ agents'[a].sess = s /\ agents'[a].first = NoSession
  BY <1>1 DEF Unborn
<1>3. \A b \in Procs \ {a} : agents'[b] = agents[b]
  BY <1>1
<1>4. agents[a].pane = NoPane
  BY DEF Launch, Unborn
<1>5. ran' = [ran EXCEPT ![p] = @ \cup {s}] /\ hooks' = hooks
  BY DEF Launch
<1>6. Grows
  BY <1>3, <1>4, <1>5, PaneAssumption DEF Grows
<1>7. \A h \in hooks : h.pane \in Panes
  BY DEF Hooks
<1> QED
  BY <1>2, <1>3, <1>5, <1>6, <1>7 DEF AgentsOwn, Grows, IsLive

LEMMA AgentStepOwn ==
  ASSUME agents \in [Procs -> Agents], ran \in [Panes -> SUBSET Sessions], hooks \subseteq Hooks,
         Placed, AgentsOwn, NEW a \in Procs, AgentStep(a), late' = late
  PROVE  AgentsOwn' /\ Grows
<1> USE DEF SwitchSession, LogThread, SpawnHook, ExitAgent
<1>0. agents[a] \in Agents /\ \A h \in hooks : h.pane \in Panes
  BY DEF Hooks
<1>1. CASE \E s \in Sessions : SwitchSession(a, s)
  <2>1. PICK s \in Sessions : SwitchSession(a, s)
    BY <1>1
  <2>2. agents[a].pane \in Panes
    BY <2>1 DEF Placed
  <2>3. agents' = [agents EXCEPT ![a] = [agents[a] EXCEPT !.sess = s, !.owes = TRUE]]
    BY <2>1
  <2>4. /\ agents'[a].pane = agents[a].pane /\ agents'[a].first = agents[a].first /\ agents'[a].sess = s
        /\ agents[a].life = "live" /\ \A b \in Procs \ {a} : agents'[b] = agents[b]
    BY <2>1, <2>3, <1>0 DEF Agents
  <2>5. ran' = [ran EXCEPT ![agents[a].pane] = @ \cup {s}] /\ hooks' = hooks
    BY <2>1
  <2>6. Grows
    BY <2>4, <2>5 DEF Grows
  <2> QED
    BY <1>0, <2>2, <2>4, <2>5, <2>6 DEF AgentsOwn, Grows, IsLive
<1>2. CASE LogThread(a)
  <2>1. agents' = [agents EXCEPT ![a] = [agents[a] EXCEPT !.first = agents[a].sess]]
    BY <1>2
  <2>2. /\ agents'[a].pane = agents[a].pane /\ agents'[a].first = agents[a].sess
        /\ agents'[a].sess = agents[a].sess
        /\ \A b \in Procs \ {a} : agents'[b] = agents[b]
    BY <2>1, <1>0 DEF Agents
  <2>3. IsLive(a) /\ agents[a].sess # NoSession
    BY <1>2, SessionAssumption, CodexAssumption DEF IsLive
  <2> QED
    BY <1>2, <2>2, <2>3 DEF AgentsOwn, Grows, IsLive
<1>3. CASE SpawnHook(a)
  <2>1. agents' = [agents EXCEPT ![a] = [agents[a] EXCEPT !.owes = FALSE]]
    BY <1>3
  <2>2. /\ agents'[a].pane = agents[a].pane /\ agents'[a].first = agents[a].first
        /\ agents'[a].sess = agents[a].sess /\ agents[a].life = "live"
        /\ \A b \in Procs \ {a} : agents'[b] = agents[b]
    BY <1>3, <2>1, <1>0 DEF Agents
  <2>3. agents[a].sess \in ran[agents[a].pane]
    BY <1>3, SessionAssumption DEF Placed, AgentsOwn, IsLive
  <2>4. \A h \in hooks' : h \in hooks \/ (h.pane = agents[a].pane /\ h.sess = agents[a].sess)
    BY <1>3
  <2> QED
    BY <1>3, <2>2, <2>3, <2>4 DEF AgentsOwn, Grows, IsLive
<1>4. CASE ExitAgent(a)
  BY <1>4, EndedOwn
<1> QED
  BY <1>1, <1>2, <1>3, <1>4 DEF AgentStep

LEMMA HookStepOwn ==
  ASSUME hooks \subseteq Hooks, AgentsOwn, NEW h \in hooks,
         HookStep(h) \/ RecordSessionStart(h), late' = late
  PROVE  AgentsOwn' /\ Grows
<1>1. \A k \in hooks' : k \in hooks \/ (k.pane = h.pane /\ k.sess = h.sess)
  BY DEF HookStep, StampHook, HookFails, RecordSessionStart, Hooks
<1>2. agents' = agents /\ ran' = ran
  BY DEF HookStep, StampHook, HookFails, RecordSessionStart
<1> QED
  BY <1>1, <1>2 DEF AgentsOwn, Grows, IsLive

(* Every step keeps it so, but for a new pane, in which nothing ran yet.     *)
LEMMA AgentsOwnNext ==
  ASSUME TypeOK, Placed, RunningOpen, ScanInv, AgentsOwn, [Next]_vars
  PROVE  AgentsOwn' /\ ((Grows /\ late' = late) \/ \E p \in Panes : NewPane(p))
<1>0. late' = late \/ \E p \in Panes : NewPane(p)
  BY Steps DEF BeginScan, BeginCapture, EndScan, Persist, Stop, CloseModel, Crash, Open, RuntimeEnds,
               ClearBinding, CaptureKnown, CaptureEarly, CaptureLater, CaptureFound, CaptureDue,
               Capture, RetryDue, ClosePane, startPane, LoseResume, ShellExits, RunResume, StartAgent,
               Others, TimePasses, vars, runVars
<1>9. ASSUME NEW p \in Panes, NewPane(p)
      PROVE  AgentsOwn'
  <2>1. /\ agents' = agents /\ hooks' = hooks
        /\ ran' = [ran EXCEPT ![p] = {}]
        /\ late' = [late EXCEPT ![p] = {h.sess : h \in {k \in hooks : k.pane = p}}]
    BY <1>9 DEF NewPane
  <2>2. /\ \A q \in Panes \ {p} : ran'[q] = ran[q] /\ late'[q] = late[q]
        /\ \A h \in hooks : h.pane = p => h.sess \in late'[p]
    BY <2>1 DEF TypeOK
  <2>3. \A a \in Procs : IsLive(a) => agents[a].pane # p
    BY <1>9, NumberIsNew DEF RunningOpen, ScanInv
  <2>4. \A h \in hooks : h.pane \in Panes
    BY DEF TypeOK, Hooks
  <2> QED
    BY <2>1, <2>2, <2>3, <2>4 DEF AgentsOwn, IsLive
<1> SUFFICES ASSUME late' = late
             PROVE  AgentsOwn' /\ (Grows \/ \E p \in Panes : NewPane(p))
  BY <1>0, <1>9
<1> USE DEF TypeOK
<1>1. CASE UNCHANGED agentVars
  BY <1>1 DEF agentVars, AgentsOwn, Grows, IsLive
<1>2. CASE RuntimeEnds
  BY <1>2, EndedOwn DEF RuntimeEnds
<1>3. ASSUME NEW p \in Panes, ClosePane(p) \/ ShellExits(p)
      PROVE  AgentsOwn' /\ Grows
  BY <1>3, EndedOwn DEF ClosePane, ShellExits
<1>4. ASSUME NEW p \in Panes, NEW a \in Procs, RunResume(a, p) \/ StartAgent(a, p)
      PROVE  AgentsOwn' /\ Grows
  <2>1. PICK parent \in Procs \cup {NoProc}, s \in Sessions : Launch(a, p, parent, s)
    BY <1>4 DEF RunResume, StartAgent, LiveIn
  <2> QED
    BY <2>1, LaunchOwn
<1>5. ASSUME NEW a \in Procs, AgentStep(a)
      PROVE  AgentsOwn' /\ Grows
  BY <1>5, AgentStepOwn
<1>6. ASSUME NEW h \in hooks, HookStep(h) \/ RecordSessionStart(h)
      PROVE  AgentsOwn' /\ Grows
  BY <1>6, HookStepOwn
<1>7. ASSUME \/ BeginScan \/ BeginCapture \/ EndScan \/ Persist \/ Stop \/ Open
             \/ TimePasses /\ UNCHANGED <<agentVars, runVars, scanVars, paneVars>>
             \/ UNCHANGED vars
      PROVE  UNCHANGED agentVars
  BY <1>7 DEF BeginScan, BeginCapture, EndScan, Persist, Stop, Open, vars
<1>8. ASSUME NEW p \in Panes,
             \/ ClearBinding(p) \/ CaptureKnown(p) \/ CaptureEarly(p) \/ CaptureLater(p)
             \/ CaptureFound(p) \/ RetryDue(p) \/ startPane(p) \/ LoseResume(p)
      PROVE  UNCHANGED agentVars
  BY <1>8 DEF ClearBinding, CaptureKnown, CaptureEarly, CaptureLater, CaptureFound, CaptureDue,
              Capture, RetryDue, startPane, LoseResume
<1> QED
  BY Steps, <1>9, <1>1, <1>2, <1>3, <1>4, <1>5, <1>6, <1>7, <1>8 DEF CloseModel, Crash

-----------------------------------------------------------------------------
(* The agent that is seen in a pane does run there, or did, and its log      *)
(* names a session that ran there.                                          *)
InPane(a, p) == agents[a].pane = p /\ agents[a].first \in ran[p] \cup {NoSession}

SeenInPane ==
  \A p \in Panes :
    /\ seen[p].status = "live" => InPane(seen[p].pid, p)
    /\ next[p].status = "live" => InPane(next[p].pid, p)

LEMMA SeenInPaneInit ==
  ASSUME Init
  PROVE  SeenInPane /\ RunningOpen /\ AgentsOwn /\ BindingIsOwn
<1>1. SeenInPane
  BY NowhereIsNone DEF Init, SeenInPane
<1>2. RunningOpen /\ AgentsOwn
  BY DEF Init, ProcessInit, Unborn, AgentsOwn, RunningOpen, IsLive
<1>3. BindingIsOwn
  BY DEF Init, StoreInit, Nothing, BindingIsOwn
<1> QED
  BY <1>1, <1>2, <1>3

LEMMA SeenInPaneNext ==
  ASSUME TypeOK, Sighted, ScanInv, AgentsOwn, Grows \/ \E p \in Panes : NewPane(p),
         SeenInPane, [Next]_vars
  PROVE  SeenInPane'
<1>9. ASSUME NEW p \in Panes, NewPane(p)
      PROVE  SeenInPane'
  <2>1. UNCHANGED <<next, seen, agents>> /\ \A q \in Panes \ {p} : ran'[q] = ran[q]
    BY <1>9 DEF NewPane, scanVars, TypeOK
  <2>2. seen[p].status = "none" /\ next[p].status = "none"
    BY <1>9, NumberIsNew DEF ScanInv
  <2> QED
    BY <2>1, <2>2 DEF SeenInPane, InPane
<1> SUFFICES ASSUME Grows
             PROVE  SeenInPane'
  BY <1>9
<1>1. \A a \in Procs, p \in Panes : InPane(a, p) => InPane(a, p)'
  BY DEF Grows, InPane
<1>2. ASSUME \A p \in Panes : seen'[p].status = "live" => seen'[p] \in {seen[p], next[p]},
             \A p \in Panes : next'[p].status = "live" => next'[p] \in {seen[p], next[p]}
      PROVE  SeenInPane'
  BY <1>1, <1>2 DEF SeenInPane, Sighted
<1>3. CASE BeginScan
  <2>1. \A p \in Panes : Observed(p).status = "live" =>
          Observed(p).pid \in Procs /\ InPane(Observed(p).pid, p)
    <3>1. ASSUME NEW p \in Panes, Observed(p).status = "live"
          PROVE  Observed(p).pid \in LiveIn(p)
      <4>1. discoverAgent(p) \in LiveIn(p) \cup {NoProc}
        BY DiscoveredIsInPane
      <4> QED
        BY <3>1, <4>1 DEF Observed, NoState, TypeOK, States
    <3> QED
      BY <3>1 DEF LiveIn, InPane, AgentsOwn, IsLive
  <2>2. next' = [p \in Panes |-> Observed(p)] \/ next' = seen
    BY <1>3 DEF BeginScan
  <2>3. seen' = seen
    BY <1>3 DEF BeginScan
  <2> QED
    BY <1>1, <2>1, <2>2, <2>3 DEF SeenInPane, Sighted
<1>4. CASE EndScan
  BY <1>2, <1>4, NowhereIsNone DEF EndScan
<1>5. CASE Stop
  BY <1>2, <1>5 DEF Stop
<1>6. CASE CloseModel \/ Crash
  BY <1>2, <1>6, NowhereIsNone DEF CloseModel, Crash, RuntimeEnds
<1>7. ASSUME NEW p \in Panes, ClosePane(p)
      PROVE  SeenInPane'
  BY <1>2, <1>7 DEF ClosePane, NoState, TypeOK
<1>8. ASSUME \/ \E p \in Panes :
                  \/ ClearBinding(p) \/ CaptureKnown(p) \/ CaptureEarly(p) \/ CaptureLater(p)
                  \/ CaptureFound(p) \/ RetryDue(p) \/ NewPane(p) \/ startPane(p) \/ LoseResume(p)
                  \/ ShellExits(p)
             \/ \E p \in Panes, a \in Procs : RunResume(a, p) \/ StartAgent(a, p)
             \/ \E a \in Procs : AgentStep(a) /\ Others
             \/ \E h \in hooks : HookStep(h) /\ Others
             \/ \E h \in hooks : RecordSessionStart(h) /\ UNCHANGED <<rows, clock, runVars, scanVars, paneVars>>
             \/ TimePasses /\ UNCHANGED <<agentVars, runVars, scanVars, paneVars>>
             \/ BeginCapture \/ Persist \/ Open \/ UNCHANGED vars
      PROVE  SeenInPane'
  <2>1. UNCHANGED <<next, seen>>
    BY <1>8 DEF ClearBinding, CaptureKnown, CaptureEarly, CaptureLater, CaptureFound, CaptureDue, Capture,
                RetryDue, NewPane, startPane, LoseResume, ShellExits, RunResume, StartAgent, Others, BeginCapture,
                Persist, Open, vars, scanVars
  <2> QED
    BY <1>2, <2>1
<1> QED
  BY Steps, <1>3, <1>4, <1>5, <1>6, <1>7, <1>8

LEMMA RuntimeEndsOwn ==
  ASSUME TypeOK, BindingIsOwn, Grows, late' = late, RuntimeEnds, UNCHANGED <<rows, bind>> \/ Save(panes)
  PROVE  BindingIsOwn'
<1>1. \A p \in Panes : item'[p] = NoSession /\ pending'[p] = NoSession
  BY DEF RuntimeEnds, Nothing
<1>2. \A p \in Panes : bind'[p] # NoBinding => bind'[p] = bind[p] /\ p \in rows'
  BY DEF Save, BindingIsOwn
<1> QED
  BY <1>1, <1>2 DEF BindingIsOwn, Grows

LEMMA BindingIsOwnNext ==
  ASSUME TypeOK, Sighted, ScanInv, AgentsOwn,
         (Grows /\ late' = late) \/ \E p \in Panes : NewPane(p),
         SeenInPane, BindingIsOwn, [Next]_vars
  PROVE  BindingIsOwn'
<1> USE DEF storeVars, agentVars, runVars, scanVars, paneVars
<1>11. ASSUME NEW p \in Panes, NewPane(p)
       PROVE  BindingIsOwn'
  <2>1. p \notin panes \cup rows
    BY <1>11, NumberIsNew DEF ScanInv
  <2>2. bind[p] = NoBinding /\ item[p] = NoSession /\ pending[p] = NoSession
    BY <2>1 DEF BindingIsOwn, ScanInv
  <2>3. \A q \in Panes : bind'[q] # NoBinding => bind'[q] = bind[q] /\ q \in rows' /\ q # p
    BY <1>11, <2>2 DEF NewPane, Save, BindingIsOwn
  <2>4. /\ UNCHANGED <<item, pending>>
        /\ \A q \in Panes \ {p} : ran'[q] = ran[q] /\ late'[q] = late[q]
    BY <1>11 DEF NewPane, TypeOK
  <2> QED
    BY <2>2, <2>3, <2>4 DEF BindingIsOwn
<1> SUFFICES ASSUME Grows, late' = late
             PROVE  BindingIsOwn'
  BY <1>11
<1>1. ASSUME UNCHANGED <<rows, bind, item>>,
             \A p \in Panes : pending'[p] \in {pending[p], item[p], NoSession}
      PROVE  BindingIsOwn'
  BY <1>1 DEF BindingIsOwn, Grows
<1>2. CASE CloseModel \/ Crash
  BY <1>2, RuntimeEndsOwn DEF CloseModel, Crash
<1>3. CASE Persist
  <2>1. \A p \in Panes : bind'[p] # NoBinding => bind'[p] = bind[p] /\ p \in rows'
    BY <1>3 DEF Persist, Save, BindingIsOwn
  <2>2. UNCHANGED <<item, pending>>
    BY <1>3 DEF Persist
  <2> QED
    BY <2>1, <2>2 DEF BindingIsOwn, Grows
<1>4. CASE Open
  <2>1. \A p \in Panes : item'[p] # NoSession => bind[p].sess # NoSession /\ item'[p] = bind[p].sess
    BY <1>4 DEF Open
  <2>2. \A p \in Panes : item'[p] # NoSession => item'[p] \in ran[p] \cup late[p]
    BY <2>1, NoBindingFields DEF BindingIsOwn
  <2>3. UNCHANGED <<rows, bind, pending>>
    BY <1>4 DEF Open
  <2> QED
    BY <2>2, <2>3 DEF BindingIsOwn, Grows
<1>5. ASSUME NEW p \in Panes, ClearBinding(p)
      PROVE  BindingIsOwn'
  <2>1. /\ bind'[p] = NoBinding /\ item'[p] = NoSession /\ UNCHANGED <<rows, pending>>
        /\ \A q \in Panes \ {p} : bind'[q] = bind[q] /\ item'[q] = item[q]
    BY <1>5 DEF ClearBinding, ClearPaneAgentSession, TypeOK
  <2> QED
    BY <2>1 DEF BindingIsOwn, Grows
<1>6. ASSUME NEW p \in Panes, CaptureFound(p)
      PROVE  BindingIsOwn'
  <2> DEFINE a == next[p].pid
             b == [sess |-> agents[a].first, at |-> clock, by |-> a, src |-> "log"]
  <2>1. next[p].status = "live" /\ a \in Procs /\ agents[a].pane = p
    BY <1>6 DEF CaptureFound, CaptureDue, Capture, Sighted, SeenInPane, InPane
  <2>2. agents[a].first \in Sessions /\ agents[a].first \in ran[p]
    BY <1>6, <2>1 DEF CaptureFound, CaptureDue, Capture, TypeOK, Agents, Sighted, SeenInPane, InPane
  <2>3. b \in Bindings
    BY <2>1, <2>2 DEF TypeOK, Bindings
  <2>4. /\ \A q \in Panes \ {p} : bind'[q] = bind[q] /\ item'[q] = item[q]
        /\ bind'[p] \in {b, bind[p]} /\ item'[p] = agents[a].first
        /\ p \in rows /\ UNCHANGED <<rows, pending>>
    BY <1>6, <2>3, UpsertMemory DEF CaptureFound, CaptureDue, Capture, TypeOK
  <2>5. b.sess \in ran[p]
    BY <2>2
  <2> HIDE DEF b, a
  <2> QED
    BY <2>2, <2>4, <2>5 DEF BindingIsOwn, Grows
<1>7. ASSUME NEW h \in hooks, RecordSessionStart(h), UNCHANGED <<rows, clock, runVars, scanVars, paneVars>>
      PROVE  BindingIsOwn'
  <2> DEFINE b == [sess |-> h.sess, at |-> h.at, by |-> h.by, src |-> "hook"]
  <2>1. b \in Bindings /\ h.pane \in Panes
    BY <1>7 DEF RecordSessionStart, TypeOK, Hooks, Bindings
  <2>2. /\ \A q \in Panes \ {h.pane} : bind'[q] = bind[q]
        /\ bind'[h.pane] \in {b, bind[h.pane]}
    BY <1>7, <2>1, UpsertMemory DEF RecordSessionStart
  <2>3. bind'[h.pane] # bind[h.pane] => h.pane \in rows
    BY <1>7, <2>1 DEF RecordSessionStart, UpsertPaneAgentSession, TypeOK
  <2>4. /\ b.sess \in ran[h.pane] \cup late[h.pane] /\ b.src = "hook"
        /\ UNCHANGED <<rows, item, pending>>
    BY <1>7 DEF AgentsOwn
  <2> HIDE DEF b
  <2> QED
    BY <2>1, <2>2, <2>3, <2>4 DEF BindingIsOwn, Grows
<1>8. ASSUME NEW p \in Panes, ClosePane(p)
      PROVE  BindingIsOwn'
  <2>1. \A q \in Panes : bind'[q] # NoBinding => bind'[q] = bind[q] /\ q \in rows'
    BY <1>8 DEF ClosePane, Save, BindingIsOwn
  <2>2. \A q \in Panes : item'[q] \in {item[q], NoSession} /\ pending'[q] \in {pending[q], NoSession}
    BY <1>8 DEF ClosePane, TypeOK
  <2> QED
    BY <2>1, <2>2 DEF BindingIsOwn, Grows
<1>9. ASSUME NEW p \in Panes,
             \/ CaptureKnown(p) \/ CaptureEarly(p) \/ CaptureLater(p) \/ RetryDue(p)
             \/ startPane(p) \/ LoseResume(p) \/ ShellExits(p)
             \/ \E a \in Procs : RunResume(a, p) \/ StartAgent(a, p)
      PROVE  BindingIsOwn'
  <2>1. UNCHANGED <<rows, bind, item>>
    BY <1>9 DEF CaptureKnown, CaptureEarly, CaptureLater, CaptureDue, Capture, RetryDue, startPane,
                LoseResume, ShellExits, RunResume, StartAgent
  <2>2. \A q \in Panes : pending'[q] \in {pending[q], item[q], NoSession}
    BY <1>9 DEF CaptureKnown, CaptureEarly, CaptureLater, CaptureDue, Capture, RetryDue, startPane,
                LoseResume, ShellExits, RunResume, StartAgent, TypeOK
  <2> QED
    BY <1>1, <2>1, <2>2
<1>10. ASSUME \/ BeginScan \/ BeginCapture \/ EndScan \/ Stop
              \/ \E a \in Procs : AgentStep(a) /\ Others
              \/ \E h \in hooks : HookStep(h) /\ Others
              \/ TimePasses /\ UNCHANGED <<agentVars, runVars, scanVars, paneVars>>
              \/ UNCHANGED vars
       PROVE  BindingIsOwn'
  <2>1. UNCHANGED <<rows, bind, item, pending>>
    BY <1>10 DEF BeginScan, BeginCapture, EndScan, Stop, Others, TimePasses, vars
  <2> QED
    BY <1>1, <2>1
<1> QED
  BY Steps, <1>2, <1>3, <1>4, <1>5, <1>6, <1>7, <1>8, <1>9, <1>10, <1>11

(* BindingIsOwn: in spite of hooks that come late, agents inside agents,     *)
(* sessions read from a log and numbers that are given again, a pane is       *)
(* bound to, and resumes, what ran in it, and else only what a hook that       *)
(* outlived the runtime wrote for an earlier pane of that number.             *)
THEOREM OwnSafety == Spec => []BindingIsOwn
<1> DEFINE Inv == /\ TypeOK /\ Sighted /\ Placed /\ ScanInv
                  /\ RunningOpen /\ AgentsOwn /\ SeenInPane /\ BindingIsOwn
<1>1. Init => Inv
  BY TypedInit, ScanInit, SeenInPaneInit
<1>2. Inv /\ [Next]_vars => Inv'
  BY TypedNext, ScanNext, RunningOpenNext, AgentsOwnNext, SeenInPaneNext, BindingIsOwnNext
<1> QED
  BY <1>1, <1>2, PTL DEF Spec

-----------------------------------------------------------------------------
(* The steps that change a binding.                                        *)
LEMMA BindSteps ==
  ASSUME [Next]_vars
  PROVE  \/ bind' = bind
         \/ Persist \/ CloseModel
         \/ \E p \in Panes : NewPane(p) \/ ClosePane(p) \/ ClearBinding(p) \/ CaptureFound(p)
         \/ \E h \in hooks : RecordSessionStart(h) /\ UNCHANGED <<rows, clock, runVars, scanVars, paneVars>>
<1>1. ASSUME \/ BeginScan \/ BeginCapture \/ EndScan \/ Stop \/ Crash \/ Open
             \/ \E q \in Panes : CaptureKnown(q) \/ CaptureEarly(q) \/ CaptureLater(q) \/ RetryDue(q)
                  \/ startPane(q) \/ LoseResume(q) \/ ShellExits(q)
             \/ \E q \in Panes, a \in Procs : RunResume(a, q) \/ StartAgent(a, q)
             \/ \E a \in Procs : AgentStep(a) /\ Others
             \/ \E h \in hooks : HookStep(h) /\ Others
             \/ TimePasses /\ UNCHANGED <<agentVars, runVars, scanVars, paneVars>>
             \/ UNCHANGED vars
      PROVE  bind' = bind
  BY <1>1 DEF BeginScan, BeginCapture, EndScan, Stop, Crash, Open, CaptureKnown, CaptureEarly,
              CaptureLater, CaptureDue, Capture, RetryDue, startPane, LoseResume, ShellExits, RunResume,
              StartAgent, Others, TimePasses, vars, storeVars
<1> QED
  BY <1>1, Steps

(* StampsGrow: whoever writes, the runtime or a hook that waited for the   *)
(* lock, a later stamp is never replaced by an earlier one.                *)
THEOREM StampOrder == Spec => StampsGrow
<1>1. ASSUME TypeOK, [Next]_vars, NEW p \in Panes, bind[p] # NoBinding, bind'[p] # NoBinding
      PROVE  bind[p].at <= bind'[p].at
  <2>1. bind[p].at \in Nat
    BY <1>1 DEF TypeOK, Bindings
  <2>2. ASSUME NEW q \in Panes, NEW b, UpsertPaneAgentSession(q, b)
        PROVE  bind[p].at <= bind'[p].at
    <3>1. bind'[p] = IF p = q /\ q \in rows /\ b.at >= bind[p].at THEN b ELSE bind[p]
      BY <1>1, <2>2 DEF UpsertPaneAgentSession, TypeOK
    <3> QED
      BY <2>1, <3>1
  <2>3. CASE bind'[p] \in {bind[p], NoBinding}
    BY <1>1, <2>1, <2>3
  <2>4. ASSUME NEW h \in hooks, RecordSessionStart(h)
        PROVE  bind[p].at <= bind'[p].at
    BY <1>1, <2>2, <2>4 DEF RecordSessionStart, TypeOK, Hooks
  <2>5. ASSUME NEW q \in Panes, CaptureFound(q)
        PROVE  bind[p].at <= bind'[p].at
    BY <2>2, <2>5 DEF CaptureFound
  <2>6. CASE Persist \/ CloseModel \/ \E q \in Panes : NewPane(q) \/ ClosePane(q)
    <3>1. bind'[p] \in {bind[p], NoBinding}
      BY <2>6 DEF Persist, CloseModel, NewPane, ClosePane, Save
    <3> QED
      BY <2>3, <3>1
  <2>7. CASE \E q \in Panes : ClearBinding(q)
    <3>1. bind'[p] \in {bind[p], NoBinding}
      BY <2>7, <1>1 DEF ClearBinding, ClearPaneAgentSession, TypeOK
    <3> QED
      BY <2>3, <3>1
  <2>8. CASE bind' = bind
    BY <2>3, <2>8
  <2> QED
    BY <1>1, BindSteps, <2>4, <2>5, <2>6, <2>7, <2>8
<1>2. TypeOK /\ [Next]_vars =>
        [\A p \in Panes :
           bind[p] # NoBinding /\ bind'[p] # NoBinding => bind[p].at <= bind'[p].at]_vars
  BY <1>1
<1> QED
  BY <1>2, Typing, PTL DEF Spec, StampsGrow

(* UnvisitedKeepsSession: a pane whose shell this runtime never started is *)
(* not seen by the scan, so neither the scan, nor a stop, nor a crash      *)
(* forgets the session it is to resume.                                    *)
THEOREM UnvisitedSafety == Spec => UnvisitedKeepsSession
<1>1. ASSUME TypeOK, ScanInv, [Next]_vars, NEW p \in panes, shell[p] = "unstarted",
             bind[p] # NoBinding, up' => p \in panes'
      PROVE  bind'[p] # NoBinding
  <2>1. p \in Panes
    BY <1>1 DEF TypeOK
  <2>2. ASSUME NEW open, Save(open), p \in open
        PROVE  bind'[p] # NoBinding
    BY <1>1, <2>1, <2>2 DEF Save
  <2>3. CASE Persist \/ CloseModel \/ \E q \in Panes : NewPane(q) \/ ClosePane(q)
    BY <1>1, <2>2, <2>3 DEF Persist, CloseModel, NewPane, ClosePane, runVars
  <2>4. ASSUME NEW q \in Panes, ClearBinding(q)
        PROVE  bind'[p] # NoBinding
    <3>1. seen[q].status = "live"
      BY <1>1, <2>4 DEF ClearBinding, ScanInv
    <3>2. q # p
      BY <1>1, <3>1 DEF ScanInv
    <3> QED
      BY <1>1, <2>1, <2>4, <3>2 DEF ClearBinding, ClearPaneAgentSession, TypeOK
  <2>5. ASSUME NEW q \in Panes, NEW b, b # NoBinding, UpsertPaneAgentSession(q, b)
        PROVE  bind'[p] # NoBinding
    BY <1>1, <2>1, <2>5 DEF UpsertPaneAgentSession, TypeOK
  <2>6. ASSUME NEW h \in hooks, RecordSessionStart(h)
        PROVE  bind'[p] # NoBinding
    <3>1. [sess |-> h.sess, at |-> h.at, by |-> h.by, src |-> "hook"] # NoBinding
      BY DEF NoBinding
    <3>2. h.pane \in Panes
      BY <1>1 DEF TypeOK, Hooks
    <3> QED
      BY <2>5, <2>6, <3>1, <3>2 DEF RecordSessionStart
  <2>7. ASSUME NEW q \in Panes, CaptureFound(q)
        PROVE  bind'[p] # NoBinding
    <3>1. [sess |-> agents[next[q].pid].first, at |-> clock, by |-> next[q].pid, src |-> "log"] # NoBinding
      BY DEF NoBinding
    <3> QED
      BY <2>5, <2>7, <3>1 DEF CaptureFound
  <2> QED
    BY <1>1, BindSteps, <2>3, <2>4, <2>6, <2>7
<1>2. TypeOK /\ ScanInv /\ [Next]_vars =>
        [\A p \in panes :
           shell[p] = "unstarted" /\ bind[p] # NoBinding /\ (up' => p \in panes')
             => bind'[p] # NoBinding]_vars
  BY <1>1
<1>3. Spec => [](TypeOK /\ Sighted /\ Placed /\ ScanInv)
  BY TypedInit, TypedNext, ScanInit, ScanNext, PTL DEF Spec
<1> QED
  BY <1>2, <1>3, PTL DEF Spec, UnvisitedKeepsSession

=============================================================================
