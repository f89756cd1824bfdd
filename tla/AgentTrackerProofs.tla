--------------------------- MODULE AgentTrackerProofs ---------------------------
(***************************************************************************)
(* Types of what the sidebar says of an agent, and that an interrupted     *)
(* turn never gets a completion tick, for any number of agents and any     *)
(* durations in the order of the code's.                                   *)
(***************************************************************************)
EXTENDS AgentTracker, TLAPS

-----------------------------------------------------------------------------
(* Types *)

Entry == [pid : Agents \cup {Nobody}, status : Statuses, age : 0 .. Grace,
          hold : 0 .. Hold, esc : 0 .. Display, seenWorking : BOOLEAN]

(* What is tracked, as far as the rules read it.                             *)
LEMMA EntryFields ==
  ASSUME NEW t \in Entry
  PROVE  /\ t.pid \in Agents \cup {Nobody} /\ t.status \in Statuses
         /\ t.age \in 0 .. Grace /\ t.hold \in 0 .. Hold /\ t.esc \in 0 .. Display
         /\ t.seenWorking \in BOOLEAN
BY DEF Entry

LEMMA FreshTyping ==
  /\ Untracked \in Entry /\ Untracked.status = "none" /\ Untracked.pid = Nobody
  /\ \A a \in Agents : /\ Fresh(a) \in Entry /\ Fresh(a).pid = a
                       /\ Fresh(a).status = "loading" /\ ~Fresh(a).seenWorking
<1>1. Untracked \in Entry /\ Untracked.status = "none" /\ Untracked.pid = Nobody
  BY TimesAssumption DEF Untracked, Entry, Statuses
<1>2. ASSUME NEW a \in Agents
      PROVE  /\ Fresh(a) \in Entry /\ Fresh(a).pid = a
             /\ Fresh(a).status = "loading" /\ ~Fresh(a).seenWorking
  <2>1. Fresh(a) = [Untracked EXCEPT !.pid = a, !.status = "loading"]
    BY DEF Fresh
  <2>2. Untracked.seenWorking = FALSE
    BY DEF Untracked
  <2>3. QED
    BY <1>1, <2>1, <2>2 DEF Entry, Statuses
<1>3. QED
  BY <1>1, <1>2

(* A change of status keeps the process; the three changes differ in what    *)
(* they say of work seen.                                                    *)
LEMMA TurnTyping ==
  ASSUME NEW t \in Entry
  PROVE  /\ \A status \in Statuses :
              /\ Turned(t, status) \in Entry /\ Turned(t, status).pid = t.pid
              /\ Turned(t, status).status = status
              /\ Turned(t, status).seenWorking = t.seenWorking
         /\ AtWork(t) \in Entry /\ AtWork(t).pid = t.pid /\ AtWork(t).status = "working"
         /\ Stopped(t) \in Entry /\ Stopped(t).pid = t.pid /\ Stopped(t).status = "idle"
         /\ Stopped(t).seenWorking = FALSE
<1>1. ASSUME NEW status \in Statuses
      PROVE  /\ Turned(t, status) \in Entry /\ Turned(t, status).pid = t.pid
             /\ Turned(t, status).status = status /\ Turned(t, status).seenWorking = t.seenWorking
  BY DEF Turned, Entry
<1>2. AtWork(t) \in Entry /\ AtWork(t).pid = t.pid /\ AtWork(t).status = "working"
  BY DEF AtWork, Turned, Entry, Statuses
<1>3. /\ Stopped(t) \in Entry /\ Stopped(t).pid = t.pid /\ Stopped(t).status = "idle"
      /\ Stopped(t).seenWorking = FALSE
  BY DEF Stopped, Turned, Entry, Statuses
<1>4. QED
  BY <1>1, <1>2, <1>3

LEMMA SignalTyping == Signal \in {"blocked", "working", "idle", "unknown"}
BY DEF Signal

LEMMA JudgedCases ==
  ASSUME NEW t \in Entry
  PROVE  \/ InterruptHeld(t) /\ Judged(t) = t
         \/ Signal = "blocked" /\ Judged(t) = Turned(t, "blocked")
         \/ Signal = "working" /\ Judged(t) = AtWork(t)
         \/ ~InterruptHeld(t) /\ Signal = "idle" /\ Judged(t) = OnIdle(t)
         \/ ~InterruptHeld(t) /\ Signal = "unknown" /\ Judged(t) = OnUnknown(t)
BY SignalTyping DEF Judged

LEMMA OnIdleCases ==
  ASSUME NEW t \in Entry
  PROVE  \/ t.status = "working" /\ OnIdle(t) = t
         \/ t.status = "interrupted" /\ OnIdle(t) = Stopped(t)
         \/ /\ t.seenWorking \/ t.status \in {"working", "blocked"}
            /\ OnIdle(t) = Turned(t, "finished")
         \/ OnIdle(t) = Turned(t, "idle")
BY DEF OnIdle, StillWorking

LEMMA OnUnknownCases ==
  ASSUME NEW t \in Entry
  PROVE  \/ t.status \notin {"loading", "interrupted"} /\ OnUnknown(t) = t
         \/ t.status = "interrupted" /\ OnUnknown(t) = Stopped(t)
         \/ OnUnknown(t) = Turned(t, "loading")
         \/ outputActive /\ OnUnknown(t) = AtWork(t)
         \/ OnUnknown(t) = Turned(t, "idle")
BY DEF OnUnknown, StillWorking

LEMMA JudgedTyping ==
  ASSUME NEW t \in Entry
  PROVE  Judged(t) \in Entry /\ Judged(t).pid = t.pid
<1> DEFINE Fine(u) == u \in Entry /\ u.pid = t.pid
<1>1. \A status \in {"blocked", "idle", "finished", "loading"} : Fine(Turned(t, status))
  <2>1. {"blocked", "idle", "finished", "loading"} \subseteq Statuses
    BY DEF Statuses
  <2>2. \A status \in Statuses : Fine(Turned(t, status))
    BY TurnTyping
  <2>3. QED
    BY <2>1, <2>2
<1>2. Fine(t) /\ Fine(AtWork(t)) /\ Fine(Stopped(t))
  BY TurnTyping
<1>3. Fine(OnIdle(t))
  BY <1>1, <1>2, OnIdleCases
<1>4. Fine(OnUnknown(t))
  BY <1>1, <1>2, OnUnknownCases
<1>5. Fine(Turned(t, "blocked"))
  BY <1>1
<1>6. Fine(Judged(t))
  BY <1>2, <1>3, <1>4, <1>5, JudgedCases
<1>7. QED
  BY <1>6

LEMMA MarkTyping ==
  ASSUME NEW t \in Entry
  PROVE  /\ Submitted(t) \in Entry /\ Submitted(t).pid = t.pid /\ Submitted(t).status = "working"
         /\ Interrupted(t) \in Entry /\ Interrupted(t).pid = t.pid
         /\ Interrupted(t).status = "interrupted" /\ Interrupted(t).esc = Display
         /\ Interrupted(t).seenWorking = FALSE
<1>1. Submitted(t) \in Entry /\ Submitted(t).pid = t.pid /\ Submitted(t).status = "working"
  <2>1. Submitted(t) = [AtWork(t) EXCEPT !.hold = Hold, !.esc = 0] /\ Hold \in 0 .. Hold /\ 0 \in 0 .. Display
    BY TimesAssumption DEF Submitted
  <2>2. AtWork(t) \in Entry /\ AtWork(t).pid = t.pid /\ AtWork(t).status = "working"
    BY TurnTyping
  <2>3. QED
    BY <2>1, <2>2 DEF Entry
<1>2. /\ Interrupted(t) \in Entry /\ Interrupted(t).pid = t.pid
      /\ Interrupted(t).status = "interrupted" /\ Interrupted(t).esc = Display
      /\ Interrupted(t).seenWorking = FALSE
  <2> DEFINE u == Turned(t, "interrupted")
  <2>1. /\ Interrupted(t) = [u EXCEPT !.seenWorking = FALSE, !.hold = 0, !.esc = Display]
        /\ 0 \in 0 .. Hold /\ Display \in 0 .. Display
    BY TimesAssumption DEF Interrupted
  <2>2. u \in Entry /\ u.pid = t.pid /\ u.status = "interrupted"
    BY TurnTyping DEF Statuses
  <2>3. QED
    BY <2>1, <2>2 DEF Entry
<1>3. QED
  BY <1>1, <1>2

LEMMA TimeTyping ==
  ASSUME TrackerTypeOK, TimePasses
  PROVE  /\ tracked' \in Entry /\ tracked'.pid = tracked.pid
         /\ tracked'.status = tracked.status /\ tracked'.seenWorking = tracked.seenWorking
         /\ tracked # Untracked => tracked'.esc = Sooner(tracked.esc)
         /\ silence' \in 0 .. Window + 1 /\ lapse' \in 0 .. Display
<1>1. tracked \in Entry
  BY DEF TrackerTypeOK, Entry
<1>2. /\ Later(tracked.age, Grace) \in 0 .. Grace /\ Sooner(tracked.hold) \in 0 .. Hold
      /\ Sooner(tracked.esc) \in 0 .. Display
  BY <1>1, EntryFields, TimesAssumption DEF Later, Sooner
<1>3. /\ tracked' \in Entry /\ tracked'.pid = tracked.pid
      /\ tracked'.status = tracked.status /\ tracked'.seenWorking = tracked.seenWorking
      /\ tracked # Untracked => tracked'.esc = Sooner(tracked.esc)
  <2>1. CASE tracked = Untracked
    BY <1>1, <2>1 DEF TimePasses
  <2>2. CASE tracked # Untracked
    BY <1>1, <1>2, <2>2 DEF TimePasses, Entry
  <2>3. QED
    BY <2>1, <2>2
<1>4. silence' \in 0 .. Window + 1 /\ lapse' \in 0 .. Display
  BY TimesAssumption DEF TimePasses, TrackerTypeOK, Later
<1>5. QED
  BY <1>3, <1>4

-----------------------------------------------------------------------------
(* Ticks *)

(* While nobody typed and the agent is not at it, an interruption is held    *)
(* until its time is over, and afterwards nothing that is tracked leads to a *)
(* tick.  An agent that replaces the tracked one starts from nothing.        *)
Held ==
  /\ tracked.pid = agent /\ tracked.status = "interrupted"
  /\ tracked.esc = Display - lapse /\ ~tracked.seenWorking

Quiet ==
  /\ ~AtIt
  /\ tracked.pid = agent =>
       tracked.status \in {"loading", "idle", "interrupted", "exited"} /\ ~tracked.seenWorking

TrackerInv ==
  /\ TrackerTypeOK
  /\ shown = View(tracked)
  /\ tracked.pid = Nobody => tracked = Untracked
  /\ tracked.status = "finished" => busy
  /\ ~busy /\ agent # Nobody => IF lapse < Display THEN Held ELSE Quiet

LEMMA TrackerTypes ==
  ASSUME TrackerTypeOK
  PROVE  /\ tracked \in Entry /\ lapse \in 0 .. Display /\ silence \in 0 .. Window + 1
         /\ busy \in BOOLEAN
BY DEF TrackerTypeOK, Entry

LEMMA ViewTyping ==
  ASSUME NEW t \in Entry
  PROVE  /\ View(t) \in [pid : Agents \cup {Nobody}, status : Statuses]
         /\ View(t).pid = t.pid /\ View(t).status = t.status
BY DEF View, Entry

(* A scan while the agent is not at it and nobody typed.                     *)
LEMMA QuietScan ==
  ASSUME NEW t \in Entry, ~AtIt, ~t.seenWorking,
         t.status \in {"loading", "idle", "interrupted"}
  PROVE  ~Judged(t).seenWorking /\ Judged(t).status \in {"loading", "idle", "interrupted"}
<1>1. Signal \notin {"blocked", "working"} /\ ~outputActive
  BY DEF AtIt, Signal
<1>2. /\ Turned(t, "idle").status = "idle" /\ ~Turned(t, "idle").seenWorking
      /\ Turned(t, "loading").status = "loading" /\ ~Turned(t, "loading").seenWorking
      /\ Stopped(t).status = "idle" /\ ~Stopped(t).seenWorking
  <2>1. "idle" \in Statuses /\ "loading" \in Statuses
    BY DEF Statuses
  <2>2. /\ Turned(t, "idle").status = "idle" /\ Turned(t, "idle").seenWorking = t.seenWorking
        /\ Turned(t, "loading").status = "loading" /\ Turned(t, "loading").seenWorking = t.seenWorking
        /\ Stopped(t).status = "idle" /\ Stopped(t).seenWorking = FALSE
    BY <2>1, TurnTyping
  <2>3. QED
    BY <2>2, Zenon
<1>3. OnIdle(t).status = "idle" /\ ~OnIdle(t).seenWorking
  <2>1. OnIdle(t) \in {Stopped(t), Turned(t, "idle")}
    BY OnIdleCases
  <2>2. QED
    BY <1>2, <2>1
<1>4. OnUnknown(t).status \in {"loading", "idle"} /\ ~OnUnknown(t).seenWorking
  <2>1. \/ t.status = "idle" /\ OnUnknown(t) = t
        \/ OnUnknown(t) \in {Stopped(t), Turned(t, "idle"), Turned(t, "loading")}
    BY <1>1, OnUnknownCases
  <2>2. QED
    BY <1>2, <2>1
<1>5. QED
  BY <1>1, <1>3, <1>4, JudgedCases

LEMMA ScanStep ==
  ASSUME TrackerInv, Refresh
  PROVE  TrackerInv'
<1>1. tracked \in Entry /\ lapse \in 0 .. Display
  BY TrackerTypes DEF TrackerInv
<1>2. UNCHANGED <<agent, marks, silence, lapse, busy>> /\ shown' = View(tracked')
  BY DEF Refresh, paneVars
<1>3. agent \in Agents \cup {Nobody} /\ (AtIt' <=> AtIt)
  BY <1>2 DEF AtIt, outputActive, TrackerInv, TrackerTypeOK
<1>4. SUFFICES /\ tracked' \in Entry
               /\ tracked'.pid = Nobody => tracked' = Untracked
               /\ tracked'.status = "finished" => busy
               /\ ~busy /\ agent # Nobody => (IF lapse < Display THEN Held ELSE Quiet)'
  BY <1>2, ViewTyping DEF TrackerInv, TrackerTypeOK, Entry
<1>5. CASE NoAgentSeen
  <2>1. CASE tracked = Untracked
    BY <1>5, <2>1, FreshTyping DEF NoAgentSeen
  <2>2. CASE tracked # Untracked
    BY <1>1, <1>5, <2>2, TurnTyping DEF NoAgentSeen, TrackerInv, Statuses
  <2>3. QED
    BY <2>1, <2>2
<1>6. CASE AgentSeen
  <2>1. agent \in Agents /\ agent # Nobody
    BY <1>3, <1>6 DEF AgentSeen
  <2>2. PICK t \in Entry : /\ tracked' = Judged(t) /\ t.pid = agent
                           /\ \/ t = tracked /\ tracked.status # "exited"
                              \/ t = Fresh(agent) /\ (tracked.pid # agent \/ tracked.status = "exited")
    <3>1. CASE tracked.pid = agent /\ tracked.status # "exited"
      BY <1>1, <1>6, <3>1 DEF AgentSeen
    <3>2. CASE ~(tracked.pid = agent /\ tracked.status # "exited")
      BY <1>6, <2>1, <3>2, FreshTyping DEF AgentSeen
    <3>3. QED
      BY <3>1, <3>2
  <2>3. tracked' \in Entry /\ tracked'.pid = agent
    BY <2>2, JudgedTyping
  <2>4. CASE busy
    BY <2>1, <2>3, <2>4
  <2>5. CASE ~busy /\ lapse < Display
    <3>1. Held
      BY <2>1, <2>5 DEF TrackerInv
    <3>2. t = tracked /\ tracked.esc > 0 /\ tracked.status = "interrupted"
      BY <1>1, <2>2, <2>5, <3>1, TimesAssumption DEF Held
    <3>3. tracked' = tracked
      BY <2>2, <3>2 DEF Judged, InterruptHeld
    <3>4. QED
      BY <1>2, <2>1, <2>3, <2>5, <3>1, <3>2, <3>3 DEF Held
  <2>6. CASE ~busy /\ ~(lapse < Display)
    <3>1. Quiet
      BY <2>1, <2>6 DEF TrackerInv
    <3>2. ~AtIt /\ ~t.seenWorking /\ t.status \in {"loading", "idle", "interrupted"}
      BY <2>1, <2>2, <3>1, FreshTyping DEF Quiet
    <3>3. ~tracked'.seenWorking /\ tracked'.status \in {"loading", "idle", "interrupted"}
      BY <2>2, <3>2, QuietScan
    <3>4. QED
      BY <1>2, <1>3, <2>1, <2>3, <2>6, <3>2, <3>3 DEF Quiet
  <2>7. QED
    BY <2>4, <2>5, <2>6
<1>7. QED
  BY <1>5, <1>6 DEF Refresh

(* Enter and Esc are noted for what is tracked as for what is shown.         *)
LEMMA KeyStep ==
  ASSUME TrackerInv, Enter \/ Esc
  PROVE  TrackerInv'
<1>1. tracked \in Entry /\ lapse \in 0 .. Display /\ shown = View(tracked)
  BY TrackerTypes DEF TrackerInv
<1>2. shown.pid = tracked.pid /\ shown.status = tracked.status
  BY <1>1, ViewTyping
<1>3. UNCHANGED <<agent, marks, silence>>
  BY DEF Enter, Esc, paneVars
<1>4. CASE Enter
  <2>1. /\ tracked' = Submitted(tracked) /\ busy' /\ lapse' = lapse
        /\ shown' = [shown EXCEPT !.status = "working"]
        /\ tracked.status # "none"
    BY <1>2, <1>4 DEF Enter
  <2>2. tracked' \in Entry /\ tracked'.pid = tracked.pid /\ tracked'.status = "working"
    BY <1>1, <2>1, MarkTyping
  <2>3. shown' = View(tracked')
    BY <1>1, <2>1, <2>2 DEF View
  <2>4. tracked.pid # Nobody
    BY <2>1, FreshTyping DEF TrackerInv
  <2>5. TrackerTypeOK'
    BY <1>3, <2>1, <2>2, <2>3, ViewTyping DEF TrackerInv, TrackerTypeOK, Entry
  <2>6. QED
    BY <2>1, <2>2, <2>3, <2>4, <2>5 DEF TrackerInv
<1>5. CASE Esc
  <2>1. /\ tracked' = Interrupted(tracked) /\ shown' = [shown EXCEPT !.status = "interrupted"]
        /\ tracked.status # "none"
        /\ \/ tracked.pid = agent /\ lapse' = 0 /\ busy' = FALSE
           \/ tracked.pid # agent /\ lapse' = lapse /\ busy' = busy
    BY <1>2, <1>5 DEF Esc
  <2>2. /\ tracked' \in Entry /\ tracked'.pid = tracked.pid /\ tracked'.status = "interrupted"
        /\ tracked'.esc = Display /\ tracked'.seenWorking = FALSE
    BY <1>1, <2>1, MarkTyping
  <2>3. shown' = View(tracked')
    BY <1>1, <2>1, <2>2 DEF View
  <2>4. tracked.pid # Nobody
    BY <2>1, FreshTyping DEF TrackerInv
  <2>5. TrackerTypeOK'
    <3>1. lapse' \in 0 .. Display /\ busy' \in BOOLEAN
      <4>1. 0 \in 0 .. Display /\ busy \in BOOLEAN
        BY TrackerTypes, TimesAssumption DEF TrackerInv
      <4>2. lapse' \in {0, lapse} /\ (busy' = FALSE \/ busy' = busy)
        BY <2>1
      <4>3. QED
        BY <1>1, <4>1, <4>2
    <3>2. QED
      BY <1>3, <2>2, <2>3, <3>1, ViewTyping DEF TrackerInv, TrackerTypeOK, Entry
  <2>6. ~busy' /\ agent' # Nobody => (IF lapse < Display THEN Held ELSE Quiet)'
    <3>1. CASE tracked.pid = agent /\ lapse' = 0
      BY <1>3, <2>2, <3>1, TimesAssumption DEF Held
    <3>2. CASE tracked.pid # agent /\ lapse' = lapse /\ busy' = busy
      BY <1>3, <2>2, <3>2 DEF TrackerInv, Held, Quiet, AtIt, outputActive
    <3>3. QED
      BY <2>1, <3>1, <3>2
  <2>7. QED
    BY <2>2, <2>3, <2>4, <2>5, <2>6 DEF TrackerInv
<1>6. QED
  BY <1>4, <1>5

(* The pane: whoever sees the agent at it when the interruption has been     *)
(* shown long enough knows that it is busy.                                  *)
LEMMA PaneStep ==
  ASSUME TrackerInv,
         ExitAgent \/ (\E a \in Agents : StartAgent(a))
           \/ \E new \in SUBSET {"blocked", "working", "idle"} : ScreenChanges(new)
  PROVE  TrackerInv'
<1>1. tracked \in Entry /\ lapse \in 0 .. Display /\ busy \in BOOLEAN
  BY TrackerTypes DEF TrackerInv
<1>2. CASE ExitAgent
  BY <1>2 DEF ExitAgent, TrackerInv, TrackerTypeOK
<1>3. ASSUME NEW a \in Agents, StartAgent(a)
      PROVE  TrackerInv'
  <2>1. /\ agent' = a /\ tracked.pid # a /\ lapse' = Display /\ UNCHANGED <<marks, silence, tracked, shown>>
        /\ busy' = (busy \/ AtIt')
    BY <1>3 DEF StartAgent, Watch
  <2>2. TrackerTypeOK'
    BY <1>1, <2>1, TimesAssumption DEF TrackerInv, TrackerTypeOK
  <2>3. ~busy' => Quiet'
    BY <2>1 DEF Quiet
  <2>4. QED
    BY <1>1, <2>1, <2>2, <2>3, TimesAssumption DEF TrackerInv
<1>4. ASSUME NEW new \in SUBSET {"blocked", "working", "idle"}, ScreenChanges(new)
      PROVE  TrackerInv'
  <2>1. /\ marks' = new /\ silence' = 0 /\ UNCHANGED <<agent, tracked, shown, lapse>>
        /\ busy' = (busy \/ (lapse = Display /\ AtIt'))
    BY <1>4 DEF ScreenChanges, Watch
  <2>2. TrackerTypeOK'
    BY <1>1, <2>1, TimesAssumption DEF TrackerInv, TrackerTypeOK
  <2>3. AtIt'
    BY <2>1, TimesAssumption DEF AtIt, outputActive
  <2>4. ~busy' => ~busy /\ lapse < Display
    <3>1. ~busy' => ~busy /\ lapse # Display
      BY <2>1, <2>3, Zenon
    <3>2. QED
      BY <1>1, <3>1, TimesAssumption
  <2>5. ~busy' /\ agent' # Nobody => lapse' < Display /\ Held'
    BY <2>1, <2>4 DEF TrackerInv, Held
  <2>6. QED
    BY <2>1, <2>2, <2>5 DEF TrackerInv
<1>5. QED
  BY <1>2, <1>3, <1>4

LEMMA TimeStep ==
  ASSUME TrackerInv, TimePasses
  PROVE  TrackerInv'
<1>1. tracked \in Entry /\ lapse \in 0 .. Display /\ busy \in BOOLEAN
  BY TrackerTypes DEF TrackerInv
<1>2. /\ UNCHANGED <<agent, marks, shown>> /\ lapse' = Later(lapse, Display)
      /\ busy' = (busy \/ (lapse' = Display /\ AtIt'))
  BY DEF TimePasses, Watch
<1>3. /\ tracked' \in Entry /\ tracked'.pid = tracked.pid
      /\ tracked'.status = tracked.status /\ tracked'.seenWorking = tracked.seenWorking
      /\ tracked # Untracked => tracked'.esc = Sooner(tracked.esc)
      /\ silence' \in 0 .. Window + 1 /\ lapse' \in 0 .. Display
  BY TimeTyping DEF TrackerInv
<1>4. TrackerTypeOK' /\ shown' = View(tracked')
  BY <1>1, <1>2, <1>3 DEF TrackerInv, TrackerTypeOK, Entry, View
<1>5. tracked'.pid = Nobody => tracked' = Untracked
  BY <1>3 DEF TrackerInv, TimePasses
<1>6. tracked'.status = "finished" => busy'
  BY <1>2, <1>3 DEF TrackerInv
<1>7. ASSUME ~busy', agent' # Nobody
      PROVE  (IF lapse < Display THEN Held ELSE Quiet)'
  <2>1. ~busy /\ agent # Nobody /\ (lapse' = Display => ~AtIt')
    BY <1>2, <1>7
  <2>2. CASE lapse < Display
    <3>1. Held /\ tracked # Untracked
      BY <2>1, <2>2, FreshTyping DEF TrackerInv, Held
    <3>2. lapse' = lapse + 1 /\ tracked'.esc = Display - lapse'
      BY <1>1, <1>2, <1>3, <2>2, <3>1, TimesAssumption DEF Held, Later, Sooner
    <3>3. CASE lapse' < Display
      BY <1>2, <1>3, <3>1, <3>2, <3>3 DEF Held
    <3>4. CASE ~(lapse' < Display)
      BY <1>2, <1>3, <2>1, <3>1, <3>4, TimesAssumption DEF Held, Quiet
    <3>5. QED
      BY <3>3, <3>4
  <2>3. CASE ~(lapse < Display)
    <3>1. Quiet /\ lapse' = Display
      BY <1>1, <1>2, <2>1, <2>3, TimesAssumption DEF TrackerInv, Later
    <3>2. QED
      BY <1>2, <1>3, <2>1, <3>1, TimesAssumption DEF Quiet
  <2>4. QED
    BY <2>2, <2>3
<1>8. QED
  BY <1>4, <1>5, <1>6, <1>7 DEF TrackerInv

LEMMA TrackerSteps ==
  /\ TrackerInit => TrackerInv
  /\ TrackerInv /\ [TrackerNext]_trackerVars => TrackerInv'
<1>1. ASSUME TrackerInit
      PROVE  TrackerInv
  <2>1. tracked = Untracked /\ tracked \in Entry
    BY <1>1, FreshTyping DEF TrackerInit
  <2>2. TrackerTypeOK
    <3>1. silence \in 0 .. Window + 1 /\ lapse \in 0 .. Display
      BY <1>1, TimesAssumption DEF TrackerInit
    <3>2. shown \in [pid : Agents \cup {Nobody}, status : Statuses]
      BY <1>1, <2>1, ViewTyping DEF TrackerInit
    <3>3. QED
      BY <1>1, <2>1, <3>1, <3>2 DEF TrackerInit, TrackerTypeOK, Entry
  <2>3. QED
    BY <1>1, <2>1, <2>2, FreshTyping DEF TrackerInit, TrackerInv
<1>2. ASSUME TrackerInv, UNCHANGED trackerVars
      PROVE  TrackerInv'
  BY <1>2 DEF trackerVars, paneVars, TrackerInv, TrackerTypeOK, Held, Quiet, AtIt, outputActive
<1>3. QED
  BY <1>1, <1>2, ScanStep, KeyStep, PaneStep, TimeStep DEF TrackerNext

(* Types of the pane and of what is known of its agent.                      *)
THEOREM TrackerTyping == TrackerSpec => []TrackerTypeOK
<1>1. TrackerInv => TrackerTypeOK
  BY DEF TrackerInv
<1>2. QED
  BY <1>1, TrackerSteps, PTL DEF TrackerSpec

(* An interrupted turn never gets a completion tick, however late the screen *)
(* follows (markAgentInterrupted, Refresh and MarkInterrupted in agent.go).  *)
THEOREM TickSafety == TrackerSpec => []TickEarned
<1>1. TrackerInv => TickEarned
  BY TrackerTypes, ViewTyping DEF TrackerInv, TickEarned
<1>2. QED
  BY <1>1, TrackerSteps, PTL DEF TrackerSpec

=============================================================================
