---------------------------- MODULE ProviderUsage ----------------------------
(***************************************************************************)
(* The weekly usage in the footer: the collector goroutine and the hidden  *)
(* Codex app-server it talks to (src/internal/usage/codex.go), the channel *)
(* of its events, the loop that applies them (src/internal/app/            *)
(* provider_usage.go), the cache in the database, and the status-line      *)
(* helpers of Claude, processes of their own, that write to that cache.    *)
(* A window is a number; older windows end before newer ones.              *)
(***************************************************************************)
EXTENDS UsageWindow

CONSTANTS
  EventRoom,    \* capacity of the channel of events
  WireRoom,     \* messages of the app-server that are not read yet
  MaxWindow,    \* bound: windows the Codex account goes through
  MaxClock,     \* bound: runs of status-line helpers, one at each instant
  HelperWindows \* windows that Claude sessions report

ASSUME RoomAssumption == EventRoom \in Nat \ {0} /\ WireRoom \in Nat \ {0}
ASSUME BoundAssumption == MaxWindow \in Nat \ {0} /\ MaxClock \in Nat \ {0}
ASSUME HelperAssumption == HelperWindows \subseteq 1..MaxWindow

VARIABLES
  loop,       \* the runtime: up, closing (it left its select), or down
  memory,     \* Model.providerUsage
  cache,      \* the table provider_usage
  events,     \* the channel of events
  collector,  \* begin, greeting, serving, resting or over
  offer,      \* the event emit is busy with
  emitting,   \* the next step of emit: send, drop or again
  pending,    \* pendingID is not zero
  server,     \* the app-server runs
  asked,      \* what it was asked: initialize, read, or nothing
  wire,       \* its messages that were not read
  account,    \* the weekly window of the Codex account, 0 if it has none
  ended,      \* windows up to this one have been reset
  helpers,    \* what status-line helpers have parsed and not written
  clock       \* the time, as far as status lines tell it

collectorVars == <<collector, pending>>
emitVars == <<events, offer, emitting>>
serverVars == <<server, asked, wire>>
worldVars == <<account, ended, clock>>
cacheVars == <<memory, cache>>
vars == <<loop, cacheVars, collectorVars, emitVars, serverVars, worldVars, helpers>>

Providers == {"codex", "claude"}

(* Another window than the weekly one of the account.                      *)
Other == MaxWindow + 1

Values == [window : 1..Other, at : 0..MaxClock]
NoValue == [window |-> 0, at |-> 0]

(* An error is an event without a value.                                   *)
Events == Values \cup {NoValue}
NoEvent == [window |-> 0, at |-> MaxClock + 1]

(* What the account's weekly window comes with in an answer: a shorter     *)
(* window, a longer one, or one without a percentage, in the snapshot named*)
(* codex, with or without an unnamed one; or in the unnamed one only.      *)
NoSnapshot == [primary |-> Absent, secondary |-> Absent]

AnswersFor(week) ==
  LET besides == {Window(Other, FiveHours), Window(Other, Month), Window(0, Week)}
  IN  {[codex |-> [primary |-> w, secondary |-> week], others |-> <<>>,
        unnamed |-> [primary |-> Absent, secondary |-> v]] :
          w \in besides, v \in {Absent, Window(Other, Week)}}
      \cup {[codex |-> NoSnapshot, others |-> <<>>,
             unnamed |-> [primary |-> week, secondary |-> w]] : w \in besides}

(* An answer stands for any of those for the window it was given for.      *)
Message(kind) == [kind |-> kind, window |-> 0]
Messages == {Message(kind) : kind \in {"ready", "updated", "refused"}}
              \cup [kind : {"answer"}, window : 0..MaxWindow]

(* providerUsageIsCurrent                                                  *)
Current(v) == v # NoValue /\ v.window > ended

(* What RefreshProviderUsage makes of the cache.                           *)
Loaded == [p \in Providers |-> IF Current(cache[p]) THEN cache[p] ELSE NoValue]

cancelled == loop = "closing"

Init ==
  /\ loop = "up"
  /\ memory = [p \in Providers |-> NoValue] /\ cache = memory
  /\ collector = "begin" /\ pending = FALSE
  /\ events = <<>> /\ offer = NoEvent /\ emitting = "send"
  /\ server = FALSE /\ asked = "nothing" /\ wire = <<>>
  /\ account \in {0, 1} /\ ended = 0 /\ clock = 0
  /\ helpers = {}

-----------------------------------------------------------------------------
(* emit                                                                    *)
Idle == loop # "down" /\ offer = NoEvent

(* A plausible slip: off by one.                                           *)
RoomForOneMore == Len(events) <= EventRoom

Room == Len(events) < EventRoom

Offer(e) == offer' = e /\ emitting' = "send" /\ UNCHANGED events

(* A plausible slip: a full channel is waited for.                         *)
EmitBlocking ==
  /\ offer # NoEvent /\ emitting = "send" /\ Room
  /\ events' = Append(events, offer) /\ offer' = NoEvent
  /\ UNCHANGED <<emitting, loop, cacheVars, collectorVars, serverVars, worldVars, helpers>>

EmitSend ==
  /\ offer # NoEvent /\ emitting = "send"
  /\ IF Room THEN events' = Append(events, offer) /\ offer' = NoEvent /\ UNCHANGED emitting
             ELSE emitting' = "drop" /\ UNCHANGED <<events, offer>>
  /\ UNCHANGED <<loop, cacheVars, collectorVars, serverVars, worldVars, helpers>>

(* A plausible slip: an event that does not fit is forgotten.              *)
EmitDropNew ==
  /\ offer # NoEvent /\ emitting = "drop"
  /\ offer' = NoEvent /\ emitting' = "send"
  /\ UNCHANGED <<events, loop, cacheVars, collectorVars, serverVars, worldVars, helpers>>

(* The oldest event makes room, unless the loop just took them all.        *)
EmitDrop ==
  /\ offer # NoEvent /\ emitting = "drop"
  /\ events' = IF events = <<>> THEN events ELSE Tail(events)
  /\ emitting' = "again"
  /\ UNCHANGED <<offer, loop, cacheVars, collectorVars, serverVars, worldVars, helpers>>

EmitAgain ==
  /\ offer # NoEvent /\ emitting = "again"
  /\ events' = IF Room THEN Append(events, offer) ELSE events
  /\ offer' = NoEvent /\ emitting' = "send"
  /\ UNCHANGED <<loop, cacheVars, collectorVars, serverVars, worldVars, helpers>>

-----------------------------------------------------------------------------
(* The collector: an attempt ends with its app-server, and with an error   *)
(* event unless the collector is being closed.                             *)
EndAttempt ==
  /\ server' = FALSE /\ asked' = "nothing" /\ wire' = <<>> /\ pending' = FALSE
  /\ IF cancelled THEN collector' = "over" /\ UNCHANGED emitVars
                  ELSE collector' = "resting" /\ Offer(NoValue)

(* The first request is written; or Codex is not there or does not start.  *)
Begin ==
  /\ Idle /\ collector = "begin"
  /\ \/ /\ ~cancelled
        /\ server' = TRUE /\ asked' = "initialize" /\ collector' = "greeting"
        /\ UNCHANGED <<wire, pending, emitVars>>
     \/ EndAttempt
  /\ UNCHANGED <<loop, cacheVars, worldVars, helpers>>

(* The context is cancelled, the app-server ended, or its output did.      *)
Interrupted ==
  /\ Idle /\ collector \in {"greeting", "serving"}
  /\ cancelled \/ ~server
  /\ EndAttempt
  /\ UNCHANGED <<loop, cacheVars, worldVars, helpers>>

Request ==
  IF pending THEN UNCHANGED <<pending, asked>> ELSE pending' = TRUE /\ asked' = "read"

(* The next message is taken from the channel reads.                       *)
Read(kinds) ==
  /\ Idle /\ wire # <<>> /\ Head(wire).kind \in kinds
  /\ wire' = Tail(wire)
  /\ UNCHANGED <<loop, cacheVars, server, worldVars, helpers>>

Greeted ==
  /\ collector = "greeting" /\ Read({"ready"})
  /\ collector' = "serving"
  /\ Request
  /\ UNCHANGED emitVars

(* Before it is ready the app-server is not listened to.                   *)
Ignored ==
  /\ collector = "greeting" /\ Read({"updated"})
  /\ UNCHANGED <<collectorVars, asked, emitVars>>

Poll ==
  /\ Idle /\ collector = "serving" /\ ~pending
  /\ Request
  /\ UNCHANGED <<loop, cacheVars, collector, emitVars, server, wire, worldVars, helpers>>

Notified ==
  /\ collector = "serving" /\ Read({"updated"})
  /\ Request
  /\ UNCHANGED <<collector, emitVars>>

(* parseCodexRateLimits: without a percentage there is nothing to publish. *)
Publish(w) ==
  IF w.used = 0 THEN UNCHANGED emitVars ELSE Offer([window |-> w.used, at |-> clock])

(* A plausible slip: the request stays the pending one.                    *)
AnsweredOnce ==
  /\ collector = "serving" /\ Read({"answer"})
  /\ \E answer \in AnswersFor(Window(Head(wire).window, Week)) :
       Publish(selectCodexWeeklyWindow(answer))
  /\ UNCHANGED <<pending, collector, asked>>

Answered ==
  /\ collector = "serving" /\ Read({"answer"})
  /\ pending' = FALSE
  /\ \E answer \in AnswersFor(Window(Head(wire).window, Week)) :
       Publish(selectCodexWeeklyWindow(answer))
  /\ UNCHANGED <<collector, asked>>

(* An error, or an answer that makes no sense, ends the attempt.           *)
Refused ==
  /\ Idle /\ collector \in {"greeting", "serving"}
  /\ wire # <<>> /\ Head(wire).kind = "refused"
  /\ EndAttempt
  /\ UNCHANGED <<loop, cacheVars, worldVars, helpers>>

(* Half a minute later, or when the collector is closed.                   *)
Rested ==
  /\ Idle /\ collector = "resting"
  /\ collector' = IF cancelled THEN "over" ELSE "begin"
  /\ UNCHANGED <<loop, cacheVars, pending, emitVars, serverVars, worldVars, helpers>>

-----------------------------------------------------------------------------
(* The app-server                                                          *)
Say(m) == Len(wire) < WireRoom /\ wire' = Append(wire, m)

Answers ==
  /\ server /\ asked # "nothing"
  /\ asked' = "nothing"
  /\ Say(IF asked = "initialize" THEN Message("ready") ELSE [kind |-> "answer", window |-> account])
  /\ UNCHANGED <<loop, cacheVars, collectorVars, emitVars, server, worldVars, helpers>>

Refuses ==
  /\ server /\ asked # "nothing"
  /\ asked' = "nothing"
  /\ Say(Message("refused"))
  /\ UNCHANGED <<loop, cacheVars, collectorVars, emitVars, server, worldVars, helpers>>

(* It may tell of a change, which nothing relies on.                       *)
Notifies ==
  /\ server
  /\ Say(Message("updated"))
  /\ UNCHANGED <<loop, cacheVars, collectorVars, emitVars, server, asked, worldVars, helpers>>

(* What it wrote last may or may not be read yet.                          *)
ServerEnds ==
  /\ server
  /\ server' = FALSE /\ asked' = "nothing"
  /\ UNCHANGED <<loop, cacheVars, collectorVars, emitVars, wire, worldVars, helpers>>

-----------------------------------------------------------------------------
(* A plausible slip: whoever writes last wins.                             *)
UpsertUnordered(p, v) == cache' = [cache EXCEPT ![p] = v]

(* Store.UpsertProviderUsage, one statement: the newer stamp wins.         *)
UpsertProviderUsage(p, v) ==
  cache' = [cache EXCEPT ![p] = IF v.at >= @.at THEN v ELSE @]

(* The loop takes an event: an error is logged, a value applied.           *)
TakeEvent ==
  /\ loop = "up" /\ events # <<>>
  /\ events' = Tail(events)
  /\ UNCHANGED <<loop, collectorVars, offer, emitting, serverVars, worldVars, helpers>>

TakeError == TakeEvent /\ Head(events) = NoValue /\ UNCHANGED cacheVars

ApplyProviderUsage ==
  /\ TakeEvent /\ Head(events) # NoValue
  /\ UpsertProviderUsage("codex", Head(events))
  /\ memory' = [memory EXCEPT !["codex"] = Head(events)]

(* The database does not take it: the value is dropped.                    *)
ApplyFails == TakeEvent /\ Head(events) # NoValue /\ UNCHANGED cacheVars

(* Once a second.                                                          *)
RefreshProviderUsage ==
  /\ loop = "up"
  /\ memory' = Loaded
  /\ UNCHANGED <<loop, cache, collectorVars, emitVars, serverVars, worldVars, helpers>>

(* The runtime leaves its loop; CodexMonitor.Close waits for the collector.*)
Stop ==
  /\ loop = "up"
  /\ loop' = "closing"
  /\ UNCHANGED <<cacheVars, collectorVars, emitVars, serverVars, worldVars, helpers>>

Gone ==
  /\ loop' = "down"
  /\ memory' = [p \in Providers |-> NoValue]
  /\ collector' = "over" /\ pending' = FALSE
  /\ events' = <<>> /\ offer' = NoEvent /\ emitting' = "send"
  /\ server' = FALSE /\ asked' = "nothing" /\ wire' = <<>>
  /\ UNCHANGED <<cache, worldVars, helpers>>

Closed == loop = "closing" /\ collector = "over" /\ Gone

Crash == loop \in {"up", "closing"} /\ Gone

(* The next runtime: Open reads the cache before the collector starts.     *)
Open ==
  /\ loop = "down"
  /\ loop' = "up" /\ memory' = Loaded /\ collector' = "begin"
  /\ UNCHANGED <<cache, pending, emitVars, serverVars, worldVars, helpers>>

-----------------------------------------------------------------------------
(* The status-line helper of one of the Claude sessions, which may be      *)
(* behind the others, reads its input; then it opens the database.         *)
HelperReads ==
  /\ clock < MaxClock
  /\ clock' = clock + 1
  /\ \E w \in HelperWindows : helpers' = helpers \cup {[window |-> w, at |-> clock']}
  /\ UNCHANGED <<loop, cacheVars, collectorVars, emitVars, serverVars, account, ended>>

HelperWrites ==
  /\ \E v \in helpers : helpers' = helpers \ {v} /\ UpsertProviderUsage("claude", v)
  /\ UNCHANGED <<loop, memory, collectorVars, emitVars, serverVars, worldVars>>

HelperFails ==
  /\ \E v \in helpers : helpers' = helpers \ {v}
  /\ UNCHANGED <<loop, cacheVars, collectorVars, emitVars, serverVars, worldVars>>

(* The account is used or subscribes, its window is reset.                 *)
AccountMoves ==
  /\ account < MaxWindow
  /\ account' = account + 1
  /\ UNCHANGED <<loop, cacheVars, collectorVars, emitVars, serverVars, ended, clock, helpers>>

WindowEnds ==
  /\ ended < account
  /\ ended' = ended + 1
  /\ UNCHANGED <<loop, cacheVars, collectorVars, emitVars, serverVars, account, clock, helpers>>

-----------------------------------------------------------------------------
Emit == EmitSend \/ EmitDrop \/ EmitAgain
Collect == Begin \/ Interrupted \/ Greeted \/ Ignored \/ Poll \/ Notified \/ Answered \/ Refused
Server == Answers \/ Refuses \/ Notifies \/ ServerEnds
Loop == TakeError \/ ApplyProviderUsage \/ ApplyFails \/ RefreshProviderUsage
Helper == HelperReads \/ HelperWrites \/ HelperFails
World == AccountMoves \/ WindowEnds

Next ==
  \/ Emit \/ Collect \/ Rested \/ Server \/ Loop \/ Helper \/ World
  \/ Stop \/ Closed \/ Crash \/ Open

Spec == Init /\ [][Next]_vars

(* The goroutine of the collector goes on running and its timers fire; a   *)
(* cancelled context is noticed, since select takes one of the ready cases *)
(* at random; the app-server answers in the end what it was asked, however *)
(* often it says something else, and the database takes a value some time. *)
(* Nobody has to stop, crash, open, notify or use the account.             *)
Fairness ==
  /\ WF_vars(Emit \/ Begin \/ Rested \/ Closed)
  /\ WF_vars(Greeted \/ Ignored \/ Notified \/ Answered \/ Refused)
  /\ WF_vars(Poll)
  /\ SF_vars(Interrupted)
  /\ SF_vars(Answers)
  /\ SF_vars(ApplyProviderUsage)

FairSpec == Spec /\ Fairness

-----------------------------------------------------------------------------
(* Types; the channels hold no more than they have room for.               *)
TypeOK ==
  /\ loop \in {"up", "closing", "down"}
  /\ memory \in [Providers -> Values \cup {NoValue}]
  /\ cache \in [Providers -> Values \cup {NoValue}]
  /\ events \in Seq(Events) /\ Len(events) <= EventRoom
  /\ collector \in {"begin", "greeting", "serving", "resting", "over"}
  /\ offer \in Events \cup {NoEvent}
  /\ emitting \in {"send", "drop", "again"}
  /\ pending \in BOOLEAN
  /\ server \in BOOLEAN
  /\ asked \in {"initialize", "read", "nothing"}
  /\ wire \in Seq(Messages) /\ Len(wire) <= WireRoom
  /\ account \in 0..MaxWindow /\ ended \in 0..MaxWindow /\ clock \in 0..MaxClock
  /\ helpers \subseteq Values

(* However slow the loop is, what emit drops is an older event: the one it *)
(* was called with is the last in the channel when it returns.  The second *)
(* select of emit takes an event away and the loop may take them all, so   *)
(* its third one always finds room.                                        *)
NewestEventKept ==
  [][offer # NoEvent /\ offer' = NoEvent /\ loop' # "down"
       => events' # <<>> /\ events'[Len(events')] = offer]_vars

(* README.md:62, "the last valid window appears immediately after a split  *)
(* restart": whenever the runtime ends, the cache has the window of Codex  *)
(* that the footer shows, and of Claude that one or one observed later,    *)
(* although helpers write out of order and the cache may refuse a write.   *)
ShownIsCached ==
  /\ memory["codex"] \in {NoValue, cache["codex"]}
  /\ memory["claude"].at <= cache["claude"].at

(* The footer comes to show the window of the account as long as the       *)
(* app-server lives, whatever notifications come while a request is under  *)
(* way and however many events were dropped or not saved.                  *)
CodexComesThrough ==
  <>[](loop = "up" /\ server /\ account > ended)
    => <>[](memory["codex"].window = account)

(* Close does not wait for ever for the collector, which nobody listens to *)
(* any more: it is not stuck in emit, in a timer or with its app-server.   *)
CloseReturns == loop = "closing" ~> loop = "down"

=============================================================================
