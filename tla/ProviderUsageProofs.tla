------------------------- MODULE ProviderUsageProofs -------------------------
(***************************************************************************)
(* What holds of the weekly usage for channels of any size and any number  *)
(* of windows, status lines and instants, whichever window an answer is    *)
(* read to bring.                                                          *)
(***************************************************************************)
EXTENDS ProviderUsage, NaturalsInduction, WellFoundedInduction, TLAPS

-----------------------------------------------------------------------------
(* The channel is a sequence of whatever was offered, never too long, and  *)
(* once emit has taken an event out there is room until it sends.          *)
ChannelInv ==
  /\ \E S : events \in Seq(S)
  /\ Len(events) <= EventRoom
  /\ offer # NoEvent /\ emitting = "again" => Room

(* One element more at the end, one less at the front.                     *)
LEMMA Appended ==
  ASSUME NEW S, NEW s \in Seq(S), NEW e
  PROVE  /\ Append(s, e) \in Seq(S \cup {e})
         /\ Len(Append(s, e)) = Len(s) + 1
         /\ Append(s, e)[Len(s) + 1] = e
         /\ \A i \in 1..Len(s) : Append(s, e)[i] = s[i]
<1>1. s \in Seq(S \cup {e})
  OBVIOUS
<1> QED
  BY <1>1

LEMMA Shortened ==
  ASSUME NEW S, NEW s \in Seq(S), s # <<>>
  PROVE  /\ Tail(s) \in Seq(S)
         /\ Len(s) \in Nat \ {0} /\ Len(Tail(s)) = Len(s) - 1
         /\ Head(s) = s[1]
         /\ \A i \in 1..Len(Tail(s)) : i + 1 \in 1..Len(s) /\ Tail(s)[i] = s[i + 1]
OBVIOUS

(* Steps that do not touch the channel, the cache or the time, but may     *)
(* begin to emit an event.                                                 *)
Offers ==
  /\ offer = NoEvent
  /\ \/ UNCHANGED <<offer, emitting, events>>
     \/ emitting' = "send" /\ UNCHANGED events
        /\ (offer' = NoValue \/ offer'.at = clock)
  /\ UNCHANGED <<cacheVars, clock, helpers>>

LEMMA CollectOffers ==
  ASSUME Collect \/ Rested
  PROVE  Offers
<1> USE DEF Offers, Idle, emitVars, collectorVars, worldVars, serverVars, Offer
<1>1. CASE Begin
  BY <1>1 DEF Begin, EndAttempt
<1>2. CASE Interrupted
  BY <1>2 DEF Interrupted, EndAttempt
<1>3. CASE Greeted
  BY <1>3 DEF Greeted, Read
<1>4. CASE Ignored
  BY <1>4 DEF Ignored, Read
<1>5. CASE Poll
  BY <1>5 DEF Poll
<1>6. CASE Notified
  BY <1>6 DEF Notified, Read
<1>7. ASSUME NEW w, Publish(w), offer = NoEvent, UNCHANGED <<cacheVars, clock, helpers>>
      PROVE  Offers
  BY <1>7 DEF Publish
<1>8. CASE Answered
  BY <1>7, <1>8 DEF Answered, Read
<1>9. CASE Refused
  BY <1>9 DEF Refused, EndAttempt
<1>10. CASE Rested
  BY <1>10 DEF Rested
<1> QED
  BY <1>1, <1>2, <1>3, <1>4, <1>5, <1>6, <1>8, <1>9, <1>10 DEF Collect

-----------------------------------------------------------------------------
(* How each kind of step moves the channel.                                *)
Quiet == UNCHANGED <<events, offer, emitting>>

Emptied == events' = <<>> /\ offer' = NoEvent /\ emitting' = "send"

LEMMA Steps ==
  ASSUME [Next]_vars
  PROVE  Emit \/ Offers \/ TakeEvent \/ Gone \/ Quiet
<1>1. CASE Collect \/ Rested
  BY <1>1, CollectOffers
<1>2. CASE Server
  BY <1>2 DEF Server, Answers, Refuses, Notifies, ServerEnds, Quiet, emitVars
<1>3. CASE Loop
  BY <1>3 DEF Loop, TakeError, ApplyProviderUsage, ApplyFails, RefreshProviderUsage, Quiet, emitVars
<1>4. CASE Helper \/ World
  BY <1>4 DEF Helper, HelperReads, HelperWrites, HelperFails, World, AccountMoves, WindowEnds,
              Quiet, emitVars
<1>5. CASE Stop \/ Open
  BY <1>5 DEF Stop, Open, Quiet, emitVars
<1>6. CASE Closed \/ Crash
  BY <1>6 DEF Closed, Crash
<1>7. CASE UNCHANGED vars
  BY <1>7 DEF vars, emitVars, Quiet
<1> QED
  BY <1>1, <1>2, <1>3, <1>4, <1>5, <1>6, <1>7 DEF Next

LEMMA ChannelStep ==
  ASSUME ChannelInv, [Next]_vars
  PROVE  ChannelInv'
<1> USE RoomAssumption
<1>0. PICK S : events \in Seq(S)
  BY DEF ChannelInv
<1>1. CASE EmitSend
  <2>1. CASE Room
    <3>1. events' = Append(events, offer) /\ offer' = NoEvent
      BY <1>1, <2>1 DEF EmitSend
    <3>2. events' \in Seq(S \cup {offer}) /\ Len(events') = Len(events) + 1
      BY <1>0, <3>1, Appended
    <3> QED
      BY <1>0, <2>1, <3>1, <3>2 DEF ChannelInv, Room
  <2>2. CASE ~Room
    BY <1>1, <2>2 DEF EmitSend, ChannelInv, Room
  <2> QED
    BY <2>1, <2>2
<1>2. CASE EmitDrop
  <2>1. CASE events = <<>>
    <3>1. events' \in Seq(S) /\ Len(events') = 0
      BY <1>0, <1>2, <2>1 DEF EmitDrop
    <3> QED
      BY <3>1 DEF ChannelInv, Room
  <2>2. CASE events # <<>>
    <3>1. events' = Tail(events)
      BY <1>2, <2>2 DEF EmitDrop
    <3>2. events' \in Seq(S) /\ Len(events) \in Nat \ {0} /\ Len(events') = Len(events) - 1
      BY <1>0, <2>2, <3>1, Shortened
    <3> QED
      BY <3>2 DEF ChannelInv, Room
  <2> QED
    BY <2>1, <2>2
<1>3. CASE EmitAgain
  <2>1. Room /\ events' = Append(events, offer) /\ offer' = NoEvent
    BY <1>3 DEF EmitAgain, ChannelInv
  <2>2. events' \in Seq(S \cup {offer}) /\ Len(events') = Len(events) + 1
    BY <1>0, <2>1, Appended
  <2> QED
    BY <1>0, <2>1, <2>2 DEF ChannelInv, Room
<1>4. CASE Offers
  BY <1>4 DEF Offers, ChannelInv, Room
<1>5. CASE TakeEvent
  <2>1. events # <<>> /\ events' = Tail(events) /\ UNCHANGED <<offer, emitting>>
    BY <1>5 DEF TakeEvent
  <2>2. events' \in Seq(S) /\ Len(events) \in Nat \ {0} /\ Len(events') = Len(events) - 1
    BY <1>0, <2>1, Shortened
  <2> QED
    BY <2>1, <2>2 DEF ChannelInv, Room
<1>6. CASE Gone
  <2>1. events' = <<>> /\ offer' = NoEvent
    BY <1>6 DEF Gone
  <2>2. events' \in Seq(S) /\ Len(events') = 0
    BY <2>1
  <2> QED
    BY <2>1, <2>2 DEF ChannelInv
<1>7. CASE Quiet
  BY <1>7 DEF Quiet, ChannelInv, Room
<1> QED
  BY Steps, <1>1, <1>2, <1>3, <1>4, <1>5, <1>6, <1>7 DEF Emit

LEMMA ChannelInvariance == Spec => []ChannelInv
<1>1. Init => ChannelInv
  <2>1. ASSUME Init PROVE events \in Seq({}) /\ Len(events) = 0 /\ offer = NoEvent
    BY <2>1 DEF Init
  <2> QED
    BY <2>1, RoomAssumption DEF ChannelInv
<1>2. ChannelInv /\ [Next]_vars => ChannelInv'
  BY ChannelStep
<1> QED
  BY <1>1, <1>2, PTL DEF Spec

(* What emit was called with is the last in the channel when it returns.   *)
LEMMA NewestStep ==
  ASSUME ChannelInv, [Next]_vars, offer # NoEvent, offer' = NoEvent, loop' # "down"
  PROVE  events' # <<>> /\ events'[Len(events')] = offer
<1>0. PICK S : events \in Seq(S)
  BY DEF ChannelInv
<1>1. events' = Append(events, offer)
  <2>1. CASE EmitSend
    BY <2>1 DEF EmitSend
  <2>2. CASE EmitDrop
    BY <2>2 DEF EmitDrop
  <2>3. CASE EmitAgain
    BY <2>3 DEF EmitAgain, ChannelInv
  <2>4. CASE Offers \/ TakeEvent \/ Gone \/ Quiet
    BY <2>4 DEF Offers, TakeEvent, Gone, Quiet
  <2> QED
    BY Steps, <2>1, <2>2, <2>3, <2>4 DEF Emit
<1>2. events' \in Seq(S \cup {offer}) /\ Len(events') = Len(events) + 1
      /\ events'[Len(events) + 1] = offer
  BY <1>0, <1>1, Appended
<1>3. Len(events) \in Nat
  BY <1>0
<1> QED
  BY <1>2, <1>3

(* However full the channel is and whatever the loop takes out of it       *)
(* between two steps of emit, the newest event is in it (emit, codex.go).  *)
THEOREM NewestKept == Spec => NewestEventKept
<1>1. ChannelInv /\ [Next]_vars =>
        [offer # NoEvent /\ offer' = NoEvent /\ loop' # "down"
           => events' # <<>> /\ events'[Len(events')] = offer]_vars
  BY NewestStep
<1> QED
  BY <1>1, ChannelInvariance, PTL DEF Spec, NewestEventKept

-----------------------------------------------------------------------------
(* Observations of Codex are stamped when they are offered: what is cached *)
(* is no newer than what is in the channel, the channel is in order, and   *)
(* what emit is busy with is no older than either.                         *)
Stamped(v) == v.at \in Nat

StampsOK ==
  /\ clock \in Nat /\ clock <= MaxClock
  /\ cache = [p \in Providers |-> cache[p]] /\ \A p \in Providers : Stamped(cache[p])
  /\ memory = [p \in Providers |-> memory[p]] /\ \A p \in Providers : Stamped(memory[p])
  /\ \A v \in helpers : Stamped(v)
  /\ cache["codex"].at <= clock

Observed(v) == v # NoValue

ChannelInOrder ==
  /\ \A i \in 1..Len(events) : Observed(events[i]) =>
       /\ Stamped(events[i])
       /\ cache["codex"].at <= events[i].at /\ events[i].at <= clock
  /\ \A i, j \in 1..Len(events) : i < j /\ Observed(events[i]) /\ Observed(events[j])
       => events[i].at <= events[j].at

OfferIsNewest ==
  offer # NoEvent /\ Observed(offer) =>
    /\ Stamped(offer)
    /\ cache["codex"].at <= offer.at /\ offer.at <= clock
    /\ \A i \in 1..Len(events) : Observed(events[i]) => events[i].at <= offer.at

OrderInv == StampsOK /\ ChannelInOrder /\ OfferIsNewest /\ ShownIsCached

LEMMA StampsOf == NoValue.at = 0 /\ NoValue # NoEvent /\ "codex" \in Providers /\ "claude" \in Providers
BY BoundAssumption DEF NoValue, NoEvent, Providers

(* A value that is written to the cache.                                   *)
LEMMA Cached ==
  ASSUME StampsOK, NEW p \in Providers, NEW v, Stamped(v), UpsertProviderUsage(p, v)
  PROVE  /\ cache' = [q \in Providers |-> cache'[q]]
         /\ \A q \in Providers : Stamped(cache'[q]) /\ cache[q].at <= cache'[q].at
         /\ \A q \in Providers \ {p} : cache'[q] = cache[q]
         /\ v.at >= cache[p].at => cache'[p] = v
         /\ cache'[p] \in {v, cache[p]}
<1>1. cache' = [cache EXCEPT ![p] = IF v.at >= cache[p].at THEN v ELSE cache[p]]
  BY DEF UpsertProviderUsage
<1>2. cache' = [q \in Providers |-> IF q = p THEN IF v.at >= cache[p].at THEN v ELSE cache[p]
                                             ELSE cache[q]]
  BY <1>1 DEF StampsOK
<1>3. \A q \in Providers : cache[q].at \in Nat
  BY DEF StampsOK, Stamped
<1> HIDE DEF UpsertProviderUsage
<1> QED
  BY <1>2, <1>3 DEF Stamped

(* Steps that leave the cache, memory, helpers and clock alone.            *)
Still == UNCHANGED <<cache, memory, helpers, clock>>

LEMMA StillStamps ==
  ASSUME OrderInv, Still
  PROVE  StampsOK' /\ ShownIsCached'
BY DEF OrderInv, Still, StampsOK, ShownIsCached, Stamped

(* The oldest event leaves the channel.                                    *)
LEMMA OrderShorter ==
  ASSUME ChannelInv, OrderInv, events # <<>>, events' = Tail(events), cache'["codex"] = cache["codex"],
         clock' = clock, offer' = offer
  PROVE  ChannelInOrder' /\ OfferIsNewest'
<1>0. PICK S : events \in Seq(S)
  BY DEF ChannelInv
<1>1. /\ Len(events) \in Nat \ {0} /\ Len(events') = Len(events) - 1
      /\ \A i \in 1..Len(events') : i + 1 \in 1..Len(events) /\ events'[i] = events[i + 1]
  BY <1>0, Shortened
<1>2. \A i, j \in 1..Len(events') : i < j => i + 1 < j + 1
  BY <1>1
<1>3. ChannelInOrder'
  BY <1>1, <1>2 DEF OrderInv, ChannelInOrder, Stamped, Observed
<1>4. OfferIsNewest'
  BY <1>1 DEF OrderInv, OfferIsNewest, Stamped, Observed
<1> QED
  BY <1>3, <1>4

(* What was offered enters the channel.                                    *)
LEMMA OrderLonger ==
  ASSUME ChannelInv, OrderInv, offer # NoEvent, events' = Append(events, offer), offer' = NoEvent, Still
  PROVE  ChannelInOrder' /\ OfferIsNewest'
<1>0. PICK S : events \in Seq(S)
  BY DEF ChannelInv
<1>1. /\ Len(events) \in Nat /\ Len(events') = Len(events) + 1
      /\ events'[Len(events) + 1] = offer
      /\ \A i \in 1..Len(events) : events'[i] = events[i]
  BY <1>0, Appended
<1>2. \A i \in 1..Len(events') : i \in 1..Len(events) \/ i = Len(events) + 1
  BY <1>1
<1>3. \A i \in 1..Len(events') : Observed(events'[i]) =>
        Stamped(events'[i]) /\ cache["codex"].at <= events'[i].at /\ events'[i].at <= clock
  BY <1>1, <1>2 DEF OrderInv, ChannelInOrder, OfferIsNewest
<1>4. ASSUME NEW i \in 1..Len(events'), NEW j \in 1..Len(events'), i < j,
             Observed(events'[i]), Observed(events'[j])
      PROVE  events'[i].at <= events'[j].at
  <2>1. i \in 1..Len(events)
    BY <1>1, <1>4
  <2>2. CASE j \in 1..Len(events)
    BY <1>1, <1>4, <2>1, <2>2 DEF OrderInv, ChannelInOrder
  <2>3. CASE j = Len(events) + 1
    BY <1>1, <1>4, <2>1, <2>3 DEF OrderInv, OfferIsNewest
  <2> QED
    BY <1>2, <2>2, <2>3
<1>5. ChannelInOrder'
  BY <1>3, <1>4 DEF ChannelInOrder, Still, Observed, Stamped
<1> QED
  BY <1>5 DEF OfferIsNewest

LEMMA OrderEmit ==
  ASSUME ChannelInv, OrderInv, Emit
  PROVE  OrderInv'
<1>1. Still /\ offer # NoEvent
  BY DEF Emit, EmitSend, EmitDrop, EmitAgain, Still, cacheVars, worldVars
<1>2. CASE events' = Append(events, offer) /\ offer' = NoEvent
  BY <1>1, <1>2, StillStamps, OrderLonger DEF OrderInv
<1>3. CASE events # <<>> /\ events' = Tail(events) /\ UNCHANGED offer
  BY <1>1, <1>3, StillStamps, OrderShorter DEF OrderInv, Still
<1>4. CASE UNCHANGED <<events, offer>>
  <2>1. ChannelInOrder' /\ OfferIsNewest'
    BY <1>1, <1>4 DEF OrderInv, ChannelInOrder, OfferIsNewest, Still, Stamped, Observed
  <2> QED
    BY <1>1, <2>1, StillStamps DEF OrderInv
<1>5. CASE EmitSend
  BY <1>2, <1>4, <1>5 DEF EmitSend
<1>6. CASE EmitDrop
  BY <1>3, <1>4, <1>6 DEF EmitDrop
<1>7. CASE EmitAgain
  BY <1>1, <1>2, <1>7 DEF EmitAgain, ChannelInv
<1> QED
  BY <1>5, <1>6, <1>7 DEF Emit

LEMMA OrderOffers ==
  ASSUME OrderInv, Offers
  PROVE  OrderInv'
<1>1. Still /\ UNCHANGED events
  BY DEF Offers, Still, cacheVars
<1>2. ChannelInOrder'
  BY <1>1 DEF OrderInv, ChannelInOrder, Still, Stamped, Observed
<1>3. OfferIsNewest'
  <2>1. CASE offer' = offer
    BY <2>1 DEF Offers, OfferIsNewest
  <2>2. CASE offer' = NoValue
    BY <2>2 DEF OfferIsNewest, Observed
  <2>3. CASE offer'.at = clock
    BY <1>1, <2>3 DEF OrderInv, StampsOK, ChannelInOrder, OfferIsNewest, Stamped, Observed, Still
  <2> QED
    BY <2>1, <2>2, <2>3 DEF Offers
<1> QED
  BY <1>1, <1>2, <1>3, StillStamps DEF OrderInv

(* The loop: what it applies is at least as new as what is cached.         *)
LEMMA OrderApply ==
  ASSUME ChannelInv, OrderInv, ApplyProviderUsage
  PROVE  OrderInv'
<1>0. PICK S : events \in Seq(S)
  BY DEF ChannelInv
<1>1. /\ events # <<>> /\ events' = Tail(events) /\ Observed(Head(events))
      /\ UNCHANGED <<offer, clock, helpers>>
      /\ UpsertProviderUsage("codex", Head(events))
      /\ memory' = [memory EXCEPT !["codex"] = Head(events)]
  BY DEF ApplyProviderUsage, TakeEvent, worldVars, Observed
<1> DEFINE v == Head(events)
<1>2. Len(events) \in Nat \ {0} /\ v = events[1] /\ 1 \in 1..Len(events)
  BY <1>0, <1>1, Shortened
<1>3. Stamped(v) /\ cache["codex"].at <= v.at /\ v.at <= clock
  BY <1>1, <1>2 DEF OrderInv, ChannelInOrder
<1>4. Stamped(cache["codex"])
  BY StampsOf DEF OrderInv, StampsOK
<1>5. /\ cache' = [q \in Providers |-> cache'[q]]
      /\ \A q \in Providers : Stamped(cache'[q])
      /\ \A q \in Providers \ {"codex"} : cache'[q] = cache[q]
      /\ cache'["codex"] = v
  <2>1. v.at >= cache["codex"].at
    BY <1>3, <1>4 DEF Stamped
  <2> QED
    BY <1>1, <1>3, <2>1, Cached, StampsOf DEF OrderInv
<1> HIDE DEF v
<1>6. memory' = [q \in Providers |-> IF q = "codex" THEN v ELSE memory[q]]
  BY <1>1 DEF OrderInv, StampsOK, v
<1>7. StampsOK'
  BY <1>1, <1>3, <1>5, <1>6 DEF OrderInv, StampsOK
<1>8. ShownIsCached'
  <2>1. memory'["codex"] = cache'["codex"]
    BY <1>5, <1>6, StampsOf
  <2>2. memory'["claude"] = memory["claude"] /\ cache'["claude"] = cache["claude"]
    BY <1>5, <1>6, StampsOf
  <2> QED
    BY <2>1, <2>2 DEF OrderInv, ShownIsCached
<1>9. /\ Len(events') = Len(events) - 1
      /\ \A i \in 1..Len(events') : i + 1 \in 1..Len(events) /\ 1 < i + 1 /\ events'[i] = events[i + 1]
  BY <1>0, <1>1, Shortened
<1>10. ChannelInOrder'
  <2>1. \A i \in 1..Len(events') : Observed(events'[i]) =>
          Stamped(events'[i]) /\ v.at <= events'[i].at /\ events'[i].at <= clock
    BY <1>1, <1>2, <1>9 DEF OrderInv, ChannelInOrder, v
  <2>2. \A i, j \in 1..Len(events') : i < j => i + 1 < j + 1
    BY <1>2, <1>9
  <2>3. \A i, j \in 1..Len(events') : i < j /\ Observed(events'[i]) /\ Observed(events'[j])
          => events'[i].at <= events'[j].at
    BY <1>9, <2>2 DEF OrderInv, ChannelInOrder
  <2> QED
    BY <1>1, <1>5, <2>1, <2>3 DEF ChannelInOrder, Observed, Stamped
<1>11. OfferIsNewest'
  <2>1. ASSUME offer # NoEvent, Observed(offer)
        PROVE  /\ Stamped(offer) /\ v.at <= offer.at /\ offer.at <= clock
               /\ \A i \in 1..Len(events') : Observed(events'[i]) => events'[i].at <= offer.at
    BY <1>1, <1>2, <1>9, <2>1 DEF OrderInv, OfferIsNewest, v
  <2> QED
    BY <1>1, <1>5, <2>1 DEF OfferIsNewest, Observed, Stamped
<1> QED
  BY <1>7, <1>8, <1>10, <1>11 DEF OrderInv

LEMMA OrderDrop ==
  ASSUME ChannelInv, OrderInv, TakeError \/ ApplyFails
  PROVE  OrderInv'
<1>1. events # <<>> /\ events' = Tail(events) /\ UNCHANGED offer /\ Still
  BY DEF TakeError, ApplyFails, TakeEvent, Still, cacheVars, worldVars
<1> QED
  BY <1>1, StillStamps, OrderShorter DEF OrderInv, Still

(* The memory is filled from the cache or emptied.                         *)
LEMMA OrderReload ==
  ASSUME OrderInv, UNCHANGED <<cache, helpers, clock>>,
         memory' = Loaded \/ memory' = [p \in Providers |-> NoValue],
         Quiet \/ Emptied
  PROVE  OrderInv'
<1>1. /\ memory' = [p \in Providers |-> memory'[p]]
      /\ \A p \in Providers : memory'[p] \in {cache[p], NoValue}
  BY DEF Loaded
<1>2. Stamped(NoValue)
  BY StampsOf DEF Stamped
<1>3. StampsOK'
  BY <1>1, <1>2 DEF OrderInv, StampsOK, Stamped
<1>4. ShownIsCached'
  <2>1. memory'["claude"] \in {cache["claude"], NoValue} /\ Stamped(cache["claude"])
    BY <1>1, StampsOf DEF OrderInv, StampsOK
  <2>2. memory'["claude"].at <= cache["claude"].at
    BY <2>1, StampsOf DEF Stamped
  <2> QED
    BY <1>1, <2>2, StampsOf DEF ShownIsCached
<1>5. ChannelInOrder' /\ OfferIsNewest'
  <2>1. CASE Quiet
    BY <2>1 DEF Quiet, OrderInv, ChannelInOrder, OfferIsNewest, Stamped, Observed
  <2>2. CASE Emptied
    BY <2>2 DEF Emptied, ChannelInOrder, OfferIsNewest
  <2> QED
    BY <2>1, <2>2
<1> QED
  BY <1>3, <1>4, <1>5 DEF OrderInv

(* Status lines: time goes on, and what they write is for Claude.          *)
LEMMA OrderHelper ==
  ASSUME OrderInv, Helper
  PROVE  OrderInv'
<1>1. Quiet /\ UNCHANGED memory
  BY DEF Helper, HelperReads, HelperWrites, HelperFails, emitVars, cacheVars, Quiet
<1>2. /\ clock' \in Nat /\ clock <= clock' /\ clock' <= MaxClock
      /\ \A v \in helpers' : Stamped(v)
  BY BoundAssumption DEF Helper, HelperReads, HelperWrites, HelperFails, worldVars, OrderInv, StampsOK, Stamped
<1>3. /\ cache' = [q \in Providers |-> cache'[q]] /\ cache'["codex"] = cache["codex"]
      /\ \A q \in Providers : Stamped(cache'[q]) /\ cache[q].at <= cache'[q].at
  <2>1. CASE UNCHANGED cache
    BY <2>1 DEF OrderInv, StampsOK, Stamped
  <2>2. ASSUME NEW v \in helpers, UpsertProviderUsage("claude", v)
        PROVE  /\ cache' = [q \in Providers |-> cache'[q]] /\ cache'["codex"] = cache["codex"]
               /\ \A q \in Providers : Stamped(cache'[q]) /\ cache[q].at <= cache'[q].at
    <3>1. Stamped(v)
      BY DEF OrderInv, StampsOK
    <3>2. "codex" \in Providers \ {"claude"}
      BY DEF Providers
    <3> QED
      BY <2>2, <3>1, <3>2, Cached, StampsOf DEF OrderInv
  <2> QED
    BY <2>1, <2>2 DEF Helper, HelperReads, HelperWrites, HelperFails, cacheVars
<1>4. StampsOK'
  <2>1. cache'["codex"].at <= clock'
    BY <1>2, <1>3, StampsOf DEF OrderInv, StampsOK, Stamped
  <2> QED
    BY <1>1, <1>2, <1>3, <2>1 DEF OrderInv, StampsOK
<1>5. ShownIsCached'
  BY <1>1, <1>3, StampsOf DEF OrderInv, StampsOK, ShownIsCached, Stamped
<1>6. ChannelInOrder'
  BY <1>1, <1>2, <1>3 DEF Quiet, OrderInv, StampsOK, ChannelInOrder, Stamped, Observed
<1>7. OfferIsNewest'
  BY <1>1, <1>2, <1>3 DEF Quiet, OrderInv, StampsOK, OfferIsNewest, Stamped, Observed
<1> QED
  BY <1>4, <1>5, <1>6, <1>7 DEF OrderInv

LEMMA OrderUntouched ==
  ASSUME OrderInv, Still, UNCHANGED <<events, offer>>
  PROVE  OrderInv'
<1>1. ChannelInOrder' /\ OfferIsNewest'
  BY DEF OrderInv, ChannelInOrder, OfferIsNewest, Still, Stamped, Observed
<1> QED
  BY <1>1, StillStamps DEF OrderInv

LEMMA OrderStep ==
  ASSUME ChannelInv, OrderInv, [Next]_vars
  PROVE  OrderInv'
<1>1. CASE Collect \/ Rested
  BY <1>1, CollectOffers, OrderOffers
<1>2. CASE Server
  <2>1. Still /\ UNCHANGED <<events, offer>>
    BY <1>2 DEF Server, Answers, Refuses, Notifies, ServerEnds, Still, emitVars, cacheVars, worldVars
  <2> QED
    BY <2>1, OrderUntouched
<1>3. CASE RefreshProviderUsage
  BY <1>3, OrderReload DEF RefreshProviderUsage, Quiet, emitVars, worldVars
<1>4. CASE Gone
  BY <1>4, OrderReload DEF Gone, Emptied, worldVars
<1>5. CASE Open
  BY <1>5, OrderReload DEF Open, Quiet, emitVars, worldVars
<1>6. CASE World \/ Stop \/ UNCHANGED vars
  <2>1. Still /\ UNCHANGED <<events, offer>>
    BY <1>6 DEF World, AccountMoves, WindowEnds, Stop, vars, Still, emitVars, cacheVars, worldVars
  <2> QED
    BY <2>1, OrderUntouched
<1> QED
  BY <1>1, <1>2, <1>3, <1>4, <1>5, <1>6, OrderEmit, OrderApply, OrderDrop, OrderHelper
  DEF Next, Loop, Closed, Crash

LEMMA OrderInit == Init => OrderInv
<1> SUFFICES ASSUME Init PROVE OrderInv
  OBVIOUS
<1>1. events = <<>> /\ offer = NoEvent /\ clock = 0 /\ helpers = {}
      /\ memory = [p \in Providers |-> NoValue] /\ cache = memory
  BY DEF Init
<1>2. StampsOK
  BY <1>1, StampsOf, BoundAssumption DEF StampsOK, Stamped
<1>3. ChannelInOrder /\ OfferIsNewest
  BY <1>1 DEF ChannelInOrder, OfferIsNewest
<1>4. ShownIsCached
  BY <1>1, StampsOf DEF ShownIsCached
<1> QED
  BY <1>2, <1>3, <1>4 DEF OrderInv

(* Whenever the runtime ends, the next one can show what this one showed:  *)
(* the window of Codex in memory is the cached one, and no status line     *)
(* replaces a cached window of Claude by an older one                      *)
(* (ApplyProviderUsage in provider_usage.go, UpsertProviderUsage).         *)
THEOREM ShownSafety == Spec => []ShownIsCached
<1>1. ChannelInv /\ OrderInv /\ [Next]_vars => OrderInv'
  BY OrderStep
<1>2. OrderInv => ShownIsCached
  BY DEF OrderInv
<1> QED
  BY <1>1, <1>2, OrderInit, ChannelInvariance, PTL DEF Spec

-----------------------------------------------------------------------------
(* Which window is shown, for answers with any number of snapshots         *)

LEMMA LeastNumber ==
  ASSUME NEW T \in SUBSET Nat, T # {}
  PROVE  \E n \in T : \A m \in T : n <= m
<1>1. PICK n \in T : \A m \in T : ~(<<m, n>> \in OpToRel(<, Nat))
  BY NatLessThanWellFounded, WFMin, Zenon
<1>2. ASSUME NEW m \in T PROVE n <= m
  <2>1. m \in Nat /\ n \in Nat
    OBVIOUS
  <2>2. m < n => <<m, n>> \in OpToRel(<, Nat)
    BY <2>1 DEF OpToRel
  <2>3. ~(m < n)
    BY <1>1, <2>2, Zenon
  <2>4. QED
    BY <2>1, <2>3
<1> QED
  BY <1>2

(* The first and the last of some places.                                  *)
LEMMA FirstIs ==
  ASSUME NEW n \in Nat, NEW places \in SUBSET (1 .. n), places # {}
  PROVE  First(places) \in places
<1>1. \E i \in places : \A j \in places : i <= j
  BY LeastNumber
<1> QED
  BY <1>1 DEF First

LEMMA FinalIs ==
  ASSUME NEW n \in Nat, NEW places \in SUBSET (1 .. n), places # {}
  PROVE  Final(places) \in places
<1> DEFINE T == {n - i : i \in places}
<1>1. T \in SUBSET Nat /\ T # {}
  <2>1. \A i \in places : n - i \in Nat
    OBVIOUS
  <2> QED
    BY <2>1
<1>2. PICK m \in T : \A k \in T : m <= k
  <2> HIDE DEF T
  <2> QED
    BY <1>1, LeastNumber
<1>3. PICK i \in places : m = n - i
  BY <1>2
<1>4. ASSUME NEW j \in places PROVE j <= i
  <2>1. n - j \in T
    OBVIOUS
  <2>2. n - i <= n - j
    BY <1>2, <1>3, <2>1
  <2>3. i \in Nat /\ j \in Nat
    OBVIOUS
  <2> HIDE DEF T
  <2> QED
    BY <2>2, <2>3
<1> QED
  BY <1>3, <1>4 DEF Final

(* Of finitely many windows one is the longest: otherwise look at the      *)
(* first place up to which there is none.                                  *)
IsLongest(i, places, length) == i \in places /\ \A j \in places : length[j] <= length[i]

LEMMA SomeLongest ==
  ASSUME NEW n \in Nat, NEW places \in SUBSET (1 .. n), places # {},
         NEW length, \A i \in places : length[i] \in Nat
  PROVE  \E i \in places : IsLongest(i, places, length)
<1> DEFINE upTo(k) == places \cap (1 .. k)
           bad == {k \in 0 .. n : upTo(k) # {} /\ \A i \in upTo(k) : ~IsLongest(i, upTo(k), length)}
<1>1. CASE bad = {}
  <2>1. upTo(n) = places
    OBVIOUS
  <2>2. n \in 0 .. n
    OBVIOUS
  <2>3. n \notin bad
    BY <1>1
  <2>4. upTo(n) = {} \/ \E i \in upTo(n) : IsLongest(i, upTo(n), length)
    BY <2>2, <2>3
  <2> HIDE DEF upTo, bad
  <2> QED
    BY <2>1, <2>4
<1>2. CASE bad # {}
  <2>1. bad \in SUBSET Nat
    OBVIOUS
  <2>2. PICK k \in bad : \A m \in bad : k <= m
    <3> HIDE DEF bad
    <3> QED
      BY <1>2, <2>1, LeastNumber
  <2>3. k \in 1 .. n /\ k - 1 \in 0 .. n /\ k - 1 \notin bad
    <3>1. k # 0
      BY <2>2
    <3>2. k \in 0 .. n
      BY <2>2
    <3>3. k - 1 \notin bad
      <4> HIDE DEF bad
      <4> QED
        BY <2>1, <2>2, <3>1, <3>2
    <3>4. \A h \in 0 .. n : h # 0 => h \in 1 .. n /\ h - 1 \in 0 .. n
      OBVIOUS
    <3> HIDE DEF bad
    <3> QED
      BY <3>1, <3>2, <3>3, <3>4
  <2>4. upTo(k) = IF k \in places THEN upTo(k - 1) \cup {k} ELSE upTo(k - 1)
    BY <2>3
  <2>5. upTo(k) # {} /\ \A i \in upTo(k) : ~IsLongest(i, upTo(k), length)
    BY <2>2
  <2>6. upTo(k - 1) = {} \/ \E i \in upTo(k - 1) : IsLongest(i, upTo(k - 1), length)
    BY <2>3
  <2>7. \A i \in upTo(k) : length[i] \in Nat
    OBVIOUS
  <2>8. \A i \in upTo(k - 1) : length[i] \in Nat
    OBVIOUS
  <2> HIDE DEF bad, upTo
  <2>9. k \in places
    BY <2>4, <2>5, <2>6
  <2>10. upTo(k) = upTo(k - 1) \cup {k} /\ k \in upTo(k) /\ length[k] \in Nat
    BY <2>4, <2>7, <2>9
  <2>11. CASE upTo(k - 1) = {}
    <3>1. IsLongest(k, upTo(k), length)
      BY <2>10, <2>11 DEF IsLongest
    <3> QED
      BY <2>5, <2>10, <3>1
  <2>12. CASE upTo(k - 1) # {}
    <3>1. PICK i \in upTo(k - 1) : IsLongest(i, upTo(k - 1), length)
      BY <2>6, <2>12
    <3>2. length[i] \in Nat /\ \A j \in upTo(k - 1) : length[j] <= length[i]
      BY <2>8, <3>1 DEF IsLongest
    <3>3. CASE length[k] <= length[i]
      <4>1. IsLongest(i, upTo(k), length)
        BY <2>10, <3>2, <3>3 DEF IsLongest
      <4> QED
        BY <2>5, <2>10, <4>1
    <3>4. CASE ~(length[k] <= length[i])
      <4>1. \A j \in upTo(k - 1) : length[j] <= length[k]
        BY <2>8, <2>10, <3>2, <3>4
      <4>2. IsLongest(k, upTo(k), length)
        BY <2>10, <4>1 DEF IsLongest
      <4> QED
        BY <2>5, <2>10, <4>2
    <3> QED
      BY <3>3, <3>4
  <2> QED
    BY <2>11, <2>12
<1> QED
  BY <1>1, <1>2

(* Answers with windows of a set.                                          *)
Snapshots(W) == [primary : W, secondary : W]
AnswersOf(W) == [codex : Snapshots(W), others : Seq(Snapshots(W)), unnamed : Snapshots(W)]

LEMMA WindowsAre ==
  ASSUME NEW W, NEW answer \in AnswersOf(W)
  PROVE  \E n \in Nat : windows(answer) \in [1 .. n -> W]
<1> DEFINE snapshots == <<answer.codex>> \o answer.others \o <<answer.unnamed>>
<1>1. snapshots \in Seq(Snapshots(W))
  BY DEF AnswersOf
<1> HIDE DEF snapshots
<1>2. Len(snapshots) \in Nat /\ \A i \in 1 .. Len(snapshots) : snapshots[i] \in Snapshots(W)
  BY <1>1
<1>3. ASSUME NEW i \in 1 .. 2 * Len(snapshots)
      PROVE  (IF i % 2 = 1 THEN snapshots[(i + 1) \div 2].primary
                           ELSE snapshots[i \div 2].secondary) \in W
  <2>1. CASE i % 2 = 1
    <3>1. (i + 1) \div 2 \in 1 .. Len(snapshots)
      BY <1>2, <2>1
    <3> QED
      BY <1>2, <2>1, <3>1 DEF Snapshots
  <2>2. CASE i % 2 # 1
    <3>1. i \div 2 \in 1 .. Len(snapshots)
      BY <1>2, <2>2
    <3> QED
      BY <1>2, <2>2, <3>1 DEF Snapshots
  <2> QED
    BY <2>1, <2>2
<1>4. 2 * Len(snapshots) \in Nat
  BY <1>2
<1>5. windows(answer) \in [1 .. 2 * Len(snapshots) -> W]
  BY <1>3 DEF windows, snapshots
<1> QED
  BY <1>4, <1>5

(* However many limits an answer names, the window shown is one of its     *)
(* windows with a percentage, a weekly one if there is any, and there is   *)
(* none only if no window has a percentage (selectCodexWeeklyWindow).      *)
THEOREM WindowSelected ==
  ASSUME NEW W \in SUBSET [used : Nat, minutes : Lengths], NEW answer \in AnswersOf(W)
  PROVE  LET all == windows(answer)
             w == selectCodexWeeklyWindow(answer)
         IN /\ (\E i \in DOMAIN all : all[i].used # 0)
                 => w.used # 0 /\ \E i \in DOMAIN all : w = all[i]
            /\ (\E i \in DOMAIN all : isWeekly(all[i])) => isWeekly(w)
            /\ (\A i \in DOMAIN all : all[i].used = 0) => w = Absent
<1> DEFINE all == windows(answer)
           weekly == {i \in DOMAIN all : isWeekly(all[i])}
           used == {i \in DOMAIN all : all[i].used # 0}
           dated == {i \in used : all[i].minutes # Undated}
           longest == {i \in dated : \A j \in dated : all[j].minutes <= all[i].minutes}
           w == selectCodexWeeklyWindow(answer)
<1>1. PICK n \in Nat : all \in [1 .. n -> W]
  BY WindowsAre
<1>2. w = IF weekly # {} THEN all[First(weekly)] ELSE fallback(all)
  BY DEF selectCodexWeeklyWindow
<1>3. fallback(all) = IF dated # {} THEN all[First(longest)]
                      ELSE IF used # {} THEN all[Final(used)] ELSE Absent
  BY DEF fallback
<1> HIDE DEF all, w
<1>4. /\ weekly \in SUBSET (1 .. n) /\ used \in SUBSET (1 .. n) /\ dated \in SUBSET (1 .. n)
      /\ longest \in SUBSET (1 .. n)
  BY <1>1
<1>5. \A i \in 1 .. n : all[i].used \in Nat /\ all[i].minutes \in Lengths
  BY <1>1
<1>6. CASE weekly # {}
  <2>1. First(weekly) \in weekly
    BY <1>4, <1>6, FirstIs
  <2>2. w = all[First(weekly)] /\ isWeekly(w) /\ First(weekly) \in DOMAIN all
    BY <1>2, <1>6, <2>1
  <2> HIDE DEF weekly
  <2> QED
    BY <2>2 DEF isWeekly, all, w
<1>7. CASE weekly = {} /\ dated # {}
  <2> DEFINE length == [i \in 1 .. n |-> all[i].minutes]
  <2>1. \A i \in dated : length[i] \in Nat /\ length[i] = all[i].minutes
    BY <1>4, <1>5 DEF Lengths
  <2>2. PICK i \in dated : IsLongest(i, dated, length)
    <3> HIDE DEF dated, length
    <3> QED
      BY <1>4, <1>7, <2>1, SomeLongest
  <2>3. \A j \in dated : all[j].minutes <= all[i].minutes
    BY <2>1, <2>2 DEF IsLongest
  <2>4. longest # {}
    BY <2>3
  <2>5. First(longest) \in longest
    BY <1>4, <2>4, FirstIs
  <2>6. First(longest) \in used /\ w = all[First(longest)]
    BY <1>2, <1>3, <1>7, <2>5
  <2> QED
    BY <1>7, <2>6 DEF all, w
<1>8. CASE weekly = {} /\ dated = {} /\ used # {}
  <2>1. Final(used) \in used
    BY <1>4, <1>8, FinalIs
  <2>2. w = all[Final(used)]
    BY <1>2, <1>3, <1>8
  <2> QED
    BY <1>8, <2>1, <2>2 DEF all, w
<1>9. CASE weekly = {} /\ dated = {} /\ used = {}
  <2>1. w = Absent
    BY <1>2, <1>3, <1>9
  <2> QED
    BY <1>9, <2>1 DEF all, w
<1> QED
  BY <1>6, <1>7, <1>8, <1>9

-----------------------------------------------------------------------------
(* Types                                                                   *)

(* Whichever window an answer is read to bring, its number is one of a     *)
(* window the account can have, or zero.                                   *)
LEMMA AnswerBrings ==
  ASSUME NEW a \in 0 .. MaxWindow, NEW answer \in AnswersFor(Window(a, Week))
  PROVE  selectCodexWeeklyWindow(answer).used \in 0 .. Other
<1> DEFINE W == [used : 0 .. Other, minutes : Lengths]
           w == selectCodexWeeklyWindow(answer)
           all == windows(answer)
<1>1. /\ Window(a, Week) \in W /\ Absent \in W /\ Window(Other, FiveHours) \in W
      /\ Window(Other, Month) \in W /\ Window(0, Week) \in W /\ Window(Other, Week) \in W
  BY BoundAssumption DEF Window, Absent, Lengths, Undated, Week, FiveHours, Month, Other
<1>2. W \in SUBSET [used : Nat, minutes : Lengths]
  BY BoundAssumption DEF Other
<1>3. answer \in AnswersOf(W)
  <2> HIDE DEF W
  <2>1. /\ answer.codex.primary \in W /\ answer.codex.secondary \in W
        /\ answer.unnamed.primary \in W /\ answer.unnamed.secondary \in W
        /\ answer.codex = [primary |-> answer.codex.primary, secondary |-> answer.codex.secondary]
        /\ answer.unnamed
             = [primary |-> answer.unnamed.primary, secondary |-> answer.unnamed.secondary]
        /\ answer.others = <<>>
        /\ answer = [codex |-> answer.codex, others |-> answer.others, unnamed |-> answer.unnamed]
    BY <1>1 DEF AnswersFor, NoSnapshot
  <2>2. answer.codex \in Snapshots(W) /\ answer.unnamed \in Snapshots(W)
    BY <2>1 DEF Snapshots
  <2>3. answer.others \in Seq(Snapshots(W))
    BY <2>1
  <2> QED
    BY <2>1, <2>2, <2>3 DEF AnswersOf
<1> HIDE DEF W
<1>4. PICK n \in Nat : all \in [1 .. n -> W]
  BY <1>3, WindowsAre
<1>5. /\ (\E i \in DOMAIN all : all[i].used # 0) => \E i \in DOMAIN all : w = all[i]
      /\ (\A i \in DOMAIN all : all[i].used = 0) => w = Absent
  BY <1>2, <1>3, WindowSelected
<1> HIDE DEF all, w
<1>6. w \in W
  BY <1>1, <1>4, <1>5
<1> QED
  BY <1>6 DEF W, w

LEMMA EventTypes ==
  /\ NoValue \in Events /\ Values \subseteq Events
  /\ \A e \in Events : e # NoValue => e \in Values
  /\ Loaded \in [Providers -> Values \cup {NoValue}] \/ ~TypeOK
<1>1. TypeOK => Loaded \in [Providers -> Values \cup {NoValue}]
  BY DEF TypeOK, Loaded
<1> QED
  BY <1>1 DEF Events

(* What the emitting goroutine holds, what the channel and the pipe hold.  *)
EmitType ==
  /\ events \in Seq(Events) /\ Len(events) <= EventRoom
  /\ offer \in Events \cup {NoEvent} /\ emitting \in {"send", "drop", "again"}

CollectorType ==
  collector \in {"begin", "greeting", "serving", "resting", "over"} /\ pending \in BOOLEAN

ServerType ==
  /\ server \in BOOLEAN /\ asked \in {"initialize", "read", "nothing"}
  /\ wire \in Seq(Messages) /\ Len(wire) <= WireRoom

CacheType ==
  /\ memory \in [Providers -> Values \cup {NoValue}]
  /\ cache \in [Providers -> Values \cup {NoValue}]

WorldType ==
  /\ account \in 0 .. MaxWindow /\ ended \in 0 .. MaxWindow /\ clock \in 0 .. MaxClock

LEMMA TypeParts ==
  TypeOK <=> /\ loop \in {"up", "closing", "down"} /\ helpers \subseteq Values
             /\ EmitType /\ CollectorType /\ ServerType /\ CacheType /\ WorldType
BY DEF TypeOK, EmitType, CollectorType, ServerType, CacheType, WorldType

LEMMA TypePartsNext ==
  TypeOK' <=> /\ loop' \in {"up", "closing", "down"} /\ helpers' \subseteq Values
              /\ EmitType' /\ CollectorType' /\ ServerType' /\ CacheType' /\ WorldType'
BY DEF TypeOK, EmitType, CollectorType, ServerType, CacheType, WorldType

LEMMA EmitTypes ==
  ASSUME EmitType, Emit
  PROVE  EmitType'
<1> USE RoomAssumption DEF EmitType
<1>1. offer \in Events
  BY DEF Emit, EmitSend, EmitDrop, EmitAgain
<1>2. Room => Append(events, offer) \in Seq(Events) /\ Len(Append(events, offer)) <= EventRoom
  BY <1>1 DEF Room
<1>3. CASE EmitSend
  BY <1>2, <1>3 DEF EmitSend
<1>4. CASE EmitDrop
  <2>1. events # <<>> => Tail(events) \in Seq(Events) /\ Len(Tail(events)) <= EventRoom
    OBVIOUS
  <2> QED
    BY <1>4, <2>1 DEF EmitDrop
<1>5. CASE EmitAgain
  BY <1>2, <1>5 DEF EmitAgain
<1> QED
  BY <1>3, <1>4, <1>5 DEF Emit

(* Offering an error, or the window of an answer.                          *)
LEMMA OfferTypes ==
  ASSUME EmitType, NEW e \in Events, Offer(e)
  PROVE  EmitType'
BY DEF EmitType, Offer

LEMMA EndTypes ==
  ASSUME EmitType, EndAttempt
  PROVE  EmitType' /\ CollectorType' /\ ServerType'
<1>1. EmitType'
  <2>1. CASE Offer(NoValue)
    BY <2>1, OfferTypes, EventTypes
  <2>2. CASE UNCHANGED emitVars
    BY <2>2 DEF emitVars, EmitType
  <2> QED
    BY <2>1, <2>2 DEF EndAttempt
<1>2. CollectorType'
  BY DEF EndAttempt, CollectorType
<1>3. wire' = <<>> /\ server' = FALSE /\ asked' = "nothing"
  BY DEF EndAttempt
<1>4. wire' \in Seq(Messages) /\ Len(wire') = 0
  BY <1>3
<1>5. Len(wire') <= WireRoom
  BY <1>4, RoomAssumption
<1>6. server' \in BOOLEAN /\ asked' \in {"initialize", "read", "nothing"}
  BY <1>3
<1> QED
  BY <1>1, <1>2, <1>4, <1>5, <1>6 DEF ServerType

(* Taking a message, adding one.                                           *)
LEMMA WireTypes ==
  ASSUME wire \in Seq(Messages), Len(wire) <= WireRoom
  PROVE  /\ wire # <<>> => /\ Head(wire) \in Messages /\ Tail(wire) \in Seq(Messages)
                           /\ Len(Tail(wire)) <= WireRoom
         /\ \A m \in Messages : Say(m) => wire' \in Seq(Messages) /\ Len(wire') <= WireRoom
<1>1. wire # <<>> => /\ Head(wire) \in Messages /\ Tail(wire) \in Seq(Messages)
                     /\ Len(Tail(wire)) <= WireRoom
  BY RoomAssumption
<1>2. ASSUME NEW m \in Messages, Say(m)
      PROVE  wire' \in Seq(Messages) /\ Len(wire') <= WireRoom
  <2>1. Append(wire, m) \in Seq(Messages) /\ Len(Append(wire, m)) = Len(wire) + 1
    OBVIOUS
  <2>2. Len(wire) \in Nat
    OBVIOUS
  <2> QED
    BY <1>2, <2>1, <2>2, RoomAssumption DEF Say
<1> QED
  BY <1>1, <1>2

LEMMA CollectTypes ==
  ASSUME TypeOK, Collect \/ Rested
  PROVE  EmitType' /\ CollectorType' /\ ServerType'
<1>0. EmitType /\ CollectorType /\ ServerType /\ WorldType
  BY TypeParts
<1>1. CASE EndAttempt
  BY <1>0, <1>1, EndTypes
<1>2. CASE Begin /\ ~EndAttempt
  BY <1>0, <1>2 DEF Begin, EmitType, CollectorType, ServerType, emitVars
<1>3. CASE Greeted \/ Ignored \/ Notified
  <2>1. wire' = Tail(wire) /\ wire # <<>> /\ UNCHANGED <<server, emitVars>>
    BY <1>3 DEF Greeted, Ignored, Notified, Read
  <2>2. asked' \in {asked, "read"} /\ CollectorType'
    BY <1>0, <1>3 DEF Greeted, Ignored, Notified, Request, CollectorType, collectorVars
  <2> QED
    BY <1>0, <2>1, <2>2, WireTypes DEF EmitType, ServerType, emitVars
<1>4. CASE Poll
  BY <1>0, <1>4 DEF Poll, Request, EmitType, CollectorType, ServerType, emitVars
<1>5. CASE Answered
  <2>1. wire' = Tail(wire) /\ wire # <<>> /\ Head(wire).kind = "answer"
        /\ UNCHANGED <<server, asked, collector, clock>> /\ pending' = FALSE
    BY <1>5 DEF Answered, Read, worldVars
  <2>2. CollectorType' /\ ServerType'
    BY <1>0, <2>1, WireTypes DEF CollectorType, ServerType
  <2>3. Head(wire).window \in 0 .. MaxWindow
    <3>1. Head(wire) \in Messages
      BY <1>0, <2>1, WireTypes DEF ServerType
    <3> QED
      BY <2>1, <3>1 DEF Messages, Message
  <2>4. PICK answer \in AnswersFor(Window(Head(wire).window, Week)) :
          Publish(selectCodexWeeklyWindow(answer))
    BY <1>5 DEF Answered
  <2> DEFINE w == selectCodexWeeklyWindow(answer)
  <2>5. w.used \in 0 .. Other
    BY <2>3, AnswerBrings
  <2> HIDE DEF w
  <2>6. CASE w.used = 0
    BY <1>0, <2>2, <2>4, <2>6 DEF Publish, EmitType, emitVars, w
  <2>7. CASE w.used # 0
    <3>1. [window |-> w.used, at |-> clock] \in Events
      BY <1>0, <2>5, <2>7, BoundAssumption DEF Events, Values, WorldType, Other
    <3>2. Offer([window |-> w.used, at |-> clock])
      BY <2>4, <2>7 DEF Publish, w
    <3> QED
      BY <1>0, <2>2, <3>1, <3>2, OfferTypes
  <2> QED
    BY <2>2, <2>6, <2>7
<1>6. CASE Rested
  BY <1>0, <1>6 DEF Rested, EmitType, CollectorType, ServerType, emitVars, serverVars
<1> QED
  BY <1>1, <1>2, <1>3, <1>4, <1>5, <1>6 DEF Collect, Interrupted, Refused

LEMMA ServerTypes ==
  ASSUME TypeOK, Server
  PROVE  ServerType'
<1>0. ServerType /\ WorldType
  BY TypeParts
<1>1. /\ Message("ready") \in Messages /\ Message("refused") \in Messages
      /\ Message("updated") \in Messages
      /\ [kind |-> "answer", window |-> account] \in Messages
  BY <1>0 DEF Messages, Message, WorldType
<1>2. CASE Answers
  <2>1. Say(IF asked = "initialize" THEN Message("ready")
            ELSE [kind |-> "answer", window |-> account])
    BY <1>2 DEF Answers
  <2>2. wire' \in Seq(Messages) /\ Len(wire') <= WireRoom
    BY <1>0, <1>1, <2>1, WireTypes DEF ServerType
  <2> QED
    BY <1>0, <1>2, <2>2 DEF Answers, ServerType
<1>3. CASE Refuses
  BY <1>0, <1>1, <1>3, WireTypes DEF Refuses, ServerType
<1>4. CASE Notifies
  BY <1>0, <1>1, <1>4, WireTypes DEF Notifies, ServerType
<1>5. CASE ServerEnds
  BY <1>0, <1>5 DEF ServerEnds, ServerType
<1> QED
  BY <1>2, <1>3, <1>4, <1>5 DEF Server

LEMMA CacheTypes ==
  ASSUME CacheType, NEW p \in Providers, NEW v \in Values, UpsertProviderUsage(p, v)
  PROVE  cache' \in [Providers -> Values \cup {NoValue}]
BY DEF CacheType, UpsertProviderUsage

LEMMA LoopTypes ==
  ASSUME TypeOK, Loop
  PROVE  CacheType' /\ EmitType'
<1>0. CacheType /\ EmitType
  BY TypeParts
<1>1. CASE RefreshProviderUsage
  BY <1>0, <1>1, EventTypes DEF RefreshProviderUsage, CacheType, EmitType, emitVars
<1>2. CASE TakeEvent
  <2>1. events # <<>> /\ events' = Tail(events) /\ UNCHANGED <<offer, emitting>>
    BY <1>2 DEF TakeEvent
  <2>2. Head(events) \in Events /\ Tail(events) \in Seq(Events) /\ Len(Tail(events)) <= EventRoom
    BY <1>0, <2>1, RoomAssumption DEF EmitType
  <2>3. EmitType'
    BY <1>0, <2>1, <2>2 DEF EmitType
  <2>4. CASE UNCHANGED cacheVars
    BY <1>0, <2>3, <2>4 DEF CacheType, cacheVars
  <2>5. CASE ApplyProviderUsage
    <3>1. Head(events) \in Values /\ "codex" \in Providers
      BY <2>2, <2>5, EventTypes DEF ApplyProviderUsage, Providers
    <3>2. cache' \in [Providers -> Values \cup {NoValue}]
      BY <1>0, <2>5, <3>1, CacheTypes DEF ApplyProviderUsage
    <3>3. memory' \in [Providers -> Values \cup {NoValue}]
      BY <1>0, <2>5, <3>1 DEF ApplyProviderUsage, CacheType
    <3> QED
      BY <2>3, <3>2, <3>3 DEF CacheType
  <2> QED
    BY <1>1, <2>4, <2>5, Zenon DEF Loop, TakeError, ApplyFails
<1> QED
  BY <1>1, <1>2 DEF Loop, TakeError, ApplyProviderUsage, ApplyFails

LEMMA HelperTypes ==
  ASSUME TypeOK, Helper
  PROVE  helpers' \subseteq Values /\ clock' \in 0 .. MaxClock /\ CacheType'
<1>0. CacheType /\ WorldType /\ helpers \subseteq Values
  BY TypeParts
<1>1. CASE HelperReads
  <2>1. clock' \in 0 .. MaxClock /\ UNCHANGED cacheVars
    BY <1>0, <1>1, BoundAssumption DEF HelperReads, WorldType
  <2>2. \A w \in HelperWindows : [window |-> w, at |-> clock'] \in Values
    BY <2>1, HelperAssumption, BoundAssumption DEF Values, Other
  <2>3. helpers' \subseteq Values
    BY <1>0, <1>1, <2>2 DEF HelperReads
  <2> QED
    BY <1>0, <2>1, <2>3 DEF CacheType, cacheVars
<1>2. CASE HelperWrites
  <2>1. PICK v \in helpers : helpers' = helpers \ {v} /\ UpsertProviderUsage("claude", v)
    BY <1>2 DEF HelperWrites
  <2>2. cache' \in [Providers -> Values \cup {NoValue}]
    BY <1>0, <2>1, CacheTypes DEF Providers
  <2> QED
    BY <1>0, <1>2, <2>1, <2>2 DEF HelperWrites, CacheType, WorldType, worldVars
<1>3. CASE HelperFails
  BY <1>0, <1>3 DEF HelperFails, CacheType, WorldType, worldVars, cacheVars
<1> QED
  BY <1>1, <1>2, <1>3 DEF Helper

LEMMA TypeStep ==
  ASSUME TypeOK, [Next]_vars
  PROVE  TypeOK'
<1> USE TypePartsNext DEF emitVars, cacheVars, collectorVars, serverVars, worldVars
<1>0. /\ loop \in {"up", "closing", "down"} /\ helpers \subseteq Values
      /\ EmitType /\ CollectorType /\ ServerType /\ CacheType /\ WorldType
  BY TypeParts
<1>1. CASE Emit
  <2>1. UNCHANGED <<loop, cacheVars, collectorVars, serverVars, worldVars, helpers>>
    BY <1>1 DEF Emit, EmitSend, EmitDrop, EmitAgain
  <2> QED
    BY <1>0, <1>1, <2>1, EmitTypes DEF CollectorType, ServerType, CacheType, WorldType
<1>2. CASE Collect \/ Rested
  <2>1. UNCHANGED <<loop, cacheVars, worldVars, helpers>>
    BY <1>2 DEF Collect, Begin, Interrupted, Greeted, Ignored, Poll, Notified, Answered,
                Refused, Rested, Read
  <2> QED
    BY <1>0, <1>2, <2>1, CollectTypes DEF CacheType, WorldType
<1>3. CASE Server
  <2>1. UNCHANGED <<loop, cacheVars, collectorVars, emitVars, worldVars, helpers>>
    BY <1>3 DEF Server, Answers, Refuses, Notifies, ServerEnds
  <2> QED
    BY <1>0, <1>3, <2>1, ServerTypes DEF EmitType, CollectorType, CacheType, WorldType
<1>4. CASE Loop
  <2>1. UNCHANGED <<loop, collectorVars, serverVars, worldVars, helpers>>
    BY <1>4 DEF Loop, TakeError, ApplyProviderUsage, ApplyFails, TakeEvent, RefreshProviderUsage
  <2> QED
    BY <1>0, <1>4, <2>1, LoopTypes DEF CollectorType, ServerType, WorldType
<1>5. CASE Helper
  <2>1. UNCHANGED <<loop, collectorVars, emitVars, serverVars, account, ended>>
    BY <1>5 DEF Helper, HelperReads, HelperWrites, HelperFails
  <2> QED
    BY <1>0, <1>5, <2>1, HelperTypes DEF EmitType, CollectorType, ServerType, WorldType
<1>6. CASE World
  <2>1. UNCHANGED <<loop, cacheVars, collectorVars, emitVars, serverVars, helpers>>
    BY <1>6 DEF World, AccountMoves, WindowEnds
  <2>2. WorldType'
    BY <1>0, <1>6, BoundAssumption DEF World, AccountMoves, WindowEnds, WorldType
  <2> QED
    BY <1>0, <2>1, <2>2 DEF EmitType, CollectorType, ServerType, CacheType
<1>7. CASE Stop
  BY <1>0, <1>7 DEF Stop, EmitType, CollectorType, ServerType, CacheType, WorldType
<1>8. CASE Gone
  <2>1. /\ events' \in Seq(Events) /\ Len(events') = 0
        /\ wire' \in Seq(Messages) /\ Len(wire') = 0
    BY <1>8 DEF Gone
  <2>2. Len(events') <= EventRoom /\ Len(wire') <= WireRoom
    BY <2>1, RoomAssumption
  <2>3. EmitType' /\ ServerType'
    <3>1. offer' = NoEvent /\ emitting' = "send" /\ server' = FALSE /\ asked' = "nothing"
      BY <1>8 DEF Gone
    <3> QED
      BY <2>1, <2>2, <3>1 DEF EmitType, ServerType
  <2> QED
    BY <1>0, <1>8, <2>3 DEF Gone, CollectorType, CacheType, WorldType
<1>9. CASE Open
  BY <1>0, <1>9, EventTypes DEF Open, EmitType, CollectorType, ServerType, CacheType, WorldType
<1>10. CASE UNCHANGED vars
  BY <1>0, <1>10 DEF vars, EmitType, CollectorType, ServerType, CacheType, WorldType
<1> QED
  BY <1>1, <1>2, <1>3, <1>4, <1>5, <1>6, <1>7, <1>8, <1>9, <1>10 DEF Next, Closed, Crash

(* Types; whichever window an answer brings, only windows the account can  *)
(* have are published, and no channel ever holds more than it has room     *)
(* for (codexMonitor.collect, emit in codex.go).                           *)
THEOREM UsageTyping == Spec => []TypeOK
<1>1. Init => TypeOK
  <2> SUFFICES ASSUME Init PROVE TypeOK
    OBVIOUS
  <2>1. /\ events \in Seq(Events) /\ Len(events) = 0
        /\ wire \in Seq(Messages) /\ Len(wire) = 0
    BY DEF Init
  <2>2. Len(events) <= EventRoom /\ Len(wire) <= WireRoom
    BY <2>1, RoomAssumption
  <2>3. EmitType /\ ServerType
    <3>1. offer = NoEvent /\ emitting = "send" /\ server = FALSE /\ asked = "nothing"
      BY DEF Init
    <3> QED
      BY <2>1, <2>2, <3>1 DEF EmitType, ServerType
  <2>4. WorldType /\ loop = "up" /\ helpers = {}
    BY BoundAssumption DEF Init, WorldType
  <2>5. CollectorType /\ CacheType
    BY DEF Init, CollectorType, CacheType
  <2> QED
    BY <2>3, <2>4, <2>5, TypeParts
<1>2. TypeOK /\ [Next]_vars => TypeOK'
  BY TypeStep
<1> QED
  BY <1>1, <1>2, PTL DEF Spec

=============================================================================
