------------------------- MODULE SessionSystemProofs -------------------------
(***************************************************************************)
(* Proofs about SessionSystem, for every set of front ends, every number   *)
(* of inputs and every pipe capacity: displaced connections and input,     *)
(* whose clipboard and screen, the order of clipboard texts, the lease of  *)
(* the screen (SessionLease), and the delivery of the last words.          *)
(***************************************************************************)
EXTENDS SessionSystem, SequenceTheorems, TLAPS

(* Writing a frame keeps the pipes well typed.                             *)
LEMMA WriteFrameType ==
  ASSUME TypeOK, NEW c \in Clients, NEW f \in Frame, NEW pipes \in [Clients -> Seq(Frame)]
  PROVE  WriteFrame(pipes, c, f) \in [Clients -> Seq(Frame)]
BY DEF WriteFrame

LEMMA FrameTypes ==
  ASSUME TypeOK
  PROVE  /\ \A who \in Clients \cup {NoClient}, clip \in Nat, kind \in {"view", "detach"} :
              View(kind, who, clip) \in Frame
         /\ \A kind \in {"error", "stopped"} : Notice(kind) \in Frame
         /\ NoScreen \in Screen
BY DEF TypeOK, View, Notice, NoScreen, Frame, Screen

LEMMA closePeerType ==
  ASSUME TypeOK, NEW c \in Clients, closePeer(c)
  PROVE  /\ conn' \in [Clients -> {"none", "backlog", "peer", "dropped"}]
         /\ active' \in Clients \cup {NoClient}
         /\ pendingClip' \in Nat
         /\ uiBy' \in Clients \cup {NoClient}
         /\ stuck' \in BOOLEAN
<1>1. conn' \in [Clients -> {"none", "backlog", "peer", "dropped"}]
  BY DEF TypeOK, closePeer, Dropped
<1>2. active' \in Clients \cup {NoClient} /\ pendingClip' \in Nat
  BY DEF TypeOK, closePeer
<1>3. stuck' = stuck \/ stuck' = TRUE
  BY Zenon DEF closePeer, ClientDetached
<1>4. uiBy' = uiBy \/ uiBy' = NoClient
  BY Zenon DEF closePeer, ClientDetached
<1> QED BY <1>1, <1>2, <1>3, <1>4 DEF TypeOK

LEMMA ReceiveType ==
  ASSUME TypeOK, NEW c \in Clients, NEW kinds, Receive(c, kinds)
  PROVE  up' \in [Clients -> Seq(Requests)] /\ hung' \in [Clients -> BOOLEAN]
BY DEF TypeOK, Receive

(* A step of the runtime keeps every variable in its type.                 *)
LEMMA ServerTyping ==
  ASSUME TypeOK, NEW c \in Clients, ServerStep(c), UNCHANGED clientVars
  PROVE  TypeOK'
<1> USE FrameTypes
<1>1. CASE Accept(c)
  BY <1>1 DEF TypeOK, Accept, loopVars, clientVars, readerVars
<1>2. CASE PeerGone(c)
  BY <1>2, closePeerType DEF TypeOK, PeerGone, clientVars
<1>3. CASE RejectVersion(c)
  BY <1>3, closePeerType, ReceiveType, WriteFrameType DEF TypeOK, RejectVersion, Receive, clientVars
<1>4. CASE Attach(c)
  <2>1. down' \in [Clients -> Seq(Frame)]
    BY <1>4, WriteFrameType DEF TypeOK, Attach, displaces
  <2> QED BY <1>4, <2>1, ReceiveType DEF TypeOK, Attach, Dropped, displaces, Receive, clientVars
<1>5. CASE RejectInput(c)
  BY <1>5, closePeerType, ReceiveType, WriteFrameType DEF TypeOK, RejectInput, Receive, clientVars
<1>6. CASE ApplyInput(c)
  <2>1. up' \in [Clients -> Seq(Requests)] /\ hung' \in [Clients -> BOOLEAN]
    BY <1>6, ReceiveType DEF ApplyInput
  <2>2. /\ uiBy' \in Clients \cup {NoClient} /\ pendingClip' \in Nat
        /\ author' \in Seq(Clients) /\ rev' \in Nat
    <3>1. /\ author \in Seq(Clients) /\ Len(author) + 1 \in Nat
          /\ Append(author, c) \in Seq(Clients)
          /\ pendingClip \in Nat /\ uiBy \in Clients \cup {NoClient} /\ rev + 1 \in Nat
      BY DEF TypeOK
    <3>2. CASE UNCHANGED <<author, pendingClip>>
      BY <1>6, <3>1, <3>2 DEF ApplyInput
    <3>3. CASE author' = Append(author, c) /\ pendingClip' = Len(author) + 1 /\ UNCHANGED uiBy
      BY <1>6, <3>1, <3>3 DEF ApplyInput
    <3> QED BY <1>6, <3>2, <3>3 DEF ApplyInput
  <2> QED BY <1>6, <2>1, <2>2 DEF TypeOK, ApplyInput, Receive, clientVars
<1>7. CASE ApplyQuit(c)
  BY <1>7, closePeerType, ReceiveType, WriteFrameType DEF TypeOK, ApplyQuit, Receive, clientVars
<1>8. CASE Stop(c)
  BY <1>8, closePeerType, ReceiveType, WriteFrameType DEF TypeOK, Stop, Receive, clientVars
<1>9. CASE AttachHeld(c)
  <2>1. active \in Clients \cup {NoClient} /\ uiBy \in Clients \cup {NoClient} /\ pendingClip \in Nat
    BY DEF TypeOK
  <2>2. down' \in [Clients -> Seq(Frame)]
    <3>1. CASE displaces(c)
      BY <1>9, <2>1, <3>1, WriteFrameType DEF TypeOK, AttachHeld, displaces
    <3>2. CASE ~displaces(c)
      BY <1>9, <3>2 DEF TypeOK, AttachHeld
    <3> QED BY <3>1, <3>2
  <2>3. /\ active' \in Clients \cup {NoClient} /\ uiBy' \in Clients \cup {NoClient}
        /\ pendingClip' \in Nat
    BY <1>9, <2>1 DEF TypeOK, AttachHeld
  <2>7. stuck' = TRUE /\ (dirty' = FALSE \/ dirty' = dirty)
    BY <1>9 DEF AttachHeld
  <2>4. conn' \in [Clients -> {"none", "backlog", "peer", "dropped"}]
    BY <1>9 DEF TypeOK, AttachHeld, Dropped
  <2>5. up' \in [Clients -> Seq(Requests)] /\ hung' \in [Clients -> BOOLEAN]
    BY <1>9, ReceiveType DEF AttachHeld
  <2>6. UNCHANGED <<runtime, rev, author, output, clientVars>>
    BY <1>9 DEF AttachHeld
  <2> QED BY <2>2, <2>3, <2>4, <2>5, <2>6, <2>7 DEF TypeOK, clientVars
<1> QED BY <1>1, <1>2, <1>3, <1>4, <1>5, <1>6, <1>7, <1>8, <1>9 DEF ServerStep

(* So do the steps of the loop that no request causes.                     *)
LEMMA LoopTyping ==
  ASSUME TypeOK, LoopStep, UNCHANGED clientVars
  PROVE  TypeOK'
<1>1. CASE Shutdown
  BY <1>1 DEF TypeOK, Shutdown, Dropped, loopVars, clientVars
<1>2. CASE ModelEvent
  BY <1>2 DEF TypeOK, ModelEvent, wireVars, clientVars
<1>3. CASE Tick
  <2>1. active \in Clients /\ View("view", uiBy, pendingClip) \in Frame
    BY <1>3, FrameTypes DEF TypeOK, Tick
  <2>2. down' \in [Clients -> Seq(Frame)]
    BY <1>3, <2>1, WriteFrameType DEF TypeOK, Tick, sendView
  <2>3. CASE Writable(active)
    <3>1. pendingClip' = 0 /\ UNCHANGED <<conn, active, uiBy, stuck>>
      BY <1>3, <2>3 DEF Tick, sendView
    <3>2. dirty' = FALSE /\ UNCHANGED <<runtime, rev, author, output, up, hung>>
      BY <1>3 DEF Tick
    <3> QED BY <3>1, <3>2, <2>2 DEF TypeOK, clientVars
  <2>4. CASE ~Writable(active)
    BY <1>3, <2>1, <2>2, <2>4, closePeerType DEF TypeOK, Tick, sendView, clientVars
  <2> QED BY <2>3, <2>4
<1>4. CASE Hold
  BY <1>4 DEF TypeOK, Hold, wireVars, clientVars
<1> QED BY <1>1, <1>2, <1>3, <1>4 DEF LoopStep

LEMMA ResultTypes ==
  /\ Empty.clip = 0 /\ Empty.screen = NoScreen /\ Empty.kind = "empty"
  /\ EndOfStream.clip = 0 /\ EndOfStream.screen = NoScreen /\ EndOfStream.kind = "eof"
  /\ NoScreen \in Screen /\ NoScreen.ui = NoClient
  /\ \A f \in Results \cup {Empty} : f.clip \in Nat /\ f.screen \in Screen
BY DEF Empty, EndOfStream, NoScreen, Screen, Results, Frame

(* What a front end does keeps every variable in its type.                 *)
LEMMA EndProgramType ==
  ASSUME TypeOK, NEW c \in Clients, UNCHANGED loopVars, EndProgram(c)
  PROVE  TypeOK'
BY ResultTypes DEF TypeOK, EndProgram, loopVars

LEMMA ClientTyping ==
  ASSUME TypeOK, NEW c \in Clients, ClientStep(c), UNCHANGED loopVars
  PROVE  TypeOK'
<1>1. ASSUME NEW role \in {"running", "waiting"},
             NEW first \in {"attach", "outdated", "stop"}, Dial(c, role, first)
      PROVE  TypeOK'
  BY <1>1 DEF TypeOK, Dial, Requests, loopVars, readerVars
<1>2. ASSUME NEW kind \in Inputs, SendInput(c, kind)
      PROVE  TypeOK'
  <2>1. up \in [Clients -> Seq(Requests)] /\ kind \in Requests /\ sent + 1 \in Nat
    BY DEF TypeOK, Requests
  <2>2. up' \in [Clients -> Seq(Requests)] /\ sent' \in Nat
    <3>1. Append(up[c], kind) \in Seq(Requests)
      BY <2>1
    <3> QED BY <1>2, <2>1, <3>1 DEF SendInput
  <2>3. UNCHANGED <<runtime, conn, down, hung, ui, readerVars, shown, copies>>
    BY <1>2 DEF SendInput
  <2> QED BY <2>2, <2>3 DEF TypeOK, loopVars, readerVars
<1>3. CASE SendFails(c)
  BY <1>3, EndProgramType DEF SendFails
<1>4. CASE readFrames(c)
  <2>1. reading' \in [Clients -> Results \cup {Empty}] /\ down' \in [Clients -> Seq(Frame)]
    <3>1. down[c] \in Seq(Frame) /\ reading \in [Clients -> Results \cup {Empty}]
      BY DEF TypeOK
    <3>2. down[c] # <<>> => Head(down[c]) \in Results /\ Tail(down[c]) \in Seq(Frame)
      BY <3>1 DEF Results
    <3>3. EndOfStream \in Results
      BY DEF Results
    <3>4. CASE down[c] # <<>>
      <4>1. /\ reading' = [reading EXCEPT ![c] = Head(down[c])]
            /\ down' = [down EXCEPT ![c] = Tail(@)]
        BY <1>4, <3>4 DEF readFrames
      <4>2. down \in [Clients -> Seq(Frame)]
        BY DEF TypeOK
      <4> QED BY <3>1, <3>2, <3>4, <4>1, <4>2
    <3>5. CASE down[c] = <<>>
      <4>1. reading' = [reading EXCEPT ![c] = EndOfStream] /\ UNCHANGED down
        BY <1>4, <3>5 DEF readFrames
      <4> QED BY <3>1, <3>3, <4>1 DEF TypeOK
    <3> QED BY <3>4, <3>5
  <2> QED BY <1>4, <2>1 DEF TypeOK, readFrames, loopVars
<1>5. CASE queueFrame(c)
  BY <1>5 DEF TypeOK, queueFrame, endsReader, loopVars, wireVars
<1>6. CASE replaceStale(c)
  <2>1. mergeFrameSideEffects(mail[c], reading[c]) \in Results \cup {Empty}
    <3>1. reading[c] \in Results /\ mail[c].clip \in Nat
      BY <1>6, ResultTypes DEF TypeOK, replaceStale
    <3>2. ASSUME NEW f \in Frame, NEW t \in Nat PROVE [f EXCEPT !.clip = t] \in Frame
      BY DEF Frame
    <3>3. reading[c].kind # "eof" => reading[c] \in Frame
      BY <3>1, ResultTypes DEF Results
    <3> QED BY <3>1, <3>2, <3>3 DEF mergeFrameSideEffects, Results
  <2> QED BY <1>6, <2>1 DEF TypeOK, replaceStale, loopVars, wireVars
<1>7. CASE waitForFrame(c)
  BY <1>7 DEF TypeOK, waitForFrame, loopVars, wireVars
<1>8. CASE UpdateLast(c)
  BY <1>8, EndProgramType DEF UpdateLast
<1>9. CASE UpdateFrame(c)
  BY <1>9, ResultTypes DEF TypeOK, UpdateFrame, loopVars, wireVars
<1>10. CASE Kill(c)
  BY <1>10, EndProgramType DEF Kill
<1>11. CASE StopReturns(c)
  BY <1>11, EndProgramType DEF StopReturns
<1> QED
  BY <1>1, <1>2, <1>3, <1>4, <1>5, <1>6, <1>7, <1>8, <1>9, <1>10, <1>11 DEF ClientStep

LEMMA InitTyping == ASSUME Init PROVE TypeOK
<1>1. /\ \A S : <<>> \in Seq(S)
      /\ NoScreen \in Screen
  BY ResultTypes
<1> QED BY <1>1 DEF Init, WireInit, ServerInit, ClientInit, TypeOK

(* Type correctness of the session protocol: loop, wires and front ends.   *)
THEOREM Typing == Spec => []TypeOK
<1>1. TypeOK /\ [Next]_vars => TypeOK'
  <2> SUFFICES ASSUME TypeOK, [Next]_vars PROVE TypeOK'
    OBVIOUS
  <2>1. CASE UNCHANGED vars
    BY <2>1 DEF TypeOK, vars, wireVars, loopVars, clientVars
  <2>2. CASE Next
    BY <2>2, ServerTyping, LoopTyping, ClientTyping DEF Next
  <2> QED BY <2>1, <2>2
<1> QED BY InitTyping, <1>1, PTL DEF Spec

-----------------------------------------------------------------------------
(* The lease of the screen.  Three facts carry each other: a front end     *)
(* that has not dialled is unknown to the runtime, a connection that is    *)
(* not the active one still has its first request in front, and nothing    *)
(* is left of a client that is not active.                                 *)
FreshUnknown == \A c \in Clients : ui[c] = "new" => conn[c] = "none"

FirstRequestInFront ==
  Idle =>
    \A c \in Clients : conn[c] \in {"backlog", "peer"} /\ active # c
      => up[c] # <<>> /\ Head(up[c]) \notin Inputs

LeaseInv == TypeOK /\ FreshUnknown /\ FirstRequestInFront /\ DetachedIsClean

LEMMA SendKeepsHead ==
  ASSUME NEW S, NEW q \in Seq(S), NEW x \in S
  PROVE  Append(q, x) # <<>> /\ (q # <<>> => Head(Append(q, x)) = Head(q))
<1>1. Len(Append(q, x)) = Len(q) + 1 /\ Append(q, x) \in Seq(S)
  OBVIOUS
<1>2. q # <<>> => Len(q) >= 1 /\ Head(q) = q[1] /\ Append(q, x)[1] = q[1]
  OBVIOUS
<1>3. Append(q, x) # <<>> => Head(Append(q, x)) = Append(q, x)[1]
  BY <1>1
<1>4. Append(q, x) # <<>>
  BY <1>1, EmptySeq
<1> QED BY <1>2, <1>3, <1>4

LEMMA LeaseServer ==
  ASSUME LeaseInv, NEW c \in Clients, ServerStep(c), UNCHANGED clientVars
  PROVE  LeaseInv'
<1> USE NoClientAssumption
<1>0. TypeOK'
  BY ServerTyping DEF LeaseInv
<1>1. CASE Accept(c)
  BY <1>0, <1>1 DEF LeaseInv, TypeOK, FreshUnknown, FirstRequestInFront, DetachedIsClean,
                    Accept, Idle, loopVars, clientVars
<1>2. CASE PeerGone(c)
  BY <1>0, <1>2 DEF LeaseInv, TypeOK, FreshUnknown, FirstRequestInFront, DetachedIsClean,
                    PeerGone, Idle, closePeer, ClientDetached, Dropped, clientVars
<1>3. CASE RejectVersion(c)
  BY <1>0, <1>3 DEF LeaseInv, TypeOK, FreshUnknown, FirstRequestInFront, DetachedIsClean,
                    RejectVersion, Receive, Idle, closePeer, ClientDetached, Dropped, clientVars
<1>4. CASE Attach(c)
  <2>1. active # NoClient => active \in Clients /\ conn[active] = "peer"
    BY <1>4 DEF LeaseInv, TypeOK, DetachedIsClean, Attach, Receive, Idle
  <2>2. conn[c] = "peer" /\ c # NoClient /\ Idle /\ UNCHANGED <<runtime, stuck>>
    BY <1>4 DEF Attach, Receive
  <2>3. \A d \in Clients : conn'[d] \in {conn[d], "dropped"} /\ (conn[d] = "none" => conn'[d] = "none")
    BY <1>4, <2>1, <2>2 DEF Attach, Dropped, displaces, LeaseInv, TypeOK
  <2>4. FreshUnknown'
    BY <1>4, <2>3 DEF LeaseInv, FreshUnknown, clientVars
  <2>5. \A d \in Clients : d = active /\ d # c => conn'[d] = "dropped"
    BY <1>4 DEF Attach, Dropped, displaces
  <2>6. \A d \in Clients : d # c => up'[d] = up[d]
    BY <1>4 DEF Attach, Receive, LeaseInv, TypeOK
  <2>7. ~Writable(c) => conn'[c] = "dropped"
    BY <1>4 DEF Attach, Dropped
  <2>8. FirstRequestInFront'
    BY <1>4, <2>2, <2>3, <2>5, <2>6, <2>7 DEF LeaseInv, FirstRequestInFront, Idle, Attach
  <2>9. DetachedIsClean'
    <3>1. CASE Writable(c)
      <4>1. conn'[c] = "peer"
        BY <1>4, <2>2, <3>1 DEF Attach, Dropped, displaces
      <4>2. uiBy' \in {NoClient, c}
        BY <1>4, <3>1, <2>2 DEF Attach, displaces, Idle, LeaseInv, DetachedIsClean
      <4> QED BY <1>4, <3>1, <4>1, <4>2, <2>2 DEF Attach, DetachedIsClean
    <3>2. CASE ~Writable(c)
      BY <1>4, <3>2 DEF Attach, DetachedIsClean
    <3> QED BY <3>1, <3>2
  <2> QED BY <1>0, <2>4, <2>8, <2>9 DEF LeaseInv
<1>5. CASE RejectInput(c)
  BY <1>0, <1>5 DEF LeaseInv, TypeOK, FreshUnknown, FirstRequestInFront, DetachedIsClean,
                    RejectInput, Receive, Idle, closePeer, ClientDetached, Dropped, clientVars
<1>6. CASE ApplyInput(c)
  BY <1>0, <1>6 DEF LeaseInv, TypeOK, FreshUnknown, FirstRequestInFront, DetachedIsClean,
                    ApplyInput, Receive, Idle, clientVars
<1>7. CASE ApplyQuit(c)
  BY <1>0, <1>7 DEF LeaseInv, TypeOK, FreshUnknown, FirstRequestInFront, DetachedIsClean,
                    ApplyQuit, Receive, Idle, closePeer, ClientDetached, Dropped, clientVars
<1>8. CASE Stop(c)
  <2>1. CASE Writable(c)
    BY <1>0, <1>8, <2>1 DEF LeaseInv, TypeOK, FreshUnknown, FirstRequestInFront,
                            DetachedIsClean, Stop, Receive, Idle, clientVars
  <2>2. CASE closePeer(c)
    BY <1>0, <1>8, <2>2 DEF LeaseInv, TypeOK, FreshUnknown, FirstRequestInFront,
                            DetachedIsClean, Stop, Receive, Idle, closePeer, ClientDetached, Dropped, clientVars
  <2> QED BY <1>8, <2>1, <2>2 DEF Stop
<1>9. CASE AttachHeld(c)
  <2>1. /\ conn[c] = "peer" /\ c # NoClient /\ stuck' = TRUE
        /\ conn \in [Clients -> {"none", "backlog", "peer", "dropped"}]
    BY <1>9 DEF AttachHeld, Receive, LeaseInv, TypeOK
  <2>2. \A d \in Clients : conn[d] = "none" => conn'[d] = "none"
    <3>1. displaces(c) => conn[active] # "none"
      BY <1>9 DEF AttachHeld, Receive, Idle, LeaseInv, DetachedIsClean, displaces
    <3> QED BY <1>9, <2>1, <3>1 DEF AttachHeld, Dropped
  <2>3. FreshUnknown'
    BY <2>2 DEF LeaseInv, FreshUnknown, clientVars
  <2>4. FirstRequestInFront'
    BY <2>1 DEF FirstRequestInFront, Idle
  <2>5. DetachedIsClean'
    <3>1. active' \in {NoClient, c} /\ (active' = NoClient => pendingClip' = 0)
      BY <1>9, <2>1 DEF AttachHeld
    <3>2. active' = c => conn'[c] = "peer"
      BY <1>9, <2>1 DEF AttachHeld, Dropped, displaces
    <3> QED BY <2>1, <3>1, <3>2 DEF DetachedIsClean
  <2> QED BY <1>0, <2>3, <2>4, <2>5 DEF LeaseInv
<1> QED BY <1>1, <1>2, <1>3, <1>4, <1>5, <1>6, <1>7, <1>8, <1>9 DEF ServerStep

LEMMA LeaseLoop ==
  ASSUME LeaseInv, LoopStep, UNCHANGED clientVars
  PROVE  LeaseInv'
<1> USE NoClientAssumption
<1>0. TypeOK'
  BY LoopTyping DEF LeaseInv
<1>1. CASE Shutdown
  BY <1>0, <1>1 DEF LeaseInv, TypeOK, FreshUnknown, FirstRequestInFront, DetachedIsClean,
                    Shutdown, Idle, Dropped, loopVars, clientVars
<1>2. CASE ModelEvent
  BY <1>0, <1>2 DEF LeaseInv, TypeOK, FreshUnknown, FirstRequestInFront, DetachedIsClean,
                    ModelEvent, Idle, wireVars, clientVars
<1>3. CASE Tick
  <2>1. /\ active # NoClient /\ Idle
        /\ UNCHANGED <<runtime, up, ui>>
    BY <1>3 DEF Tick, clientVars
  <2>2. conn[active] = "peer" /\ uiBy \in {NoClient, active}
    BY <2>1 DEF Idle, LeaseInv, DetachedIsClean
  <2>3. \/ pendingClip' = 0 /\ UNCHANGED <<conn, active, uiBy, stuck>>
        \/ closePeer(active)
    BY <1>3 DEF Tick, sendView
  <2>4. CASE pendingClip' = 0 /\ UNCHANGED <<conn, active, uiBy, stuck>>
    BY <1>0, <2>1, <2>2, <2>4 DEF Idle, LeaseInv, FreshUnknown, FirstRequestInFront, DetachedIsClean
  <2>5. CASE closePeer(active)
    <3>1. /\ active' = NoClient /\ pendingClip' = 0 /\ conn' = Dropped({active})
          /\ stuck' = TRUE \/ (uiBy' = NoClient /\ stuck' = stuck)
      BY <2>5 DEF closePeer, ClientDetached
    <3>2. \A d \in Clients : conn'[d] = IF d = active THEN "dropped" ELSE conn[d]
      BY <3>1 DEF Dropped
    <3> QED BY <1>0, <2>1, <2>2, <3>1, <3>2
        DEF Idle, LeaseInv, FreshUnknown, FirstRequestInFront, DetachedIsClean
  <2> QED BY <2>3, <2>4, <2>5
<1>4. CASE Hold
  BY <1>0, <1>4 DEF LeaseInv, TypeOK, FreshUnknown, FirstRequestInFront, DetachedIsClean,
                    Hold, Idle, wireVars, clientVars
<1> QED BY <1>1, <1>2, <1>3, <1>4 DEF LoopStep

(* A front end touches the runtime's state by dialling and by sending.     *)
LEMMA LeaseClient ==
  ASSUME LeaseInv, NEW c \in Clients, ClientStep(c), UNCHANGED loopVars
  PROVE  LeaseInv'
<1> USE NoClientAssumption
<1>0. TypeOK'
  BY ClientTyping DEF LeaseInv
<1>1. ASSUME NEW role \in {"running", "waiting"},
             NEW first \in {"attach", "outdated", "stop"}, Dial(c, role, first)
      PROVE  LeaseInv'
  BY <1>0, <1>1 DEF LeaseInv, TypeOK, FreshUnknown, FirstRequestInFront, DetachedIsClean,
                    Dial, Idle, Inputs, loopVars
<1>2. ASSUME NEW kind \in Inputs, SendInput(c, kind)
      PROVE  LeaseInv'
  <2>1. \A q \in Seq(Requests) : Append(q, kind) # <<>>
                                  /\ (q # <<>> => Head(Append(q, kind)) = Head(q))
    BY SendKeepsHead DEF Requests
  <2> QED BY <1>0, <1>2, <2>1 DEF LeaseInv, TypeOK, FreshUnknown, FirstRequestInFront,
                    DetachedIsClean, SendInput, Idle, loopVars
<1>3. CASE /\ UNCHANGED <<runtime, conn, up>>
           /\ \A d \in Clients : ui'[d] = "new" => ui[d] = "new"
  BY <1>0, <1>3 DEF Idle, LeaseInv, FreshUnknown, FirstRequestInFront, DetachedIsClean, loopVars
<1>4. CASE SendFails(c) \/ UpdateLast(c) \/ Kill(c) \/ StopReturns(c)
  <2>1. EndProgram(c)
    BY <1>4 DEF SendFails, UpdateLast, Kill, StopReturns
  <2> QED BY <1>3, <2>1 DEF EndProgram, LeaseInv, TypeOK
<1>5. CASE readFrames(c) \/ queueFrame(c) \/ replaceStale(c) \/ waitForFrame(c) \/ UpdateFrame(c)
  BY <1>3, <1>5 DEF readFrames, queueFrame, replaceStale, waitForFrame, UpdateFrame, wireVars
<1> QED BY <1>1, <1>2, <1>4, <1>5 DEF ClientStep

LEMMA LeaseInvariance == Spec => []LeaseInv
<1>1. Init => LeaseInv
  <2> SUFFICES ASSUME Init PROVE LeaseInv
    OBVIOUS
  <2>1. TypeOK
    BY InitTyping
  <2> QED BY <2>1 DEF Init, WireInit, ServerInit, ClientInit, LeaseInv, FreshUnknown,
                      FirstRequestInFront, DetachedIsClean, Idle
<1>2. LeaseInv /\ [Next]_vars => LeaseInv'
  <2> SUFFICES ASSUME LeaseInv, [Next]_vars PROVE LeaseInv'
    OBVIOUS
  <2>1. CASE UNCHANGED vars
    BY <2>1 DEF LeaseInv, TypeOK, FreshUnknown, FirstRequestInFront, DetachedIsClean,
                Idle, vars, wireVars, loopVars, clientVars
  <2>2. CASE Next
    BY <2>2, LeaseServer, LeaseLoop, LeaseClient DEF Next
  <2> QED BY <2>1, <2>2
<1> QED BY <1>1, <1>2, PTL DEF Spec

(* Whichever way the last client went, it left neither clipboard text nor  *)
(* transient UI behind (closePeer, model.ClientDetached).                  *)
THEOREM DetachLeavesNothing == Spec => []DetachedIsClean
BY LeaseInvariance, PTL DEF LeaseInv

(* The loop never reads and forgets the input of a live front end: a       *)
(* connection that is still a peer when its input comes up is the active   *)
(* one.                                                                    *)
THEOREM InputsCount == Spec => []NoInputIgnored
<1>1. LeaseInv => NoInputIgnored
  BY DEF LeaseInv, FirstRequestInFront, NoInputIgnored, Idle
<1> QED BY <1>1, LeaseInvariance, PTL

-----------------------------------------------------------------------------
(* Ownership.  Everything underway to a front end is its own: the screens  *)
(* and the clipboard texts of frames that are written, decoded, mailed or  *)
(* held, and the text that waits for a frame belongs to the active client. *)
OwnFrame(c, f) == OwnScreen(c, f.screen) /\ OwnText(c, f.clip)

OwnPipe(c, q) == \A i \in 1..Len(q) : OwnFrame(c, q[i])

PendingIsOwn == pendingClip # 0 => active \in Clients /\ OwnText(active, pendingClip)

HomeInv == LeaseInv /\ ShownUiIsOwn /\ ClipboardStaysHome /\ PendingIsOwn

LEMMA HomeParts ==
  ASSUME HomeInv, NEW c \in Clients
  PROVE  /\ OwnPipe(c, down[c])
         /\ OwnFrame(c, held[c]) /\ OwnFrame(c, mail[c]) /\ OwnFrame(c, reading[c])
         /\ OwnScreen(c, shown[c])
BY DEF HomeInv, ShownUiIsOwn, ClipboardStaysHome, OwnPipe, OwnFrame

LEMMA WriteOwn ==
  ASSUME NEW pipes \in [Clients -> Seq(Frame)], NEW c \in Clients, NEW f \in Frame,
         OwnFrame(c, f), \A d \in Clients : OwnPipe(d, pipes[d])
  PROVE  \A d \in Clients : OwnPipe(d, WriteFrame(pipes, c, f)[d])
<1>1. CASE Writable(c)
  <2>1. pipes[c] \in Seq(Frame) /\ WriteFrame(pipes, c, f)[c] = Append(pipes[c], f)
    BY <1>1 DEF WriteFrame
  <2>2. /\ Len(Append(pipes[c], f)) = Len(pipes[c]) + 1
        /\ \A i \in 1..Len(pipes[c]) : Append(pipes[c], f)[i] = pipes[c][i]
        /\ Append(pipes[c], f)[Len(pipes[c]) + 1] = f
    BY <2>1
  <2>3. OwnPipe(c, Append(pipes[c], f))
    BY <2>1, <2>2 DEF OwnPipe
  <2> QED BY <1>1, <2>1, <2>3 DEF WriteFrame
<1>2. CASE ~Writable(c)
  BY <1>2 DEF WriteFrame
<1> QED BY <1>1, <1>2

(* A copy adds its author at the end: no text changes its owner.           *)
LEMMA AuthorsStay ==
  ASSUME author \in Seq(Clients), NEW d \in Clients,
         author' = author \/ author' = Append(author, d)
  PROVE  \A t \in 1..Len(author) : t \in 1..Len(author') /\ author'[t] = author[t]
<1>1. CASE author' = author
  BY <1>1
<1>2. CASE author' = Append(author, d)
  <2>1. Len(author') = Len(author) + 1 /\ \A i \in 1..Len(author) : author'[i] = author[i]
    BY <1>2
  <2> QED BY <2>1
<1> QED BY <1>1, <1>2

(* What a step of the runtime has to establish.                            *)
LEMMA HomeServerStep ==
  ASSUME HomeInv, LeaseInv', UNCHANGED clientVars, NEW d \in Clients,
         author' = author \/ author' = Append(author, d),
         \A c \in Clients : OwnPipe(c, down'[c]),
         PendingIsOwn'
  PROVE  HomeInv'
<1>0. author \in Seq(Clients)
  BY DEF HomeInv, LeaseInv, TypeOK
<1>1. ShownUiIsOwn'
  BY DEF HomeInv, ShownUiIsOwn, OwnScreen, OwnPipe, OwnFrame, clientVars
<1>2. ClipboardStaysHome'
  <2> SUFFICES ASSUME NEW c \in Clients
               PROVE  /\ (\A i \in 1..Len(copies[c]) : OwnText(c, copies[c][i]))'
                      /\ OwnText(c, held[c].clip)'
                      /\ OwnText(c, mail[c].clip)'
                      /\ OwnText(c, reading[c].clip)'
                      /\ (\A i \in 1..Len(down[c]) : OwnText(c, down[c][i].clip))'
    BY DEF ClipboardStaysHome, clientVars
  <2>1. \A t \in 1..Len(author) : t \in 1..Len(author') /\ author'[t] = author[t]
    BY <1>0, AuthorsStay
  <2>2. \A i \in 1..Len(down'[c]) : OwnText(c, down'[c][i].clip)
    BY DEF OwnPipe, OwnFrame
  <2>3. /\ \A i \in 1..Len(copies[c]) : OwnText(c, copies[c][i])
        /\ OwnText(c, held[c].clip) /\ OwnText(c, mail[c].clip) /\ OwnText(c, reading[c].clip)
    BY DEF HomeInv, ClipboardStaysHome
  <2>4. UNCHANGED <<copies, held, mail, reading>>
    BY DEF clientVars
  <2>5. (\A i \in 1..Len(copies[c]) : OwnText(c, copies[c][i]))'
    BY <2>1, <2>3, <2>4 DEF OwnText
  <2>6. OwnText(c, held[c].clip)' /\ OwnText(c, mail[c].clip)' /\ OwnText(c, reading[c].clip)'
    BY <2>1, <2>3, <2>4 DEF OwnText
  <2>7. (\A i \in 1..Len(down[c]) : OwnText(c, down[c][i].clip))'
    BY <2>1, <2>2 DEF OwnText
  <2> QED BY <2>5, <2>6, <2>7
<1> QED BY <1>1, <1>2 DEF HomeInv

LEMMA HomeServer ==
  ASSUME HomeInv, NEW c \in Clients, ServerStep(c), UNCHANGED clientVars
  PROVE  HomeInv'
<1>0. LeaseInv /\ LeaseInv' /\ TypeOK /\ author \in Seq(Clients) /\ down \in [Clients -> Seq(Frame)]
  BY LeaseServer DEF HomeInv, LeaseInv, TypeOK
<1>a. \A d \in Clients : OwnPipe(d, down[d])
  BY HomeParts
<1>n. \A kind \in {"error", "stopped"} : Notice(kind) \in Frame /\ OwnFrame(c, Notice(kind))
  BY FrameTypes, <1>0 DEF Notice, OwnFrame, OwnScreen, OwnText, NoScreen
<1>v. ~stuck /\ active = c => \A kind \in {"view", "detach"} :
        View(kind, uiBy, pendingClip) \in Frame /\ OwnFrame(c, View(kind, uiBy, pendingClip))
  BY FrameTypes, <1>0 DEF View, OwnFrame, OwnScreen, HomeInv, LeaseInv, DetachedIsClean,
                          PendingIsOwn, OwnText, TypeOK
<1>c. closePeer(c) /\ author' = author => PendingIsOwn'
  BY DEF closePeer, PendingIsOwn, OwnText, HomeInv
<1>i. ~stuck
  BY DEF ServerStep, Accept, PeerGone, RejectVersion, Attach, AttachHeld, RejectInput, ApplyInput,
         ApplyQuit, Stop, Receive, Idle
<1>1. CASE Accept(c)
  BY <1>0, <1>1, <1>a, HomeServerStep DEF Accept, loopVars, HomeInv, PendingIsOwn, OwnText
<1>2. CASE PeerGone(c)
  BY <1>0, <1>2, <1>a, <1>c, HomeServerStep DEF PeerGone
<1>3. CASE RejectVersion(c)
  BY <1>0, <1>3, <1>a, <1>c, <1>n, WriteOwn, HomeServerStep DEF RejectVersion
<1>4. CASE Attach(c)
  <2>1. c # NoClient /\ NoClient \notin Clients
    BY NoClientAssumption
  <2>2. CASE displaces(c)
    <3>1. active \in Clients /\ OwnFrame(active, View("detach", uiBy, pendingClip))
          /\ View("detach", uiBy, pendingClip) \in Frame
      BY <1>0, <1>i, <2>2, FrameTypes DEF displaces, View, OwnFrame, OwnScreen, HomeInv, LeaseInv,
                               DetachedIsClean, PendingIsOwn, OwnText, TypeOK
    <3>2. View("view", NoClient, 0) \in Frame /\ OwnFrame(c, View("view", NoClient, 0))
      BY <1>0, FrameTypes DEF View, OwnFrame, OwnScreen, OwnText
    <3> DEFINE farewell == WriteFrame(down, active, View("detach", uiBy, pendingClip))
    <3>3. farewell \in [Clients -> Seq(Frame)] /\ \A d \in Clients : OwnPipe(d, farewell[d])
      BY <1>0, <1>a, <3>1, WriteFrameType, WriteOwn
    <3>4. down' = WriteFrame(farewell, c, View("view", NoClient, 0))
      BY <1>4, <2>2 DEF Attach
    <3> HIDE DEF farewell
    <3>5. \A d \in Clients : OwnPipe(d, down'[d])
      BY <3>2, <3>3, <3>4, WriteOwn
    <3> QED BY <1>0, <1>4, <3>5, HomeServerStep DEF Attach, PendingIsOwn
  <2>3. CASE ~displaces(c)
    <3>1. View("view", uiBy, pendingClip) \in Frame /\ OwnFrame(c, View("view", uiBy, pendingClip))
      BY <1>0, <1>i, <1>v, <2>3, FrameTypes DEF displaces, View, OwnFrame, OwnScreen, HomeInv, LeaseInv,
                               DetachedIsClean, PendingIsOwn, OwnText, TypeOK
    <3>2. down' = WriteFrame(down, c, View("view", uiBy, pendingClip))
      BY <1>4, <2>3 DEF Attach
    <3>3. \A d \in Clients : OwnPipe(d, down'[d])
      BY <1>0, <1>a, <3>1, <3>2, WriteOwn
    <3> QED BY <1>0, <1>4, <3>3, HomeServerStep DEF Attach, PendingIsOwn
  <2> QED BY <2>2, <2>3
<1>5. CASE RejectInput(c)
  BY <1>0, <1>5, <1>a, <1>c, <1>n, WriteOwn, HomeServerStep DEF RejectInput
<1>6. CASE ApplyInput(c)
  <2>1. author' = author \/ author' = Append(author, c)
    BY <1>6 DEF ApplyInput
  <2>2. PendingIsOwn'
    <3>1. CASE UNCHANGED <<author, pendingClip>>
      BY <1>6, <3>1 DEF ApplyInput, HomeInv, PendingIsOwn, OwnText
    <3>2. CASE author' = Append(author, c) /\ pendingClip' = Len(author) + 1
      <4>1. Len(author') = Len(author) + 1 /\ author'[Len(author) + 1] = c
        BY <1>0, <3>2
      <4> QED BY <1>0, <1>6, <3>2, <4>1 DEF ApplyInput, PendingIsOwn, OwnText
    <3> QED BY <1>6, <3>1, <3>2 DEF ApplyInput
  <2> QED BY <1>0, <1>6, <1>a, <2>1, <2>2, HomeServerStep DEF ApplyInput
<1>7. CASE ApplyQuit(c)
  BY <1>0, <1>7, <1>a, <1>c, <1>i, <1>v, WriteOwn, HomeServerStep DEF ApplyQuit
<1>8. CASE Stop(c)
  <2>1. PendingIsOwn'
    BY <1>8, <1>c DEF Stop, HomeInv, PendingIsOwn, OwnText
  <2> QED BY <1>0, <1>8, <1>a, <1>n, <2>1, WriteOwn, HomeServerStep DEF Stop
<1>9. CASE AttachHeld(c)
  <2>1. \A d \in Clients : OwnPipe(d, down'[d])
    <3>1. CASE displaces(c)
      <4>1. active \in Clients /\ OwnFrame(active, View("detach", uiBy, pendingClip))
            /\ View("detach", uiBy, pendingClip) \in Frame
        BY <1>0, <1>i, <3>1, FrameTypes DEF displaces, View, OwnFrame, OwnScreen, HomeInv, LeaseInv,
                                 DetachedIsClean, PendingIsOwn, OwnText, TypeOK
      <4> QED BY <1>0, <1>9, <1>a, <3>1, <4>1, WriteOwn DEF AttachHeld
    <3>2. CASE ~displaces(c)
      BY <1>9, <1>a, <3>2 DEF AttachHeld
    <3> QED BY <3>1, <3>2
  <2>2. author' = author /\ PendingIsOwn'
    <3>1. pendingClip' = 0 \/ (active' = c /\ pendingClip' = pendingClip /\ ~displaces(c))
      BY <1>9 DEF AttachHeld
    <3>2. ~displaces(c) /\ pendingClip # 0 => active = c
      BY <1>0 DEF displaces, LeaseInv, DetachedIsClean
    <3> QED BY <1>9, <3>1, <3>2 DEF AttachHeld, HomeInv, PendingIsOwn, OwnText
  <2> QED BY <1>0, <2>1, <2>2, HomeServerStep
<1> QED BY <1>1, <1>2, <1>3, <1>4, <1>5, <1>6, <1>7, <1>8, <1>9 DEF ServerStep

LEMMA HomeLoop ==
  ASSUME HomeInv, LoopStep, UNCHANGED clientVars, NEW c \in Clients
  PROVE  HomeInv'
<1>0. LeaseInv /\ LeaseInv' /\ TypeOK /\ author \in Seq(Clients) /\ down \in [Clients -> Seq(Frame)]
  BY LeaseLoop DEF HomeInv, LeaseInv, TypeOK
<1>a. \A d \in Clients : OwnPipe(d, down[d])
  BY HomeParts
<1>1. CASE Shutdown
  BY <1>0, <1>1, <1>a, HomeServerStep DEF Shutdown, loopVars, HomeInv, PendingIsOwn, OwnText
<1>2. CASE ModelEvent
  BY <1>0, <1>2, <1>a, HomeServerStep DEF ModelEvent, wireVars, HomeInv, PendingIsOwn, OwnText
<1>3. CASE Tick
  <2>1. active \in Clients /\ ~stuck
    BY <1>0, <1>3 DEF Tick, Idle, TypeOK
  <2>2. View("view", uiBy, pendingClip) \in Frame /\ OwnFrame(active, View("view", uiBy, pendingClip))
    BY <1>0, <2>1, FrameTypes DEF View, OwnFrame, OwnScreen, HomeInv, LeaseInv, DetachedIsClean,
                                  PendingIsOwn, OwnText, TypeOK
  <2>3. \A d \in Clients : OwnPipe(d, down'[d])
    BY <1>0, <1>3, <1>a, <2>1, <2>2, WriteOwn DEF Tick, sendView
  <2>4. pendingClip' = 0
    <3>1. CASE Writable(active)
      BY <1>3, <3>1 DEF Tick, sendView
    <3>2. CASE ~Writable(active)
      BY <1>3, <3>2 DEF Tick, sendView, closePeer
    <3> QED BY <3>1, <3>2
  <2>5. author' = author /\ PendingIsOwn'
    BY <1>3, <2>4 DEF Tick, PendingIsOwn
  <2> QED BY <1>0, <2>3, <2>5, HomeServerStep
<1>4. CASE Hold
  BY <1>0, <1>4, <1>a, HomeServerStep DEF Hold, wireVars, HomeInv, PendingIsOwn, OwnText
<1> QED BY <1>1, <1>2, <1>3, <1>4 DEF LoopStep

(* A front end moves its own frames along, and never touches another's.    *)
LEMMA HomeClientStep ==
  ASSUME HomeInv, LeaseInv', UNCHANGED loopVars, NEW c \in Clients,
         \A d \in Clients \ {c} : /\ down'[d] = down[d] /\ reading'[d] = reading[d]
                                 /\ mail'[d] = mail[d] /\ held'[d] = held[d]
                                 /\ shown'[d] = shown[d] /\ copies'[d] = copies[d],
         OwnPipe(c, down'[c]),
         OwnFrame(c, held'[c]), OwnFrame(c, mail'[c]), OwnFrame(c, reading'[c]),
         OwnScreen(c, shown'[c]),
         \A i \in 1..Len(copies'[c]) : OwnText(c, copies'[c][i])
  PROVE  HomeInv'
<1>1. UNCHANGED <<author, active, pendingClip>>
  BY DEF loopVars
<1>2. ShownUiIsOwn'
  BY DEF HomeInv, ShownUiIsOwn, OwnScreen, OwnPipe, OwnFrame
<1>3. ClipboardStaysHome'
  BY <1>1 DEF HomeInv, ClipboardStaysHome, OwnText, OwnPipe, OwnFrame
<1>4. PendingIsOwn'
  BY <1>1 DEF HomeInv, PendingIsOwn, OwnText
<1> QED BY <1>2, <1>3, <1>4 DEF HomeInv

LEMMA OwnTail ==
  ASSUME NEW c, NEW q \in Seq(Frame), q # <<>>, OwnPipe(c, q)
  PROVE  OwnFrame(c, Head(q)) /\ OwnPipe(c, Tail(q))
<1>1. /\ Len(q) \in Nat /\ Len(q) >= 1 /\ Head(q) = q[1]
      /\ Len(Tail(q)) = Len(q) - 1 /\ \A i \in 1..Len(Tail(q)) : Tail(q)[i] = q[i + 1]
  BY HeadTailProperties, EmptySeq
<1> QED BY <1>1 DEF OwnPipe

LEMMA OwnNothing ==
  ASSUME NEW c
  PROVE  /\ OwnFrame(c, Empty) /\ OwnFrame(c, EndOfStream) /\ OwnScreen(c, NoScreen)
         /\ OwnPipe(c, <<>>)
BY ResultTypes DEF OwnFrame, OwnScreen, OwnText, OwnPipe

LEMMA HomeClient ==
  ASSUME HomeInv, NEW c \in Clients, ClientStep(c), UNCHANGED loopVars
  PROVE  HomeInv'
<1>0. LeaseInv /\ LeaseInv' /\ TypeOK
  BY LeaseClient DEF HomeInv, LeaseInv
<1>t. /\ down \in [Clients -> Seq(Frame)] /\ reading \in [Clients -> Results \cup {Empty}]
      /\ mail \in [Clients -> Results \cup {Empty}] /\ held \in [Clients -> Results \cup {Empty}]
      /\ shown \in [Clients -> Screen] /\ copies \in [Clients -> Seq(Nat)]
  BY <1>0 DEF TypeOK
<1>a. /\ OwnPipe(c, down[c]) /\ OwnFrame(c, held[c]) /\ OwnFrame(c, mail[c])
      /\ OwnFrame(c, reading[c]) /\ OwnScreen(c, shown[c])
      /\ \A i \in 1..Len(copies[c]) : OwnText(c, copies[c][i])
  BY HomeParts DEF HomeInv, ClipboardStaysHome
<1>1. CASE UNCHANGED <<down, reading, mail, held, shown, copies>>
  BY <1>0, <1>a, <1>1, HomeClientStep
<1>2. ASSUME EndProgram(c)
      PROVE  HomeInv'
  BY <1>0, <1>t, <1>a, <1>2, OwnNothing, HomeClientStep DEF EndProgram
<1>3. CASE readFrames(c)
  <2>1. CASE down[c] # <<>>
    <3>1. OwnFrame(c, Head(down[c])) /\ OwnPipe(c, Tail(down[c]))
      BY <1>t, <1>a, <2>1, OwnTail
    <3> QED BY <1>0, <1>t, <1>a, <1>3, <2>1, <3>1, HomeClientStep DEF readFrames
  <2>2. CASE down[c] = <<>>
    BY <1>0, <1>t, <1>a, <1>3, <2>2, OwnNothing, HomeClientStep DEF readFrames
  <2> QED BY <2>1, <2>2
<1>4. CASE queueFrame(c)
  BY <1>0, <1>t, <1>a, <1>4, OwnNothing, HomeClientStep DEF queueFrame, wireVars
<1>5. CASE replaceStale(c)
  <2>1. OwnFrame(c, mergeFrameSideEffects(mail[c], reading[c]))
    <3>1. reading[c] \in Results /\ (reading[c].kind # "eof" => reading[c] \in Frame)
      BY <1>t, <1>5, ResultTypes DEF replaceStale, Results
    <3>2. ASSUME NEW f \in Frame, NEW t \in Nat, OwnScreen(c, f.screen), OwnText(c, t)
          PROVE  OwnFrame(c, [f EXCEPT !.clip = t])
      BY <3>2 DEF OwnFrame, Frame
    <3>3. mail[c].clip \in Nat
      BY <1>t, ResultTypes
    <3> QED BY <1>a, <3>1, <3>2, <3>3 DEF mergeFrameSideEffects, OwnFrame
  <2> QED BY <1>0, <1>t, <1>a, <1>5, <2>1, OwnNothing, HomeClientStep DEF replaceStale, wireVars
<1>6. CASE waitForFrame(c)
  BY <1>0, <1>t, <1>a, <1>6, OwnNothing, HomeClientStep DEF waitForFrame, wireVars
<1>7. CASE UpdateFrame(c)
  <2>1. \A i \in 1..Len(copies'[c]) : OwnText(c, copies'[c][i])
    <3>1. CASE held[c].clip # 0
      <4>1. copies[c] \in Seq(Nat) /\ copies'[c] = Append(copies[c], held[c].clip)
        BY <1>t, <1>7, <3>1 DEF UpdateFrame
      <4>2. /\ Len(copies'[c]) = Len(copies[c]) + 1 /\ copies'[c][Len(copies[c]) + 1] = held[c].clip
            /\ \A i \in 1..Len(copies[c]) : copies'[c][i] = copies[c][i]
        BY <4>1
      <4> QED BY <1>a, <4>1, <4>2 DEF OwnFrame
    <3>2. CASE held[c].clip = 0
      BY <1>t, <1>a, <1>7, <3>2 DEF UpdateFrame
    <3> QED BY <3>1, <3>2
  <2>2. OwnScreen(c, shown'[c]) /\ OwnFrame(c, held'[c]) /\ UNCHANGED <<down, reading, mail>>
    BY <1>t, <1>a, <1>7, OwnNothing DEF UpdateFrame, OwnFrame, wireVars
  <2>3. \A d \in Clients \ {c} : held'[d] = held[d] /\ shown'[d] = shown[d] /\ copies'[d] = copies[d]
    BY <1>t, <1>7 DEF UpdateFrame
  <2> QED BY <1>0, <1>a, <2>1, <2>2, <2>3, HomeClientStep
<1>8. CASE \/ SendFails(c) \/ UpdateLast(c) \/ Kill(c) \/ StopReturns(c)
  BY <1>2, <1>8 DEF SendFails, UpdateLast, Kill, StopReturns
<1>9. ASSUME \/ \E role \in {"running", "waiting"}, first \in Requests : Dial(c, role, first)
             \/ \E kind \in Inputs : SendInput(c, kind)
      PROVE  HomeInv'
  BY <1>1, <1>9 DEF Dial, SendInput, readerVars
<1> QED BY <1>3, <1>4, <1>5, <1>6, <1>7, <1>8, <1>9 DEF ClientStep, Requests

LEMMA HomeStart == Init => HomeInv
<1> SUFFICES ASSUME Init PROVE HomeInv
  OBVIOUS
<1>1. TypeOK
  BY InitTyping
<1>2. LeaseInv
  BY <1>1 DEF Init, WireInit, ServerInit, ClientInit, LeaseInv, FreshUnknown,
              FirstRequestInFront, DetachedIsClean, Idle
<1>a. \A c \in Clients : /\ down[c] = <<>> /\ copies[c] = <<>> /\ shown[c] = NoScreen
                          /\ held[c] = Empty /\ mail[c] = Empty /\ reading[c] = Empty
  BY DEF Init, WireInit, ClientInit
<1>b. \A c \in Clients : 1..Len(down[c]) = {} /\ 1..Len(copies[c]) = {}
  <2>1. 1..Len(<<>>) = {}
    BY EmptySeq
  <2> QED BY <1>a, <2>1
<1>c. \A c \in Clients : /\ OwnFrame(c, held[c]) /\ OwnFrame(c, mail[c])
                          /\ OwnFrame(c, reading[c]) /\ OwnScreen(c, shown[c])
  BY <1>a, OwnNothing
<1>3. ShownUiIsOwn
  BY <1>b, <1>c DEF ShownUiIsOwn, OwnFrame
<1>4. ClipboardStaysHome
  BY <1>b, <1>c DEF ClipboardStaysHome, OwnFrame
<1> QED BY <1>2, <1>3, <1>4 DEF Init, ServerInit, HomeInv, PendingIsOwn

LEMMA HomeStep == HomeInv /\ [Next]_vars => HomeInv'
<1> SUFFICES ASSUME HomeInv, [Next]_vars PROVE HomeInv'
  OBVIOUS
<1>1. CASE UNCHANGED vars
  <2>1. LeaseInv'
    BY <1>1 DEF HomeInv, LeaseInv, TypeOK, FreshUnknown, FirstRequestInFront, DetachedIsClean,
                Idle, vars, wireVars, loopVars, clientVars
  <2> QED BY <1>1, <2>1 DEF HomeInv, ShownUiIsOwn, ClipboardStaysHome, PendingIsOwn, OwnScreen,
                            OwnText, vars, wireVars, loopVars, clientVars
<1>2. CASE Next
  <2>1. CASE \E c \in Clients : ServerStep(c) /\ UNCHANGED clientVars
    BY <2>1, HomeServer
  <2>2. CASE LoopStep /\ UNCHANGED clientVars
    <3>1. CASE Clients = {}
      BY <2>2, <3>1, LeaseLoop DEF HomeInv, ShownUiIsOwn, ClipboardStaysHome, PendingIsOwn,
            LeaseInv, TypeOK, DetachedIsClean
    <3>2. CASE Clients # {}
      BY <2>2, <3>2, HomeLoop
    <3> QED BY <3>1, <3>2
  <2>3. CASE \E c \in Clients : ClientStep(c) /\ UNCHANGED loopVars
    BY <2>3, HomeClient
  <2> QED BY <1>2, <2>1, <2>2, <2>3 DEF Next
<1> QED BY <1>1, <1>2

LEMMA HomeInvariance == Spec => []HomeInv
BY HomeStart, HomeStep, PTL DEF Spec

(* One user's menus, dialogs and selections are never drawn for another    *)
(* (Attach renders the newcomer's screen after ClientDetached).            *)
THEOREM UiStaysHome == Spec => []ShownUiIsOwn
BY HomeInvariance, PTL DEF HomeInv

(* A text copied in one terminal reaches no other terminal's clipboard,    *)
(* for any number of front ends that take over, quit, hang up or die.      *)
THEOREM ClipboardSafety == Spec => []ClipboardStaysHome
BY HomeInvariance, PTL DEF HomeInv

-----------------------------------------------------------------------------
(* Order.  The texts of one front end are in the order they were copied,   *)
(* all along their way: those applied, then the one held, the one in the   *)
(* mailbox, the one decoded, those on the wire, and the one that waits.    *)
Before(a, b) == a # 0 /\ b # 0 => a < b

Ordered(applied, h, m, r, wire, p) ==
  /\ \A i, j \in 1..Len(applied) : i < j => applied[i] < applied[j]
  /\ \A i \in 1..Len(applied) :
       /\ applied[i] # 0
       /\ Before(applied[i], h) /\ Before(applied[i], m) /\ Before(applied[i], r)
       /\ Before(applied[i], p) /\ \A k \in 1..Len(wire) : Before(applied[i], wire[k].clip)
  /\ Before(h, m) /\ Before(h, r) /\ Before(h, p)
  /\ Before(m, r) /\ Before(m, p) /\ Before(r, p)
  /\ \A k \in 1..Len(wire) :
       /\ Before(h, wire[k].clip) /\ Before(m, wire[k].clip) /\ Before(r, wire[k].clip)
       /\ Before(wire[k].clip, p)
  /\ \A j, k \in 1..Len(wire) : j < k => Before(wire[j].clip, wire[k].clip)

LEMMA OrderForget ==
  ASSUME NEW applied, NEW h, NEW m, NEW r, NEW wire, NEW p, Ordered(applied, h, m, r, wire, p)
  PROVE  Ordered(applied, h, m, r, wire, 0)
BY DEF Ordered, Before

LEMMA OrderWrite ==
  ASSUME NEW applied \in Seq(Nat), NEW h \in Nat, NEW m \in Nat, NEW r \in Nat,
         NEW wire \in Seq(Frame), NEW p \in Nat, NEW f \in Frame, f.clip \in {p, 0}, NEW q \in {p, 0},
         f.clip = 0 \/ q = 0,
         Ordered(applied, h, m, r, wire, p)
  PROVE  Ordered(applied, h, m, r, Append(wire, f), q)
<1>1. /\ Len(wire) \in Nat /\ Len(Append(wire, f)) = Len(wire) + 1
      /\ Append(wire, f)[Len(wire) + 1] = f
      /\ \A k \in 1..Len(wire) : Append(wire, f)[k] = wire[k]
  OBVIOUS
<1> DEFINE longer == Append(wire, f)
<1>2. /\ Len(longer) = Len(wire) + 1 /\ longer[Len(wire) + 1] = f
      /\ \A k \in 1..Len(wire) : longer[k] = wire[k]
      /\ \A k \in 1..Len(longer) : k \in 1..Len(wire) \/ k = Len(wire) + 1
  BY <1>1
<1> HIDE DEF longer
<1>3. Ordered(applied, h, m, r, longer, q)
  <2>1. \A i, j \in 1..Len(applied) : i < j => applied[i] < applied[j]
    BY <1>2 DEF Ordered, Before
  <2>2. \A i \in 1..Len(applied) :
          /\ applied[i] # 0
          /\ Before(applied[i], h) /\ Before(applied[i], m) /\ Before(applied[i], r)
          /\ Before(applied[i], q) /\ \A k \in 1..Len(longer) : Before(applied[i], longer[k].clip)
    BY <1>2 DEF Ordered, Before
  <2>3. /\ Before(h, m) /\ Before(h, r) /\ Before(h, q)
        /\ Before(m, r) /\ Before(m, q) /\ Before(r, q)
    BY <1>2 DEF Ordered, Before
  <2>4. \A k \in 1..Len(longer) :
          /\ Before(h, longer[k].clip) /\ Before(m, longer[k].clip) /\ Before(r, longer[k].clip)
          /\ Before(longer[k].clip, q)
    BY <1>2 DEF Ordered, Before
  <2>5. \A j, k \in 1..Len(longer) : j < k => Before(longer[j].clip, longer[k].clip)
    <3> SUFFICES ASSUME NEW j \in 1..Len(longer), NEW k \in 1..Len(longer), j < k
                 PROVE  Before(longer[j].clip, longer[k].clip)
      OBVIOUS
    <3>1. j \in 1..Len(wire) /\ longer[j] = wire[j]
      BY <1>1, <1>2
    <3>2. Before(wire[j].clip, p)
      BY <3>1 DEF Ordered
    <3>3. CASE k \in 1..Len(wire)
      BY <1>2, <3>1, <3>3 DEF Ordered
    <3>4. CASE k = Len(wire) + 1
      BY <1>2, <3>1, <3>2, <3>4 DEF Before
    <3> QED BY <1>2, <3>3, <3>4
  <2> QED BY <2>1, <2>2, <2>3, <2>4, <2>5 DEF Ordered
<1> QED BY <1>3 DEF longer

LEMMA OrderCopy ==
  ASSUME NEW applied \in Seq(Nat), NEW h \in Nat, NEW m \in Nat, NEW r \in Nat,
         NEW wire \in Seq(Frame), NEW p \in Nat, NEW n \in Nat,
         Ordered(applied, h, m, r, wire, p), h <= n, m <= n, r <= n,
         \A i \in 1..Len(applied) : applied[i] <= n,
         \A k \in 1..Len(wire) : wire[k].clip <= n
  PROVE  Ordered(applied, h, m, r, wire, n + 1)
<1>1. /\ \A i \in 1..Len(applied) : applied[i] \in Nat
      /\ \A k \in 1..Len(wire) : wire[k].clip \in Nat
      /\ n + 1 \in Nat /\ \A x \in Nat : x <= n => x < n + 1
  <2>1. \A k \in 1..Len(wire) : wire[k] \in Frame
    BY ElementOfSeq
  <2>2. \A f \in Frame : f.clip \in Nat
    BY DEF Frame
  <2> QED BY <2>1, <2>2, ElementOfSeq
<1>2. Ordered(applied, h, m, r, wire, n + 1)
  <2>1. \A i, j \in 1..Len(applied) : i < j => applied[i] < applied[j]
    BY <1>1 DEF Ordered, Before
  <2>2. \A i \in 1..Len(applied) :
          /\ applied[i] # 0
          /\ Before(applied[i], h) /\ Before(applied[i], m) /\ Before(applied[i], r)
          /\ Before(applied[i], (n + 1)) /\ \A k \in 1..Len(wire) : Before(applied[i], wire[k].clip)
    BY <1>1 DEF Ordered, Before
  <2>3. /\ Before(h, m) /\ Before(h, r) /\ Before(h, n + 1)
        /\ Before(m, r) /\ Before(m, (n + 1)) /\ Before(r, (n + 1))
    BY <1>1 DEF Ordered, Before
  <2>4. \A k \in 1..Len(wire) :
          /\ Before(h, wire[k].clip) /\ Before(m, wire[k].clip) /\ Before(r, wire[k].clip)
          /\ Before(wire[k].clip, (n + 1))
    BY <1>1 DEF Ordered, Before
  <2>5. \A j, k \in 1..Len(wire) : j < k => Before(wire[j].clip, wire[k].clip)
    BY <1>1 DEF Ordered, Before
  <2> QED BY <2>1, <2>2, <2>3, <2>4, <2>5 DEF Ordered
<1> QED BY <1>2

LEMMA OrderRead ==
  ASSUME NEW applied \in Seq(Nat), NEW h \in Nat, NEW m \in Nat,
         NEW wire \in Seq(Frame), NEW p \in Nat, wire # <<>>,
         Ordered(applied, h, m, 0, wire, p)
  PROVE  Ordered(applied, h, m, Head(wire).clip, Tail(wire), p)
<1>1. /\ Len(wire) \in Nat /\ Len(wire) >= 1 /\ Head(wire) = wire[1]
      /\ Len(Tail(wire)) = Len(wire) - 1 /\ \A i \in 1..Len(Tail(wire)) : Tail(wire)[i] = wire[i + 1]
  BY HeadTailProperties, EmptySeq
<1>2. /\ 1 \in 1..Len(wire)
      /\ \A i \in 1..Len(Tail(wire)) : i + 1 \in 1..Len(wire) /\ 1 < i + 1
  BY <1>1
<1> DEFINE rest == Tail(wire)
           r == Head(wire).clip
<1>3. /\ r = wire[1].clip /\ Len(rest) = Len(wire) - 1
      /\ \A i \in 1..Len(rest) : rest[i] = wire[i + 1] /\ i + 1 \in 1..Len(wire) /\ 1 < i + 1
      /\ \A i, j \in 1..Len(rest) : i < j => i + 1 < j + 1
  BY <1>1, <1>2
<1> HIDE DEF rest, r
<1>4. Ordered(applied, h, m, r, rest, p)
  <2>1. \A i, j \in 1..Len(applied) : i < j => applied[i] < applied[j]
    BY <1>2, <1>3 DEF Ordered
  <2>2. \A i \in 1..Len(applied) :
          /\ applied[i] # 0
          /\ Before(applied[i], h) /\ Before(applied[i], m) /\ Before(applied[i], r)
          /\ Before(applied[i], p) /\ \A k \in 1..Len(rest) : Before(applied[i], rest[k].clip)
    BY <1>2, <1>3 DEF Ordered
  <2>3. /\ Before(h, m) /\ Before(h, r) /\ Before(h, p)
        /\ Before(m, r) /\ Before(m, p) /\ Before(r, p)
    BY <1>2, <1>3 DEF Ordered
  <2>4. \A k \in 1..Len(rest) :
          /\ Before(h, rest[k].clip) /\ Before(m, rest[k].clip) /\ Before(r, rest[k].clip)
          /\ Before(rest[k].clip, p)
    BY <1>2, <1>3 DEF Ordered
  <2>5. \A j, k \in 1..Len(rest) : j < k => Before(rest[j].clip, rest[k].clip)
    BY <1>2, <1>3 DEF Ordered
  <2> QED BY <2>1, <2>2, <2>3, <2>4, <2>5 DEF Ordered
<1> QED BY <1>4 DEF rest, r

LEMMA OrderMove ==
  ASSUME NEW applied, NEW h, NEW m, NEW r, NEW wire, NEW p, Ordered(applied, h, m, r, wire, p)
  PROVE  /\ m = 0 => Ordered(applied, h, r, 0, wire, p)
         /\ Ordered(applied, h, 0, r, wire, p)
         /\ r = 0 => Ordered(applied, h, 0, m, wire, p)
         /\ h = 0 => Ordered(applied, m, 0, r, wire, p)
         /\ h = 0 => Ordered(applied, h, m, r, wire, p)
         /\ Ordered(applied, 0, m, r, wire, p)
BY DEF Ordered, Before

LEMMA OrderShow ==
  ASSUME NEW applied \in Seq(Nat), NEW h \in Nat \ {0}, NEW m, NEW r, NEW wire, NEW p,
         Ordered(applied, h, m, r, wire, p)
  PROVE  Ordered(Append(applied, h), 0, m, r, wire, p)
<1>1. /\ Len(applied) \in Nat /\ Len(Append(applied, h)) = Len(applied) + 1
      /\ Append(applied, h)[Len(applied) + 1] = h
      /\ \A k \in 1..Len(applied) : Append(applied, h)[k] = applied[k]
  OBVIOUS
<1> DEFINE longer == Append(applied, h)
<1>2. /\ Len(longer) = Len(applied) + 1 /\ longer[Len(applied) + 1] = h
      /\ \A k \in 1..Len(applied) : longer[k] = applied[k]
      /\ \A k \in 1..Len(longer) : k \in 1..Len(applied) \/ k = Len(applied) + 1
  BY <1>1
<1> HIDE DEF longer
<1>3. Ordered(longer, 0, m, r, wire, p)
  <2>1. \A i, j \in 1..Len(longer) : i < j => longer[i] < longer[j]
    BY <1>2 DEF Ordered, Before
  <2>2. \A i \in 1..Len(longer) :
          /\ longer[i] # 0
          /\ Before(longer[i], 0) /\ Before(longer[i], m) /\ Before(longer[i], r)
          /\ Before(longer[i], p) /\ \A k \in 1..Len(wire) : Before(longer[i], wire[k].clip)
    BY <1>2 DEF Ordered, Before
  <2>3. /\ Before(0, m) /\ Before(0, r) /\ Before(0, p)
        /\ Before(m, r) /\ Before(m, p) /\ Before(r, p)
    BY <1>2 DEF Ordered, Before
  <2>4. \A k \in 1..Len(wire) :
          /\ Before(0, wire[k].clip) /\ Before(m, wire[k].clip) /\ Before(r, wire[k].clip)
          /\ Before(wire[k].clip, p)
    BY <1>2 DEF Ordered, Before
  <2>5. \A j, k \in 1..Len(wire) : j < k => Before(wire[j].clip, wire[k].clip)
    BY <1>2 DEF Ordered, Before
  <2> QED BY <2>1, <2>2, <2>3, <2>4, <2>5 DEF Ordered
<1> QED BY <1>3 DEF longer

LEMMA OrderEnd ==
  ASSUME NEW applied, NEW h, NEW m, NEW r, NEW wire, NEW p, Ordered(applied, h, m, r, wire, p)
  PROVE  Ordered(applied, 0, 0, 0, <<>>, p)
<1>1. 1..Len(<<>>) = {}
  BY EmptySeq
<1> QED BY <1>1 DEF Ordered, Before

Pending(c) == IF active = c THEN pendingClip ELSE 0

OrderedFor(c) ==
  Ordered(copies[c], held[c].clip, mail[c].clip, reading[c].clip, down[c], Pending(c))

OrderInv == HomeInv /\ \A c \in Clients : OrderedFor(c)

LEMMA OrderTypes ==
  ASSUME TypeOK, NEW d \in Clients
  PROVE  /\ copies[d] \in Seq(Nat) /\ held[d].clip \in Nat /\ mail[d].clip \in Nat
         /\ reading[d].clip \in Nat /\ down[d] \in Seq(Frame) /\ Pending(d) \in Nat
BY ResultTypes DEF TypeOK, Pending

(* What a step of the runtime may do to the way of one front end: nothing, *)
(* forget the waiting text, write one frame that carries it or none, or    *)
(* let a newer text wait.                                                  *)
WayAhead(d) ==
  \/ down'[d] = down[d] /\ Pending(d)' \in {Pending(d), 0}
  \/ down'[d] = down[d] /\ Pending(d)' = Len(author) + 1
  \/ \E f \in Frame : /\ down'[d] = Append(down[d], f) /\ f.clip \in {Pending(d), 0}
                      /\ Pending(d)' \in {Pending(d), 0} /\ (f.clip = 0 \/ Pending(d)' = 0)

LEMMA OrderServerStep ==
  ASSUME OrderInv, HomeInv', UNCHANGED clientVars, \A d \in Clients : WayAhead(d)
  PROVE  OrderInv'
<1> SUFFICES ASSUME NEW d \in Clients PROVE OrderedFor(d)'
  BY DEF OrderInv
<1>0. TypeOK
  BY DEF OrderInv, HomeInv, LeaseInv
<1>t. /\ copies[d] \in Seq(Nat) /\ held[d].clip \in Nat /\ mail[d].clip \in Nat
      /\ reading[d].clip \in Nat /\ down[d] \in Seq(Frame) /\ Pending(d) \in Nat
  BY <1>0, OrderTypes
<1>1. Ordered(copies[d], held[d].clip, mail[d].clip, reading[d].clip, down[d], Pending(d))
  BY DEF OrderInv, OrderedFor
<1>2. UNCHANGED <<copies, held, mail, reading>>
  BY DEF clientVars
<1> SUFFICES Ordered(copies[d], held[d].clip, mail[d].clip, reading[d].clip, down'[d], Pending(d)')
  BY <1>2 DEF OrderedFor
<1> DEFINE later == Pending(d)'
           pipe == down'[d]
<1>3. CASE pipe = down[d] /\ later \in {Pending(d), 0}
  BY <1>1, <1>3, OrderForget
<1>4. ASSUME pipe = down[d], later = Len(author) + 1
      PROVE  Ordered(copies[d], held[d].clip, mail[d].clip, reading[d].clip, pipe, later)
  <2>1. /\ \A i \in 1..Len(copies[d]) : copies[d][i] <= Len(author)
        /\ held[d].clip <= Len(author) /\ mail[d].clip <= Len(author)
        /\ reading[d].clip <= Len(author)
        /\ \A k \in 1..Len(down[d]) : down[d][k].clip <= Len(author)
    <3>1. author \in Seq(Clients) /\ Len(author) \in Nat
      BY <1>0 DEF TypeOK
    <3>2. \A t : OwnText(d, t) => t <= Len(author)
      BY <3>1 DEF OwnText
    <3> QED BY <3>2 DEF OrderInv, HomeInv, ClipboardStaysHome
  <2>2. Len(author) \in Nat
    BY <1>0 DEF TypeOK
  <2>3. Ordered(copies[d], held[d].clip, mail[d].clip, reading[d].clip, down[d], Len(author) + 1)
    BY <1>1, <1>t, <2>1, <2>2, OrderCopy
  <2> HIDE DEF later, pipe
  <2> QED BY <1>4, <2>3
<1>5. ASSUME NEW f \in Frame, pipe = Append(down[d], f), f.clip \in {Pending(d), 0},
             later \in {Pending(d), 0}, f.clip = 0 \/ later = 0
      PROVE  Ordered(copies[d], held[d].clip, mail[d].clip, reading[d].clip, pipe, later)
  <2> HIDE DEF later, pipe
  <2> QED BY <1>1, <1>t, <1>5, OrderWrite
<1> QED BY <1>3, <1>4, <1>5 DEF WayAhead

LEMMA WayAheadWrite ==
  ASSUME TypeOK, NEW c \in Clients, NEW f \in Frame, down' = WriteFrame(down, c, f),
         f.clip \in {Pending(c), 0},
         \A d \in Clients : Pending(d)' \in {Pending(d), 0},
         f.clip = 0 \/ Pending(c)' = 0 \/ ~Writable(c)
  PROVE  \A d \in Clients : WayAhead(d)
<1>1. \A d \in Clients : d # c => down'[d] = down[d]
  BY DEF WriteFrame, TypeOK
<1>2. CASE Writable(c)
  BY <1>1, <1>2 DEF WriteFrame, TypeOK, WayAhead
<1>3. CASE ~Writable(c)
  BY <1>1, <1>3 DEF WriteFrame, WayAhead
<1> QED BY <1>2, <1>3

LEMMA OrderServer ==
  ASSUME OrderInv, NEW c \in Clients, ServerStep(c), UNCHANGED clientVars
  PROVE  OrderInv'
<1>0. HomeInv /\ HomeInv' /\ TypeOK /\ DetachedIsClean /\ NoClient \notin Clients
  BY HomeServer, NoClientAssumption DEF OrderInv, HomeInv, LeaseInv
<1>n. \A kind \in {"error", "stopped"} : Notice(kind) \in Frame /\ Notice(kind).clip = 0
  BY FrameTypes, <1>0 DEF Notice
<1>v. \A who \in Clients \cup {NoClient}, clip \in Nat, kind \in {"view", "detach"} :
        View(kind, who, clip) \in Frame /\ View(kind, who, clip).clip = clip
  BY FrameTypes, <1>0 DEF View
<1>c. closePeer(c) => \A d \in Clients : /\ Pending(d)' \in {Pending(d), 0}
                                         /\ (active = c => Pending(d)' = 0)
  BY <1>0 DEF closePeer, Pending
<1>u. uiBy \in Clients \cup {NoClient} /\ pendingClip \in Nat
  BY <1>0 DEF TypeOK
<1>1. CASE Accept(c)
  BY <1>0, <1>1, OrderServerStep DEF Accept, loopVars, WayAhead, Pending
<1>2. CASE PeerGone(c)
  BY <1>0, <1>2, <1>c, OrderServerStep DEF PeerGone, WayAhead
<1>3. CASE RejectVersion(c)
  BY <1>0, <1>3, <1>n, <1>c, WayAheadWrite, OrderServerStep DEF RejectVersion
<1>4. CASE Attach(c)
  <2>1. \A d \in Clients : Pending(d)' = 0
    BY <1>4 DEF Attach, Pending
  <2>2. CASE displaces(c)
    <3> DEFINE farewell == WriteFrame(down, active, View("detach", uiBy, pendingClip))
    <3>1. active \in Clients /\ active # c /\ View("detach", uiBy, pendingClip) \in Frame
      BY <1>0, <1>u, <1>v, <2>2 DEF displaces, TypeOK
    <3>2. down' = WriteFrame(farewell, c, View("view", NoClient, 0))
      BY <1>4, <2>2 DEF Attach
    <3>3. farewell \in [Clients -> Seq(Frame)]
      BY <1>0, <3>1, WriteFrameType DEF TypeOK
    <3>4. /\ \A d \in Clients : d # active => farewell[d] = down[d]
          /\ farewell[active] \in {down[active], Append(down[active], View("detach", uiBy, pendingClip))}
      BY <1>0, <3>1 DEF WriteFrame, TypeOK
    <3> HIDE DEF farewell
    <3>5. /\ \A d \in Clients : d # c => down'[d] = farewell[d]
          /\ down'[c] \in {farewell[c], Append(farewell[c], View("view", NoClient, 0))}
      BY <3>2, <3>3 DEF WriteFrame
    <3> DEFINE first == View("view", NoClient, 0)
    <3>f. first \in Frame /\ first.clip = 0 /\ farewell[c] = down[c]
      BY <1>v, <3>1, <3>4
    <3>g. down'[c] = down[c] \/ down'[c] = Append(down[c], first)
      BY <3>5, <3>f
    <3> HIDE DEF first
    <3>6. WayAhead(c)
      BY <2>1, <3>f, <3>g DEF WayAhead
    <3>7. ASSUME NEW d \in Clients, d = active PROVE WayAhead(d)
      <4> DEFINE last == View("detach", uiBy, pendingClip)
      <4>1. last \in Frame /\ last.clip = Pending(d)
        BY <1>u, <1>v, <3>1, <3>7 DEF Pending
      <4>2. down'[d] = down[d] \/ down'[d] = Append(down[d], last)
        BY <3>1, <3>4, <3>5, <3>7
      <4> HIDE DEF last
      <4> QED BY <2>1, <4>1, <4>2 DEF WayAhead
    <3>8. \A d \in Clients : d # c /\ d # active => WayAhead(d)
      BY <2>1, <3>4, <3>5 DEF WayAhead
    <3> QED BY <1>0, <3>6, <3>7, <3>8, OrderServerStep DEF Attach
  <2>3. CASE ~displaces(c)
    <3>1. down' = WriteFrame(down, c, View("view", uiBy, pendingClip))
      BY <1>4, <2>3 DEF Attach
    <3>2. pendingClip = Pending(c)
      BY <1>0, <2>3 DEF displaces, Pending, DetachedIsClean
    <3> QED BY <1>0, <1>u, <1>v, <2>1, <3>1, <3>2, WayAheadWrite, OrderServerStep
  <2> QED BY <2>2, <2>3
<1>5. CASE RejectInput(c)
  BY <1>0, <1>5, <1>n, <1>c, WayAheadWrite, OrderServerStep DEF RejectInput
<1>6. CASE ApplyInput(c)
  BY <1>0, <1>6, OrderServerStep DEF ApplyInput, WayAhead, Pending
<1>7. CASE ApplyQuit(c)
  <2>1. pendingClip = Pending(c)
    BY <1>7 DEF ApplyQuit, Pending
  <2> QED BY <1>0, <1>7, <1>c, <1>u, <1>v, <2>1, WayAheadWrite, OrderServerStep DEF ApplyQuit
<1>8. CASE Stop(c)
  <2>1. \A d \in Clients : Pending(d)' \in {Pending(d), 0}
    BY <1>8, <1>c DEF Stop, Pending
  <2> QED BY <1>0, <1>8, <1>n, <2>1, WayAheadWrite, OrderServerStep DEF Stop
<1>9. CASE AttachHeld(c)
  <2>1. \A d \in Clients : Pending(d)' \in {Pending(d), 0}
    <3>1. pendingClip' = 0 \/ (active' = c /\ pendingClip' = pendingClip /\ ~displaces(c))
      BY <1>9 DEF AttachHeld
    <3>2. ~displaces(c) /\ pendingClip # 0 => active = c
      BY <1>0 DEF displaces, DetachedIsClean
    <3> QED BY <3>1, <3>2 DEF Pending
  <2>2. CASE displaces(c)
    <3>1. PICK d \in Clients : active = d
      BY <1>0, <2>2 DEF displaces, TypeOK
    <3>2. down' = WriteFrame(down, d, View("detach", uiBy, pendingClip))
      BY <1>9, <2>2, <3>1 DEF AttachHeld
    <3>3. pendingClip = Pending(d) /\ Pending(d)' = 0
      BY <1>9, <2>2, <3>1 DEF AttachHeld, Pending
    <3> QED BY <1>0, <1>u, <1>v, <2>1, <3>1, <3>2, <3>3, WayAheadWrite, OrderServerStep
  <2>3. CASE ~displaces(c)
    BY <1>0, <1>9, <2>1, <2>3, OrderServerStep DEF AttachHeld, WayAhead
  <2> QED BY <2>2, <2>3
<1> QED BY <1>1, <1>2, <1>3, <1>4, <1>5, <1>6, <1>7, <1>8, <1>9 DEF ServerStep

LEMMA OrderLoop ==
  ASSUME OrderInv, LoopStep, UNCHANGED clientVars, NEW c \in Clients
  PROVE  OrderInv'
<1>0. HomeInv /\ HomeInv' /\ TypeOK
  BY HomeLoop DEF OrderInv, HomeInv, LeaseInv
<1>1. CASE Shutdown
  BY <1>0, <1>1, OrderServerStep DEF Shutdown, loopVars, WayAhead, Pending
<1>2. CASE ModelEvent
  BY <1>0, <1>2, OrderServerStep DEF ModelEvent, wireVars, WayAhead, Pending
<1>3. CASE Tick
  <2>1. active \in Clients /\ uiBy \in Clients \cup {NoClient} /\ pendingClip \in Nat
    BY <1>0, <1>3 DEF Tick, TypeOK
  <2> DEFINE frame == View("view", uiBy, pendingClip)
  <2>2. frame \in Frame /\ frame.clip = pendingClip
    BY <1>0, <2>1, FrameTypes DEF View
  <2>3. frame.clip = Pending(active) /\ down' = WriteFrame(down, active, frame)
    BY <1>3, <2>2 DEF Pending, Tick, sendView
  <2>4. \A d \in Clients : Pending(d)' \in {Pending(d), 0}
    BY <1>3 DEF Tick, sendView, closePeer, Pending
  <2> HIDE DEF frame
  <2>6. \A d \in Clients : WayAhead(d)
    <3>1. \A d \in Clients : d # active => down'[d] = down[d]
      BY <1>0, <2>3 DEF WriteFrame, TypeOK
    <3>2. CASE Writable(active)
      <4>1. pendingClip' = 0
        BY <1>3, <3>2 DEF Tick, sendView
      <4>2. \A d \in Clients : Pending(d)' = 0
        BY <4>1 DEF Pending
      <4>3. down'[active] = Append(down[active], frame)
        BY <1>0, <2>1, <2>3, <3>2 DEF WriteFrame, TypeOK
      <4>4. \A d \in Clients : d # active => WayAhead(d)
        BY <3>1, <4>2 DEF WayAhead
      <4>5. ASSUME NEW d \in Clients, d = active PROVE WayAhead(d)
        BY <2>1, <2>2, <2>3, <4>2, <4>3, <4>5 DEF WayAhead
      <4> QED BY <4>4, <4>5
    <3>3. CASE ~Writable(active)
      BY <2>3, <2>4, <3>3 DEF WriteFrame, WayAhead
    <3> QED BY <3>2, <3>3
  <2> QED BY <1>0, <2>6, OrderServerStep
<1>4. CASE Hold
  BY <1>0, <1>4, OrderServerStep DEF Hold, wireVars, WayAhead, Pending
<1> QED BY <1>1, <1>2, <1>3, <1>4 DEF LoopStep

LEMMA OrderClientStep ==
  ASSUME OrderInv, HomeInv', NEW c \in Clients, UNCHANGED loopVars,
         \A d \in Clients \ {c} : /\ copies'[d] = copies[d] /\ held'[d] = held[d]
                                  /\ mail'[d] = mail[d] /\ reading'[d] = reading[d]
                                  /\ down'[d] = down[d],
         Ordered(copies'[c], held'[c].clip, mail'[c].clip, reading'[c].clip, down'[c], Pending(c))
  PROVE  OrderInv'
<1>1. \A d \in Clients : Pending(d)' = Pending(d)
  BY DEF loopVars, Pending
<1>2. OrderedFor(c)'
  BY <1>1 DEF OrderedFor
<1>3. \A d \in Clients \ {c} : OrderedFor(d)'
  BY <1>1 DEF OrderInv, OrderedFor
<1> QED BY <1>2, <1>3 DEF OrderInv

LEMMA OrderClient ==
  ASSUME OrderInv, NEW c \in Clients, ClientStep(c), UNCHANGED loopVars
  PROVE  OrderInv'
<1>0. HomeInv /\ HomeInv' /\ TypeOK
  BY HomeClient DEF OrderInv, HomeInv, LeaseInv
<1>t. /\ down \in [Clients -> Seq(Frame)] /\ reading \in [Clients -> Results \cup {Empty}]
      /\ mail \in [Clients -> Results \cup {Empty}] /\ held \in [Clients -> Results \cup {Empty}]
      /\ copies \in [Clients -> Seq(Nat)]
  BY <1>0 DEF TypeOK
<1>o. Ordered(copies[c], held[c].clip, mail[c].clip, reading[c].clip, down[c], Pending(c))
  BY DEF OrderInv, OrderedFor
<1>s. /\ copies[c] \in Seq(Nat) /\ held[c].clip \in Nat /\ mail[c].clip \in Nat
      /\ reading[c].clip \in Nat /\ down[c] \in Seq(Frame) /\ Pending(c) \in Nat
      /\ Empty.clip = 0 /\ EndOfStream.clip = 0
  BY <1>0, OrderTypes DEF Empty, EndOfStream
<1>1. CASE UNCHANGED <<down, reading, mail, held, copies>>
  BY <1>0, <1>o, <1>1, OrderClientStep
<1>2. ASSUME EndProgram(c)
      PROVE  OrderInv'
  <2>1. Ordered(copies[c], 0, 0, 0, <<>>, Pending(c))
    BY <1>o, OrderEnd
  <2> QED BY <1>0, <1>t, <1>s, <1>2, <2>1, OrderClientStep DEF EndProgram
<1>3. CASE readFrames(c)
  <2>0. reading[c].clip = 0
    BY <1>3, <1>s DEF readFrames
  <2>1. CASE down[c] # <<>>
    <3>1. Ordered(copies[c], held[c].clip, mail[c].clip, Head(down[c]).clip, Tail(down[c]), Pending(c))
      BY <1>o, <1>s, <2>0, <2>1, OrderRead
    <3> QED BY <1>0, <1>t, <1>3, <2>1, <3>1, OrderClientStep DEF readFrames
  <2>2. CASE down[c] = <<>>
    BY <1>0, <1>t, <1>o, <1>s, <1>3, <2>0, <2>2, OrderClientStep DEF readFrames
  <2> QED BY <2>1, <2>2
<1>4. CASE queueFrame(c)
  <2>1. Ordered(copies[c], held[c].clip, reading[c].clip, 0, down[c], Pending(c))
    BY <1>4, <1>o, <1>s, OrderMove DEF queueFrame
  <2> QED BY <1>0, <1>t, <1>s, <1>4, <2>1, OrderClientStep DEF queueFrame, wireVars
<1>5. CASE replaceStale(c)
  <2> DEFINE merged == mergeFrameSideEffects(mail[c], reading[c])
  <2>1. merged.clip = reading[c].clip \/ (reading[c].clip = 0 /\ merged.clip = mail[c].clip)
    <3>1. reading[c] \in Results /\ (reading[c].kind # "eof" => reading[c] \in Frame)
      BY <1>t, <1>5, ResultTypes DEF replaceStale, Results
    <3>2. ASSUME NEW f \in Frame, NEW t \in Nat PROVE [f EXCEPT !.clip = t].clip = t
      BY DEF Frame
    <3> QED BY <1>s, <3>1, <3>2 DEF mergeFrameSideEffects
  <2>2. merged.clip \in {reading[c].clip, mail[c].clip}
    BY <2>1
  <2>3. Ordered(copies[c], held[c].clip, 0, merged.clip, down[c], Pending(c))
    <3> HIDE DEF merged
    <3>1. CASE merged.clip = reading[c].clip
      BY <1>o, <3>1, OrderMove
    <3>2. CASE reading[c].clip = 0 /\ merged.clip = mail[c].clip
      BY <1>o, <3>2, OrderMove
    <3> QED BY <2>1, <3>1, <3>2
  <2>4. reading'[c] = merged /\ mail'[c] = Empty
    BY <1>t, <1>5 DEF replaceStale
  <2> HIDE DEF merged
  <2>5. Ordered(copies'[c], held'[c].clip, mail'[c].clip, reading'[c].clip, down'[c], Pending(c))
    BY <1>s, <1>5, <2>3, <2>4 DEF replaceStale, wireVars
  <2> QED BY <1>0, <1>t, <1>5, <2>5, OrderClientStep DEF replaceStale, wireVars
<1>6. CASE waitForFrame(c)
  <2>1. Ordered(copies[c], mail[c].clip, 0, reading[c].clip, down[c], Pending(c))
    BY <1>6, <1>o, <1>s, OrderMove DEF waitForFrame
  <2> QED BY <1>0, <1>t, <1>s, <1>6, <2>1, OrderClientStep DEF waitForFrame, wireVars
<1>7. CASE UpdateFrame(c)
  <2>0. held'[c].clip = 0 /\ UNCHANGED <<down, reading, mail>>
    BY <1>t, <1>s, <1>7 DEF UpdateFrame, wireVars
  <2>1. \A d \in Clients \ {c} : held'[d] = held[d] /\ copies'[d] = copies[d]
    BY <1>t, <1>7 DEF UpdateFrame
  <2>2. CASE held[c].clip # 0
    <3>1. copies'[c] = Append(copies[c], held[c].clip)
      BY <1>t, <1>7, <2>2 DEF UpdateFrame
    <3>2. Ordered(Append(copies[c], held[c].clip), 0, mail[c].clip, reading[c].clip, down[c], Pending(c))
      BY <1>o, <1>s, <2>2, OrderShow
    <3> QED BY <1>0, <2>0, <2>1, <3>1, <3>2, OrderClientStep
  <2>3. CASE held[c].clip = 0
    <3>1. copies'[c] = copies[c]
      BY <1>t, <1>7, <2>3 DEF UpdateFrame
    <3> QED BY <1>0, <1>o, <2>0, <2>1, <2>3, <3>1, OrderClientStep
  <2> QED BY <2>2, <2>3
<1>8. CASE \/ SendFails(c) \/ UpdateLast(c) \/ Kill(c) \/ StopReturns(c)
  BY <1>2, <1>8 DEF SendFails, UpdateLast, Kill, StopReturns
<1>9. ASSUME \/ \E role \in {"running", "waiting"}, first \in Requests : Dial(c, role, first)
             \/ \E kind \in Inputs : SendInput(c, kind)
      PROVE  OrderInv'
  BY <1>1, <1>9 DEF Dial, SendInput, readerVars
<1> QED BY <1>3, <1>4, <1>5, <1>6, <1>7, <1>8, <1>9 DEF ClientStep, Requests

LEMMA OrderInvariance == Spec => []OrderInv
<1>1. Spec => []HomeInv
  BY HomeInvariance
<1>2. Init /\ HomeInv => OrderInv
  <2> SUFFICES ASSUME Init, HomeInv, NEW d \in Clients PROVE OrderedFor(d)
    BY DEF OrderInv
  <2>1. /\ down[d] = <<>> /\ copies[d] = <<>> /\ held[d].clip = 0 /\ mail[d].clip = 0
        /\ reading[d].clip = 0 /\ Pending(d) = 0
    BY DEF Init, WireInit, ClientInit, ServerInit, Pending, Empty
  <2>2. 1..Len(<<>>) = {}
    BY EmptySeq
  <2> QED BY <2>1, <2>2 DEF OrderedFor, Ordered, Before
<1>3. OrderInv /\ [Next]_vars => OrderInv'
  <2> SUFFICES ASSUME OrderInv, [Next]_vars PROVE OrderInv'
    OBVIOUS
  <2>0. HomeInv'
    BY HomeStep DEF OrderInv
  <2>1. CASE UNCHANGED vars
    BY <2>0, <2>1 DEF OrderInv, OrderedFor, Pending, vars, wireVars, loopVars, clientVars
  <2>2. CASE Next
    <3>1. CASE \E c \in Clients : ServerStep(c) /\ UNCHANGED clientVars
      BY <3>1, OrderServer
    <3>2. CASE LoopStep /\ UNCHANGED clientVars
      <4>1. CASE Clients = {}
        BY <2>0, <4>1 DEF OrderInv
      <4>2. CASE Clients # {}
        BY <3>2, <4>2, OrderLoop
      <4> QED BY <4>1, <4>2
    <3>3. CASE \E c \in Clients : ClientStep(c) /\ UNCHANGED loopVars
      BY <3>3, OrderClient
    <3> QED BY <2>2, <3>1, <3>2, <3>3 DEF Next
  <2> QED BY <2>1, <2>2
<1>4. Init => HomeInv
  BY HomeStart
<1> QED BY <1>2, <1>3, <1>4, PTL DEF Spec

(* The clipboard of a front end never receives a text twice, and never an  *)
(* older text after a newer one, although its mailbox merges frames.       *)
THEOREM ClipboardOrder == Spec => []ClipboardInOrder
<1>1. OrderInv => ClipboardInOrder
  BY DEF OrderInv, OrderedFor, Ordered, ClipboardInOrder
<1> QED BY <1>1, OrderInvariance, PTL

-----------------------------------------------------------------------------
(* Refinement.  Every step of the runtime and its front ends is a step of  *)
(* SessionLease on (standing, author, copies), or leaves them alone.       *)
LEMMA StandingValues ==
  ASSUME NEW c \in Clients, TypeOK
  PROVE  /\ standing[c] = "away" <=> conn[c] = "none"
         /\ standing[c] = "over" <=> conn[c] = "dropped"
         /\ standing[c] = "holder" <=> conn[c] \in {"backlog", "peer"} /\ active = c
         /\ standing[c] = "asked" <=> conn[c] \in {"backlog", "peer"} /\ active # c
         /\ standing[c] \in {"away", "over", "holder", "asked"}
BY DEF standing, StandingOf, TypeOK

(* Who holds the lease is decided by conn and active alone.                *)
LEMMA StandingStays ==
  ASSUME TypeOK, TypeOK', active' = active,
         \A c \in Clients : \/ conn'[c] = conn[c]
                            \/ conn[c] = "backlog" /\ conn'[c] = "peer"
  PROVE  standing' = standing
<1>1. ASSUME NEW c \in Clients
      PROVE  StandingOf(conn'[c], active' = c) = StandingOf(conn[c], active = c)
  BY <1>1 DEF StandingOf
<1> QED BY <1>1 DEF standing

(* Closing connections that were not over yet ends their leases.           *)
LEMMA EndsLease ==
  ASSUME TypeOK, TypeOK', NEW cs \in SUBSET Clients,
         \A c \in cs : conn[c] \in {"backlog", "peer"},
         conn' = Dropped(cs \cup {c \in Clients : conn[c] = "dropped"}),
         \A c \in Clients \ cs : conn[c] # "dropped" => (active' = c <=> active = c),
         UNCHANGED <<author, copies>>
  PROVE  Lease!Next
<1>1. \A c \in cs : standing[c] \in {"asked", "holder"}
  BY StandingValues
<1>2. ASSUME NEW c \in Clients
      PROVE  StandingOf(conn'[c], active' = c) = IF c \in cs THEN "over" ELSE standing[c]
  <2>1. CASE c \in cs
    BY <2>1 DEF Dropped, StandingOf
  <2>2. CASE c \notin cs
    <3>1. conn'[c] = conn[c]
      BY <2>2 DEF Dropped
    <3> QED BY <2>2, <3>1 DEF standing, StandingOf
  <2> QED BY <2>1, <2>2
<1>3. standing' = [c \in Clients |-> IF c \in cs THEN "over" ELSE standing[c]]
  BY <1>2 DEF standing
<1> QED BY <1>1, <1>3 DEF Lease!Next, Lease!End

LEMMA ClosingEndsLease ==
  ASSUME TypeOK, TypeOK', NEW c \in Clients, conn[c] = "peer", closePeer(c),
         UNCHANGED <<author, copies>>
  PROVE  Lease!Next
<1> DEFINE cs == {c}
<1>1. conn' = Dropped(cs \cup {d \in Clients : conn[d] = "dropped"})
  BY DEF closePeer, Dropped
<1>2. \A d \in Clients \ cs : active' = d <=> active = d
  BY NoClientAssumption DEF closePeer
<1>3. cs \in SUBSET Clients /\ \A d \in cs : conn[d] \in {"backlog", "peer"}
  OBVIOUS
<1> HIDE DEF cs
<1> QED BY <1>1, <1>2, <1>3, EndsLease

(* An attach, to its end or cut: the client of before loses the lease and  *)
(* the newcomer takes it, or the newcomer is lost as well or still asks.   *)
LEMMA TakingTheLease ==
  ASSUME TypeOK, TypeOK', DetachedIsClean, NEW c \in Clients, runtime = "serving", conn[c] = "peer",
         conn' = Dropped(IF displaces(c) THEN {active} ELSE {}), active' = c,
         UNCHANGED <<author, copies>>
  PROVE  Lease!Next \/ UNCHANGED <<standing, author, copies>>
<1>1. CASE active = c
  <2>1. conn' = conn
    BY <1>1 DEF Dropped, displaces, TypeOK
  <2> QED BY <1>1, <2>1, StandingStays
<1>2. CASE active # c
  <2>1. standing[c] = "asked"
    BY <1>2, StandingValues
  <2>2. ASSUME NEW d \in Clients
        PROVE  StandingOf(conn'[d], active' = d)
                 = IF d = c THEN "holder" ELSE IF standing[d] = "holder" THEN "over" ELSE standing[d]
    <3>1. CASE d = c
      BY <1>2, <3>1 DEF Dropped, StandingOf, displaces
    <3>2. CASE d # c /\ d = active
      <4>1. displaces(c)
        BY <3>2, NoClientAssumption DEF displaces
      <4>2. conn'[d] = "dropped" /\ standing[d] = "holder"
        BY <3>2, <4>1, StandingValues DEF Dropped, DetachedIsClean, TypeOK, displaces
      <4> QED BY <3>2, <4>2 DEF StandingOf
    <3>3. CASE d # c /\ d # active
      <4>1. conn'[d] = conn[d] /\ standing[d] # "holder"
        BY <3>3, StandingValues DEF Dropped
      <4> QED BY <3>3, <4>1 DEF standing, StandingOf
    <3> QED BY <3>1, <3>2, <3>3
  <2>3. standing' = [d \in Clients |->
          IF d = c THEN "holder" ELSE IF standing[d] = "holder" THEN "over" ELSE standing[d]]
    BY <2>2 DEF standing
  <2> QED BY <2>1, <2>3 DEF Lease!Next, Lease!Take
<1> QED BY <1>1, <1>2

LEMMA MissingTheLease ==
  ASSUME TypeOK, TypeOK', DetachedIsClean, NEW c \in Clients, runtime = "serving", conn[c] = "peer",
         \/ conn' = Dropped((IF displaces(c) THEN {active} ELSE {}) \cup {c})
         \/ displaces(c) /\ conn' = Dropped({active}),
         active' = NoClient, UNCHANGED <<author, copies>>
  PROVE  Lease!Next
<1>1. displaces(c) => active \in Clients /\ conn[active] = "peer"
  BY DEF displaces, DetachedIsClean, TypeOK
<1>2. ~displaces(c) => active \in {NoClient, c}
  BY DEF displaces
<1>3. ASSUME NEW cs \in SUBSET Clients, conn' = Dropped(cs), \A d \in cs : conn[d] = "peer",
             active \in cs \cup {NoClient}
      PROVE  Lease!Next
  <2>1. conn' = Dropped(cs \cup {d \in Clients : conn[d] = "dropped"})
    BY <1>3 DEF Dropped
  <2>2. \A d \in Clients \ cs : active' = d <=> active = d
    BY <1>3, NoClientAssumption
  <2> QED BY <1>3, <2>1, <2>2, EndsLease
<1>4. CASE conn' = Dropped((IF displaces(c) THEN {active} ELSE {}) \cup {c})
  BY <1>1, <1>2, <1>3, <1>4
<1>5. CASE displaces(c) /\ conn' = Dropped({active})
  BY <1>1, <1>3, <1>5
<1> QED BY <1>4, <1>5

LEMMA LeaseServerStep ==
  ASSUME OrderInv, TypeOK', NEW c \in Clients, ServerStep(c), UNCHANGED clientVars
  PROVE  Lease!Next \/ UNCHANGED <<standing, author, copies>>
<1>0. TypeOK /\ DetachedIsClean /\ UNCHANGED copies
  BY DEF OrderInv, HomeInv, LeaseInv, clientVars
<1>1. CASE Accept(c)
  BY <1>0, <1>1, StandingStays DEF Accept, loopVars, TypeOK
<1>2. CASE \/ PeerGone(c) \/ RejectVersion(c) \/ RejectInput(c) \/ ApplyQuit(c)
  BY <1>0, <1>2, ClosingEndsLease DEF PeerGone, RejectVersion, RejectInput, ApplyQuit, Receive
<1>3. CASE Stop(c)
  <2>1. CASE Writable(c)
    BY <1>0, <1>3, <2>1, StandingStays DEF Stop
  <2>2. CASE ~Writable(c)
    BY <1>0, <1>3, <2>2, ClosingEndsLease DEF Stop, Receive
  <2> QED BY <2>1, <2>2
<1>4. CASE Attach(c) \/ AttachHeld(c)
  <2> DEFINE left == IF displaces(c) THEN {active} ELSE {}
  <2>1. conn[c] = "peer" /\ runtime = "serving" /\ author' = author
    BY <1>4 DEF Attach, AttachHeld, Receive, Idle
  <2>2. \/ conn' = Dropped(left) /\ active' = c
        \/ conn' = Dropped(left \cup {c}) /\ active' = NoClient
        \/ displaces(c) /\ conn' = Dropped({active}) /\ active' = NoClient
    BY <1>4 DEF Attach, AttachHeld
  <2> QED BY <1>0, <2>1, <2>2, TakingTheLease, MissingTheLease
<1>5. CASE ApplyInput(c)
  <2>1. standing' = standing /\ standing[c] = "holder"
    BY <1>0, <1>5, StandingStays, StandingValues DEF ApplyInput, Receive
  <2>2. author' = author \/ author' = Append(author, c)
    BY <1>5 DEF ApplyInput
  <2> QED BY <1>0, <2>1, <2>2 DEF Lease!Next, Lease!Copy
<1> QED BY <1>1, <1>2, <1>3, <1>4, <1>5 DEF ServerStep

LEMMA LeaseLoopStep ==
  ASSUME OrderInv, TypeOK', LoopStep, UNCHANGED clientVars
  PROVE  Lease!Next \/ UNCHANGED <<standing, author, copies>>
<1>0. TypeOK /\ DetachedIsClean /\ UNCHANGED <<author, copies>>
  BY DEF OrderInv, HomeInv, LeaseInv, clientVars, Shutdown, loopVars, ModelEvent, Tick, Hold, LoopStep
<1>1. CASE Shutdown
  <2> DEFINE cs == {c \in Clients : conn[c] \in {"backlog", "peer"}}
  <2>1. conn' = Dropped(cs \cup {c \in Clients : conn[c] = "dropped"})
    <3>1. conn' = Dropped({c \in Clients : conn[c] # "none"})
      BY <1>1 DEF Shutdown
    <3>2. {c \in Clients : conn[c] # "none"} = cs \cup {c \in Clients : conn[c] = "dropped"}
      BY <1>0 DEF TypeOK
    <3> QED BY <3>1, <3>2
  <2>2. active' = active /\ cs \in SUBSET Clients /\ \A c \in cs : conn[c] \in {"backlog", "peer"}
    BY <1>1 DEF Shutdown, loopVars
  <2> HIDE DEF cs
  <2> QED BY <1>0, <2>1, <2>2, EndsLease
<1>2. CASE ModelEvent
  BY <1>0, <1>2, StandingStays DEF ModelEvent, wireVars
<1>3. CASE Tick
  <2>1. active \in Clients /\ conn[active] = "peer" /\ sendView(active)
    BY <1>0, <1>3 DEF Tick, Idle, DetachedIsClean, TypeOK
  <2>2. CASE Writable(active)
    BY <1>0, <2>1, <2>2, StandingStays DEF sendView
  <2>3. CASE ~Writable(active)
    BY <1>0, <2>1, <2>3, ClosingEndsLease DEF sendView
  <2> QED BY <2>2, <2>3
<1>4. CASE Hold
  BY <1>0, <1>4, StandingStays DEF Hold, wireVars
<1> QED BY <1>1, <1>2, <1>3, <1>4 DEF LoopStep

LEMMA LeaseClientStep ==
  ASSUME OrderInv, TypeOK', NEW c \in Clients, ClientStep(c), UNCHANGED loopVars
  PROVE  Lease!Next \/ UNCHANGED <<standing, author, copies>>
<1>0. TypeOK /\ DetachedIsClean /\ FreshUnknown /\ UNCHANGED <<author, active>>
  BY DEF OrderInv, HomeInv, LeaseInv, loopVars
<1>1. CASE UNCHANGED <<conn, copies>>
  BY <1>0, <1>1, StandingStays
<1>2. ASSUME NEW role, NEW first, Dial(c, role, first)
      PROVE  Lease!Next
  <2>1. /\ conn[c] = "none" /\ active # c /\ UNCHANGED copies
        /\ conn' = [conn EXCEPT ![c] = "backlog"]
    BY <1>0, <1>2, NoClientAssumption DEF Dial, FreshUnknown, DetachedIsClean
  <2>2. standing[c] = "away"
    BY <1>0, <2>1, StandingValues
  <2>3. standing' = [standing EXCEPT ![c] = "asked"]
    <3>1. ASSUME NEW d \in Clients
          PROVE  StandingOf(conn'[d], active' = d) = IF d = c THEN "asked" ELSE standing[d]
      <4>1. CASE d = c
        BY <1>0, <2>1, <4>1 DEF TypeOK, StandingOf
      <4>2. CASE d # c
        <5>1. conn'[d] = conn[d]
          BY <1>0, <2>1, <4>2 DEF TypeOK
        <5> QED BY <1>0, <4>2, <5>1 DEF standing, StandingOf
      <4> QED BY <4>1, <4>2
    <3>2. standing' = [d \in Clients |-> IF d = c THEN "asked" ELSE standing[d]]
      BY <3>1 DEF standing
    <3>3. standing = [d \in Clients |-> standing[d]]
      BY DEF standing
    <3> QED BY <3>2, <3>3
  <2> QED BY <1>0, <2>1, <2>2, <2>3 DEF Lease!Next, Lease!Ask
<1>3. CASE UpdateFrame(c)
  <2>1. UNCHANGED conn /\ standing' = standing
    BY <1>0, <1>3, StandingStays DEF UpdateFrame, wireVars
  <2>2. CASE held[c].clip = 0
    BY <1>0, <1>3, <2>1, <2>2 DEF UpdateFrame, TypeOK
  <2>3. CASE held[c].clip # 0
    <3> DEFINE t == held[c].clip
    <3>1. t \in 1..Len(author) /\ author[t] = c
      BY <2>3 DEF OrderInv, HomeInv, ClipboardStaysHome, OwnText
    <3>2. \A i \in 1..Len(copies[c]) : copies[c][i] < t
      BY <2>3 DEF OrderInv, OrderedFor, Ordered, Before
    <3>3. copies' = [copies EXCEPT ![c] = Append(@, t)]
      BY <1>0, <1>3, <2>3 DEF UpdateFrame, TypeOK
    <3> HIDE DEF t
    <3>4. Lease!Arrive(c, t)
      BY <1>0, <2>1, <3>1, <3>2, <3>3 DEF Lease!Arrive
    <3> QED BY <3>1, <3>4 DEF Lease!Next
  <2> QED BY <2>2, <2>3
<1>4. CASE \/ readFrames(c) \/ queueFrame(c) \/ replaceStale(c) \/ waitForFrame(c)
           \/ \E kind \in Inputs : SendInput(c, kind)
  BY <1>1, <1>4 DEF readFrames, queueFrame, replaceStale, waitForFrame, SendInput, wireVars
<1>5. CASE \/ SendFails(c) \/ UpdateLast(c) \/ Kill(c) \/ StopReturns(c)
  BY <1>1, <1>5 DEF SendFails, UpdateLast, Kill, StopReturns, EndProgram
<1> QED BY <1>2, <1>3, <1>4, <1>5 DEF ClientStep

(* The runtime, the wire, the mailboxes and the front ends together keep   *)
(* the promise of SessionLease: one holder at a time, no lease twice, each *)
(* text only to the clipboard of the client that copied it, and in order.  *)
THEOREM LeaseRefinement == Spec => LeaseSpec
<1>1. Init => Lease!Init
  <2> SUFFICES ASSUME Init PROVE Lease!Init
    OBVIOUS
  <2>1. /\ \A c \in Clients : conn[c] = "none"
        /\ author = <<>> /\ copies = [d \in Clients |-> <<>>]
    BY DEF Init, WireInit, ServerInit, ClientInit
  <2>2. standing = [c \in Clients |-> "away"]
    BY <2>1 DEF standing, StandingOf
  <2> QED BY <2>1, <2>2 DEF Lease!Init
<1>2. OrderInv /\ OrderInv' /\ [Next]_vars => [Lease!Next]_(Lease!leaseVars)
  <2> SUFFICES ASSUME OrderInv, TypeOK', [Next]_vars
               PROVE  Lease!Next \/ UNCHANGED <<standing, author, copies>>
    BY DEF OrderInv, HomeInv, LeaseInv, Lease!leaseVars
  <2>1. CASE UNCHANGED vars
    BY <2>1 DEF vars, wireVars, loopVars, clientVars, standing
  <2>2. CASE Next
    BY <2>2, LeaseServerStep, LeaseLoopStep, LeaseClientStep DEF Next
  <2> QED BY <2>1, <2>2
<1> QED BY <1>1, <1>2, OrderInvariance, PTL DEF Spec, LeaseSpec, Lease!Spec

-----------------------------------------------------------------------------
(* Last words.  A reader that queued the last result of the stream has     *)
(* returned, so nothing is decoded that could push it out of the mailbox.  *)
ReaderReturned ==
  \A c \in Clients :
    /\ endsReader(mail[c]) => readerDone[c]
    /\ readerDone[c] => reading[c] = Empty

ReaderInv == TypeOK /\ ReaderReturned

LEMMA ReaderStep == ReaderInv /\ [Next]_vars /\ TypeOK' => ReaderInv'
<1> SUFFICES ASSUME ReaderInv, [Next]_vars, TypeOK' PROVE ReaderReturned'
  BY DEF ReaderInv
<1>0. TypeOK /\ ReaderReturned
  BY DEF ReaderInv
<1>e. ~endsReader(Empty)
  BY DEF endsReader, Empty
<1>1. CASE UNCHANGED <<mail, readerDone, reading>>
  BY <1>0, <1>1 DEF ReaderReturned, endsReader
<1>2. CASE UNCHANGED clientVars
  BY <1>1, <1>2 DEF clientVars, readerVars
<1>3. ASSUME NEW c \in Clients, ClientStep(c)
      PROVE  ReaderReturned'
  <2>1. ASSUME EndProgram(c)
        PROVE  ReaderReturned'
    BY <1>0, <1>e, <2>1 DEF EndProgram, ReaderReturned, TypeOK, endsReader
  <2>2. CASE readFrames(c)
    BY <1>0, <2>2 DEF readFrames, ReaderReturned, TypeOK, endsReader
  <2>3. CASE queueFrame(c)
    <3>1. /\ mail'[c] = reading[c] /\ reading'[c] = Empty
          /\ readerDone'[c] = endsReader(reading[c])
          /\ \A d \in Clients \ {c} : /\ mail'[d] = mail[d] /\ reading'[d] = reading[d]
                                       /\ readerDone'[d] = readerDone[d]
      BY <1>0, <2>3 DEF queueFrame, TypeOK
    <3>2. endsReader(mail'[c]) => readerDone'[c]
      BY <3>1 DEF endsReader
    <3> QED BY <1>0, <3>1, <3>2 DEF ReaderReturned, endsReader
  <2>4. CASE replaceStale(c)
    BY <1>0, <1>e, <2>4 DEF replaceStale, ReaderReturned, TypeOK, endsReader
  <2>5. CASE waitForFrame(c)
    BY <1>0, <1>e, <2>5 DEF waitForFrame, ReaderReturned, TypeOK, endsReader
  <2>6. CASE UpdateFrame(c)
    BY <1>1, <2>6 DEF UpdateFrame
  <2>7. CASE \/ SendFails(c) \/ UpdateLast(c) \/ Kill(c) \/ StopReturns(c)
    BY <2>1, <2>7 DEF SendFails, UpdateLast, Kill, StopReturns
  <2>8. ASSUME \/ \E role \in {"running", "waiting"}, first \in Requests : Dial(c, role, first)
               \/ \E kind \in Inputs : SendInput(c, kind)
        PROVE  ReaderReturned'
    BY <1>1, <2>8 DEF Dial, SendInput, readerVars
  <2> QED BY <1>3, <2>2, <2>3, <2>4, <2>5, <2>6, <2>7, <2>8 DEF ClientStep, Requests
<1> QED BY <1>2, <1>3 DEF Next, vars

(* What stays of a pipe that a frame is written to.                        *)
Keeps(before, after) ==
  \A i \in 1..Len(before) : i \in 1..Len(after) /\ after[i] = before[i]

LEMMA WriteKeeps ==
  ASSUME NEW pipes \in [Clients -> Seq(Frame)], NEW c \in Clients, NEW f \in Frame, NEW d \in Clients
  PROVE  Keeps(pipes[d], WriteFrame(pipes, c, f)[d])
<1>1. CASE Writable(c) /\ d = c
  <2>1. /\ Len(pipes[c]) \in Nat /\ Len(Append(pipes[c], f)) = Len(pipes[c]) + 1
        /\ \A i \in 1..Len(pipes[c]) : Append(pipes[c], f)[i] = pipes[c][i]
    OBVIOUS
  <2>2. WriteFrame(pipes, c, f)[d] = Append(pipes[c], f)
    BY <1>1 DEF WriteFrame
  <2> QED BY <1>1, <2>1, <2>2 DEF Keeps
<1>2. CASE ~(Writable(c) /\ d = c)
  BY <1>2 DEF WriteFrame, Keeps
<1> QED BY <1>1, <1>2

LEMMA ServerKeeps ==
  ASSUME TypeOK, NEW d \in Clients,
         \/ \E c \in Clients : ServerStep(c)
         \/ LoopStep
  PROVE  Keeps(down[d], down'[d])
<1>0. down \in [Clients -> Seq(Frame)] /\ uiBy \in Clients \cup {NoClient} /\ pendingClip \in Nat
  BY DEF TypeOK
<1>n. \A kind \in {"error", "stopped"} : Notice(kind) \in Frame
  BY FrameTypes DEF Notice
<1>v. \A who \in Clients \cup {NoClient}, clip \in Nat, kind \in {"view", "detach"} :
        View(kind, who, clip) \in Frame
  BY FrameTypes DEF View
<1>1. CASE down' = down
  BY <1>1 DEF Keeps
<1>2. ASSUME NEW c \in Clients, NEW f \in Frame, down' = WriteFrame(down, c, f)
      PROVE  Keeps(down[d], down'[d])
  BY <1>0, <1>2, WriteKeeps
<1>3. ASSUME NEW c \in Clients, Attach(c)
      PROVE  Keeps(down[d], down'[d])
  <2>1. CASE displaces(c)
    <3> DEFINE farewell == WriteFrame(down, active, View("detach", uiBy, pendingClip))
    <3>1. active \in Clients
      BY <2>1 DEF displaces, TypeOK
    <3>2. farewell \in [Clients -> Seq(Frame)] /\ Keeps(down[d], farewell[d])
      BY <1>0, <1>v, <3>1, WriteFrameType, WriteKeeps
    <3>3. down' = WriteFrame(farewell, c, View("view", NoClient, 0))
      BY <1>3, <2>1 DEF Attach
    <3> HIDE DEF farewell
    <3>4. Keeps(farewell[d], down'[d])
      BY <1>v, <3>2, <3>3, WriteKeeps
    <3> QED BY <3>2, <3>4 DEF Keeps
  <2>2. CASE ~displaces(c)
    BY <1>0, <1>v, <1>2, <1>3, <2>2 DEF Attach
  <2> QED BY <2>1, <2>2
<1>4. ASSUME NEW c \in Clients, ServerStep(c), ~Attach(c)
      PROVE  Keeps(down[d], down'[d])
  <2>4. CASE AttachHeld(c)
    <3>1. CASE displaces(c)
      <4>1. active \in Clients /\ down' = WriteFrame(down, active, View("detach", uiBy, pendingClip))
        BY <2>4, <3>1 DEF AttachHeld, displaces, TypeOK
      <4> QED BY <1>0, <1>v, <1>2, <4>1
    <3>2. CASE ~displaces(c)
      BY <1>1, <2>4, <3>2 DEF AttachHeld
    <3> QED BY <3>1, <3>2
  <2>1. CASE Accept(c) \/ PeerGone(c) \/ ApplyInput(c)
    BY <1>1, <2>1 DEF Accept, PeerGone, ApplyInput
  <2>2. CASE RejectVersion(c) \/ RejectInput(c) \/ Stop(c)
    BY <1>n, <1>2, <2>2 DEF RejectVersion, RejectInput, Stop
  <2>3. CASE ApplyQuit(c)
    BY <1>0, <1>v, <1>2, <2>3 DEF ApplyQuit
  <2> QED BY <1>4, <2>1, <2>2, <2>3, <2>4 DEF ServerStep
<1>5. CASE Shutdown \/ ModelEvent \/ Hold
  BY <1>1, <1>5 DEF Shutdown, ModelEvent, Hold, wireVars
<1>6. CASE Tick
  <2>1. active \in Clients
    BY <1>6 DEF Tick, TypeOK
  <2> QED BY <1>0, <1>v, <1>2, <1>6, <2>1 DEF Tick, sendView
<1> QED BY <1>3, <1>4, <1>5, <1>6 DEF LoopStep

Farewell(result) == result.kind \in {"detach", "error"}

LEMMA FarewellPlaces ==
  ASSUME NEW c \in Clients
  PROVE  FarewellUnderway(c) <=>
           \/ \E i \in 1..Len(down[c]) : Farewell(down[c][i])
           \/ Farewell(reading[c]) \/ Farewell(mail[c]) \/ Farewell(held[c])
BY DEF FarewellUnderway, Underway, Farewell

LEMMA FarewellMoves ==
  ASSUME ReaderInv, NEW c \in Clients, ClientStep(c), ui'[c] = "running", FarewellUnderway(c)
  PROVE  FarewellUnderway(c)'
<1>0. TypeOK /\ ReaderReturned
  BY DEF ReaderInv
<1>t. /\ down \in [Clients -> Seq(Frame)] /\ reading \in [Clients -> Results \cup {Empty}]
      /\ mail \in [Clients -> Results \cup {Empty}] /\ held \in [Clients -> Results \cup {Empty}]
  BY <1>0 DEF TypeOK
<1>f. /\ \/ \E i \in 1..Len(down[c]) : Farewell(down[c][i])
         \/ Farewell(reading[c]) \/ Farewell(mail[c]) \/ Farewell(held[c])
      /\ ~Farewell(Empty) /\ (\A r : Farewell(r) => endsReader(r))
  BY FarewellPlaces DEF Farewell, endsReader, Empty
<1> SUFFICES \/ \E i \in 1..Len(down'[c]) : Farewell(down'[c][i])
             \/ Farewell(reading'[c]) \/ Farewell(mail'[c]) \/ Farewell(held'[c])
  BY DEF FarewellUnderway, Underway, Farewell
<1>1. CASE UNCHANGED <<down, reading, mail, held>>
  BY <1>f, <1>1
<1>2. ASSUME EndProgram(c)
      PROVE  FALSE
  BY <1>0, <1>2 DEF EndProgram, TypeOK
<1>3. CASE readFrames(c)
  <2>1. CASE down[c] # <<>>
    <3>1. /\ reading'[c] = Head(down[c]) /\ down'[c] = Tail(down[c])
          /\ reading[c] = Empty /\ mail' = mail /\ held' = held
      BY <1>t, <1>3, <2>1 DEF readFrames
    <3>2. /\ Len(down[c]) \in Nat /\ Len(down[c]) >= 1 /\ Head(down[c]) = down[c][1]
          /\ Len(Tail(down[c])) = Len(down[c]) - 1
          /\ \A i \in 1..Len(Tail(down[c])) : Tail(down[c])[i] = down[c][i + 1]
      BY <1>t, <2>1, HeadTailProperties, EmptySeq
    <3>3. ASSUME NEW i \in 1..Len(down[c]), Farewell(down[c][i]), i # 1
          PROVE  i - 1 \in 1..Len(down'[c]) /\ Farewell(down'[c][i - 1])
      <4>1. i - 1 \in 1..Len(Tail(down[c])) /\ (i - 1) + 1 = i
        BY <3>2, <3>3
      <4> QED BY <3>1, <3>2, <3>3, <4>1
    <3> QED BY <1>f, <3>1, <3>2, <3>3
  <2>2. CASE down[c] = <<>>
    <3>1. 1..Len(down[c]) = {} /\ reading[c] = Empty /\ mail' = mail /\ held' = held
      BY <1>3, <2>2, EmptySeq DEF readFrames
    <3> QED BY <1>f, <3>1
  <2> QED BY <2>1, <2>2
<1>4. CASE queueFrame(c)
  BY <1>t, <1>f, <1>4 DEF queueFrame, wireVars
<1>5. CASE replaceStale(c)
  <2>1. ~Farewell(mail[c])
    BY <1>0, <1>f, <1>5 DEF replaceStale, ReaderReturned
  <2>2. Farewell(reading[c]) => Farewell(mergeFrameSideEffects(mail[c], reading[c]))
    <3>1. reading[c] \in Results /\ (Farewell(reading[c]) => reading[c] \in Frame)
      BY <1>t, <1>5 DEF replaceStale, Results, Farewell, EndOfStream
    <3>2. ASSUME NEW f \in Frame, NEW t, Farewell(f) PROVE Farewell([f EXCEPT !.clip = t])
      BY <3>2 DEF Frame, Farewell
    <3> QED BY <3>1, <3>2 DEF mergeFrameSideEffects
  <2>3. /\ reading'[c] = mergeFrameSideEffects(mail[c], reading[c])
        /\ down' = down /\ held' = held
    BY <1>t, <1>5 DEF replaceStale, wireVars
  <2> QED BY <1>f, <2>1, <2>2, <2>3
<1>6. CASE waitForFrame(c)
  BY <1>t, <1>f, <1>6 DEF waitForFrame, wireVars
<1>7. CASE UpdateFrame(c)
  BY <1>t, <1>f, <1>7 DEF UpdateFrame, wireVars
<1>8. CASE \/ SendFails(c) \/ UpdateLast(c) \/ Kill(c) \/ StopReturns(c)
  BY <1>2, <1>8 DEF SendFails, UpdateLast, Kill, StopReturns
<1>9. CASE \/ \E role \in {"running", "waiting"}, first \in Requests : Dial(c, role, first)
           \/ \E kind \in Inputs : SendInput(c, kind)
  BY <1>1, <1>9 DEF Dial, SendInput, readerVars
<1> QED BY <1>3, <1>4, <1>5, <1>6, <1>7, <1>8, <1>9 DEF ClientStep, Requests

LEMMA OthersStay ==
  ASSUME TypeOK, NEW d \in Clients, ClientStep(d), NEW c \in Clients, c # d
  PROVE  /\ down'[c] = down[c] /\ reading'[c] = reading[c]
         /\ mail'[c] = mail[c] /\ held'[c] = held[c]
<1>1. CASE \/ readFrames(d) \/ queueFrame(d) \/ replaceStale(d) \/ waitForFrame(d) \/ UpdateFrame(d)
  BY <1>1 DEF TypeOK, readFrames, queueFrame, replaceStale, waitForFrame, UpdateFrame, wireVars
<1>2. CASE \/ SendFails(d) \/ UpdateLast(d) \/ Kill(d) \/ StopReturns(d)
  BY <1>2 DEF TypeOK, SendFails, UpdateLast, Kill, StopReturns, EndProgram
<1>3. CASE \/ \E role \in {"running", "waiting"}, first \in Requests : Dial(d, role, first)
           \/ \E kind \in Inputs : SendInput(d, kind)
  BY <1>3 DEF Dial, SendInput, readerVars
<1> QED BY <1>1, <1>2, <1>3 DEF ClientStep, Requests

(* A Detach or an Error frame that was written reaches the program it was  *)
(* written to, unless that program ends before: no later frame and no end  *)
(* of the stream takes its place in the mailbox.                           *)
THEOREM FarewellSafety == Spec => FarewellArrives
<1>1. Init => ReaderInv
  BY InitTyping DEF Init, ClientInit, ReaderInv, ReaderReturned, endsReader, Empty
<1>2. ReaderInv /\ [Next]_vars /\ TypeOK' => ReaderInv'
  BY ReaderStep
<1>3. ReaderInv /\ [Next]_vars =>
        [\A c \in Clients :
           FarewellUnderway(c) /\ ui'[c] = "running" => FarewellUnderway(c)']_vars
  <2> SUFFICES ASSUME ReaderInv, Next, NEW c \in Clients,
                      FarewellUnderway(c), ui'[c] = "running"
               PROVE  FarewellUnderway(c)'
    OBVIOUS
  <2>1. ASSUME \/ \E d \in Clients : ServerStep(d)
               \/ LoopStep,
               UNCHANGED clientVars
        PROVE  FarewellUnderway(c)'
    <3>1. Keeps(down[c], down'[c])
      BY <2>1, ServerKeeps DEF ReaderInv
    <3>2. UNCHANGED <<reading, mail, held>>
      BY <2>1 DEF clientVars, readerVars
    <3>3. \/ \E i \in 1..Len(down'[c]) : Farewell(down'[c][i])
          \/ Farewell(reading'[c]) \/ Farewell(mail'[c]) \/ Farewell(held'[c])
      BY <3>1, <3>2, FarewellPlaces DEF Keeps
    <3> QED BY <3>3 DEF FarewellUnderway, Underway, Farewell
  <2>2. ASSUME NEW d \in Clients, ClientStep(d), d # c
        PROVE  FarewellUnderway(c)'
    <3>1. down'[c] = down[c] /\ reading'[c] = reading[c] /\ mail'[c] = mail[c] /\ held'[c] = held[c]
      BY <2>2, OthersStay DEF ReaderInv
    <3>2. \/ \E i \in 1..Len(down'[c]) : Farewell(down'[c][i])
          \/ Farewell(reading'[c]) \/ Farewell(mail'[c]) \/ Farewell(held'[c])
      BY <3>1, FarewellPlaces
    <3> QED BY <3>2 DEF FarewellUnderway, Underway, Farewell
  <2> QED BY <2>1, <2>2, FarewellMoves DEF Next
<1> QED BY <1>1, <1>2, <1>3, Typing, PTL DEF Spec, FarewellArrives

=============================================================================
