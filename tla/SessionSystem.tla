---------------------------- MODULE SessionSystem ----------------------------
(***************************************************************************)
(* One runtime, its front ends and the connections between them: every     *)
(* interleaving of the event loop, the reader goroutines, the mailboxes,   *)
(* the Bubble Tea loops, and programs that are killed or quit at any time. *)
(***************************************************************************)
EXTENDS SessionServer, SessionClient

vars == <<wireVars, loopVars, clientVars>>

Init == WireInit /\ ServerInit /\ ClientInit

Next ==
  \/ \E c \in Clients : ServerStep(c) /\ UNCHANGED clientVars
  \/ LoopStep /\ UNCHANGED clientVars
  \/ \E c \in Clients : ClientStep(c) /\ UNCHANGED loopVars

Spec == Init /\ [][Next]_vars

(* While no turn is held (stuck), the loop comes back to its select, which *)
(* takes one of the ready cases at random, and each of these stays ready   *)
(* until it is taken.  In a front end every goroutine keeps running: the   *)
(* reader, the command waitForFrame and the program's own loop.  The       *)
(* channel send of queueFrame serves a receiver that already waits, hence  *)
(* the strong fairness of waitForFrame, which replaceStale disables for a  *)
(* moment.  Nobody has to dial, type or quit, and nothing ends a hold.     *)
Serve(c) ==
  \/ Accept(c) \/ PeerGone(c) \/ RejectVersion(c) \/ Attach(c)
  \/ RejectInput(c) \/ ApplyInput(c) \/ ApplyQuit(c) \/ Stop(c)

Reader(c) == readFrames(c) \/ queueFrame(c) \/ replaceStale(c)

Program(c) == UpdateLast(c) \/ UpdateFrame(c) \/ StopReturns(c)

Fairness ==
  /\ WF_vars((Tick \/ Shutdown) /\ UNCHANGED clientVars)
  /\ \A c \in Clients :
       /\ WF_vars(Serve(c) /\ UNCHANGED clientVars)
       /\ WF_vars(Reader(c) /\ UNCHANGED loopVars)
       /\ SF_vars(waitForFrame(c) /\ UNCHANGED loopVars)
       /\ WF_vars(Program(c) /\ UNCHANGED loopVars)

FairSpec == Spec /\ Fairness

-----------------------------------------------------------------------------
(* Types of the wire, of the loop and of the front ends.                   *)
TypeOK ==
  /\ runtime \in {"serving", "closing", "stopped"}
  /\ conn \in [Clients -> {"none", "backlog", "peer", "dropped"}]
  /\ up \in [Clients -> Seq(Requests)]
  /\ down \in [Clients -> Seq(Frame)]
  /\ hung \in [Clients -> BOOLEAN]
  /\ active \in Clients \cup {NoClient}
  /\ pendingClip \in Nat
  /\ dirty \in BOOLEAN
  /\ rev \in Nat
  /\ uiBy \in Clients \cup {NoClient}
  /\ author \in Seq(Clients)
  /\ output \in Nat
  /\ stuck \in BOOLEAN
  /\ ui \in [Clients -> {"new", "running", "waiting", "gone"}]
  /\ reading \in [Clients -> Results \cup {Empty}]
  /\ mail \in [Clients -> Results \cup {Empty}]
  /\ held \in [Clients -> Results \cup {Empty}]
  /\ readerDone \in [Clients -> BOOLEAN]
  /\ shown \in [Clients -> Screen]
  /\ copies \in [Clients -> Seq(Nat)]
  /\ sent \in Nat

(* A runtime that nobody is attached to holds no clipboard text and no     *)
(* transient UI, whichever way its last client went: displaced, quit,      *)
(* refused, hung up or lost to a failed write (closePeer, ClientDetached). *)
(* Only a turn held in ClientDetached keeps the UI, and draws no frame.    *)
DetachedIsClean ==
  /\ active # NoClient /\ runtime # "stopped" => conn[active] = "peer"
  /\ active = NoClient => pendingClip = 0
  /\ stuck \/ uiBy \in {NoClient, active}

(* No input of a front end is read and then ignored: whoever is still      *)
(* connected when the loop takes its input is the active client, because a *)
(* takeover closes the client it displaces.                                *)
NoInputIgnored ==
  \A c \in Clients :
    Idle /\ conn[c] = "peer" /\ up[c] # <<>> /\ Head(up[c]) \in Inputs
      => active = c

(* The menus, dialogs, modes and selections one user opened are never      *)
(* drawn on the screen of the next one to attach.                          *)
OwnScreen(c, screen) == screen.ui \in {NoClient, c}

ShownUiIsOwn ==
  \A c \in Clients :
    /\ OwnScreen(c, shown[c])
    /\ OwnScreen(c, held[c].screen)
    /\ OwnScreen(c, mail[c].screen)
    /\ OwnScreen(c, reading[c].screen)
    /\ \A i \in 1..Len(down[c]) : OwnScreen(c, down[c][i].screen)

(* A text copied in one terminal reaches no other terminal's clipboard,    *)
(* however frames, takeovers and hang-ups interleave.                      *)
OwnText(c, t) == t # 0 => t \in 1..Len(author) /\ author[t] = c

ClipboardStaysHome ==
  \A c \in Clients :
    /\ \A i \in 1..Len(copies[c]) : OwnText(c, copies[c][i])
    /\ OwnText(c, held[c].clip)
    /\ OwnText(c, mail[c].clip)
    /\ OwnText(c, reading[c].clip)
    /\ \A i \in 1..Len(down[c]) : OwnText(c, down[c][i].clip)

(* "One-shot": a front end puts no text on the clipboard twice, and never  *)
(* an older text over a newer one, although the mailbox merges frames.     *)
ClipboardInOrder ==
  \A c \in Clients : \A i, j \in 1..Len(copies[c]) : i < j => copies[c][i] < copies[c][j]

(* The last words of the runtime to a client, a Detach or an Error frame,  *)
(* are not lost to the end of the stream behind them: once written they    *)
(* stay underway until the program ends with them, unless it ends first.   *)
Underway(c) ==
  {down[c][i] : i \in 1..Len(down[c])} \cup {reading[c], mail[c], held[c]}

FarewellUnderway(c) == \E f \in Underway(c) : f.kind \in {"detach", "error"}

FarewellArrives ==
  [][\A c \in Clients :
       FarewellUnderway(c) /\ ui'[c] = "running" => FarewellUnderway(c)']_vars

(* The runtime implements the lease of the screen (SessionLease).          *)
StandingOf(side, attached) ==
  IF side = "none" THEN "away"
  ELSE IF side = "dropped" THEN "over"
  ELSE IF attached THEN "holder" ELSE "asked"

standing == [c \in Clients |-> StandingOf(conn[c], active = c)]

Lease == INSTANCE SessionLease WITH Clients <- Clients, standing <- standing,
                                    author <- author, copies <- copies

LeaseSpec == Lease!Spec

-----------------------------------------------------------------------------
(* Every connection that reaches the listener is answered, whatever the    *)
(* client attached so far does: it becomes the active client or it is      *)
(* closed.  The one way out is a terminal that holds a turn of the loop    *)
(* for good.                                                               *)
AttachAnswered ==
  \A c \in Clients : conn[c] = "backlog" ~> (active = c \/ conn[c] = "dropped" \/ stuck)

(* A front end whose connection the runtime closed does not stay on the    *)
(* screen: its program ends.                                               *)
DroppedClientEnds ==
  \A c \in Clients : (conn[c] = "dropped" /\ ui[c] = "running") ~> ui[c] # "running"

(* The mailbox skips frames, never the newest: a client that stays         *)
(* attached to a loop that runs comes to show the last state of the model. *)
LatestIsShown ==
  \A c \in Clients :
    <>[](active = c /\ ui[c] = "running" /\ ~stuck) => <>[](active = c => shown[c].rev = rev)

=============================================================================
